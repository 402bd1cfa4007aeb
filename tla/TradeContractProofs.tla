------------------------- MODULE TradeContractProofs -------------------------
(***************************************************************************)
(* The payouts, on their own and as a part of the trade contract.          *)
(*                                                                         *)
(* No obligation is paid twice.  The inductive invariant says why: an      *)
(* obligation that an execution is paying is locked, a locked one is paid  *)
(* by exactly one execution, and an obligation that was transferred is     *)
(* either recorded as paid or still held, with the answer, by the          *)
(* execution that has to record it.                                        *)
(*                                                                         *)
(* The contract implements the payouts, its positions-subaccount covers    *)
(* what is not paid, and its buffers stay bounded: the last three sections.*)
(***************************************************************************)
EXTENDS TradeContract, TradingProofs

----------------------------------------------------------------------------
(* The data keep their types. *)


LEMMA FirstNSubset ==
  ASSUME NEW S, NEW n
  PROVE  FirstN(S, n) \subseteq S
BY DEF FirstN

LEMMA SatSubNat ==
  ASSUME NEW a \in Nat, NEW b \in Nat
  PROVE  SatSub(a, b) \in Nat
BY DEF SatSub

(* Recording results keeps the types of the void positions. *)
LEMMA PaidVoidType ==
  ASSUME NEW vp \in VoidPositionType, NEW o, NEW payouts,
         PartialFunction(payouts, Obligation, PayoutStatus)
  PROVE  PaidVoid(vp, o, payouts) \in VoidPositionType
<1>1. CASE o \in DOMAIN payouts
  <2>1. payouts[o] \in PayoutStatus
    BY <1>1 DEF PartialFunction
  <2>2. payouts[o].payout \in PayoutData \cup {None}
    BY <2>1 DEF PayoutStatus
  <2>3. vp.update_log \in Log
    BY DEF VoidPositionType
  <2>4. [vp.update_log EXCEPT !.payout = IF payouts[o].payout = None THEN @ ELSE payouts[o].payout]
          \in Log
    BY <2>2, <2>3 DEF Log
  <2> QED
    BY <1>1, <2>2, <2>4 DEF PaidVoid, VoidPositionType
<1>2. CASE o \notin DOMAIN payouts
  BY <1>2 DEF PaidVoid
<1> QED
  BY <1>1, <1>2

LEMMA SettledVoidType ==
  ASSUME NEW vp \in VoidPositionType, NEW o, NEW u, NEW payouts, NEW updates,
         PartialFunction(payouts, Obligation, PayoutStatus)
  PROVE  SettledVoid(vp, o, u, payouts, updates) \in VoidPositionType
<1>1. PaidVoid(vp, o, payouts) \in VoidPositionType
  BY PaidVoidType
<1> QED
  BY <1>1 DEF SettledVoid, VoidPositionType

LEMMA SettledVoidsType ==
  ASSUME NEW k, NEW vps, NEW payouts, NEW updates,
         PartialFunction(vps, PositionId, VoidPositionType),
         PartialFunction(payouts, Obligation, PayoutStatus)
  PROVE  PartialFunction(SettledVoids(k, vps, payouts, updates), PositionId, VoidPositionType)
<1>1. \A i \in DOMAIN vps :
        SettledVoid(vps[i], VoidObligation(k, i), VoidUpdate(k, i), payouts, updates)
          \in VoidPositionType
  BY SettledVoidType DEF PartialFunction
<1> QED
  BY <1>1 DEF SettledVoids, PartialFunction

LEMMA SettledTradeType ==
  ASSUME NEW tl \in TradeLogType, NEW payouts,
         PartialFunction(payouts, Obligation, PayoutStatus)
  PROVE  SettledTrade(tl, payouts) \in TradeLogType
<1>1. \A o \in DOMAIN payouts : payouts[o].payout \in PayoutData \cup {None}
  BY DEF PartialFunction, PayoutStatus
<1> QED
  BY <1>1 DEF SettledTrade, TradeLogType

LEMMA SettledTradesType ==
  ASSUME NEW tls \in Seq(TradeLogType), NEW payouts,
         PartialFunction(payouts, Obligation, PayoutStatus)
  PROVE  /\ SettledTrades(tls, payouts) \in Seq(TradeLogType)
         /\ Len(SettledTrades(tls, payouts)) = Len(tls)
         /\ \A i \in 1 .. Len(tls) : SettledTrades(tls, payouts)[i] = SettledTrade(tls[i], payouts)
<1>1. \A i \in 1 .. Len(tls) : SettledTrade(tls[i], payouts) \in TradeLogType
  BY SettledTradeType
<1> QED
  BY <1>1 DEF SettledTrades

----------------------------------------------------------------------------
(* Type correctness *)

(* The runs after one of them changed. *)
LEMMA RunsExcept ==
  ASSUME TypeOK, NEW r \in Run, NEW run, RunOK(run)
  PROVE  /\ DOMAIN [runs EXCEPT ![r] = run] = Run
         /\ \A q \in Run : RunOK([runs EXCEPT ![r] = run][q])
BY DEF TypeOK

LEMMA IdleOK == RunOK(Idle)
BY DEF RunOK, Idle, NoTasks, PartialFunction

LEMMA InitTypeOK == Init => TypeOK
<1> SUFFICES ASSUME Init PROVE TypeOK
  OBVIOUS
<1>1. \A k \in Kind : PartialFunction(void_positions[k], PositionId, VoidPositionType)
  BY DEF Init, NoTasks, PartialFunction
<1>2. \A r \in Run : RunOK(runs[r])
  BY IdleOK DEF Init
<1>3. ledger_fee \in [Kind -> LedgerFees] /\ cached_fee \in [Kind -> Nat]
  BY PayoutsAssumption DEF Init
<1>4. /\ trade_logs \in Seq(TradeLogType)
      /\ position_logs \in Seq(Log)
      /\ trades_stored \in Seq(TradeLogType)
      /\ transfers \in [Obligation -> Seq([amount : Nat, fee : Nat])]
  BY DEF Init
<1>5. /\ flushed \in [Storage -> Nat] /\ flush_lock \in [Storage -> BOOLEAN]
      /\ positions \in [Kind -> SUBSET PositionId]
      /\ DOMAIN void_positions = Kind /\ DOMAIN runs = Run
  BY DEF Init
<1>6. /\ positions_id_counter \in 0 .. MaxId /\ trade_logs_id_counter \in 0 .. MaxTrades
      /\ timers \in Nat /\ fee_changes \in 0 .. MaxFeeChanges /\ upgrades \in 0 .. MaxUpgrades
  BY PayoutsAssumption DEF Init
<1> QED
  BY <1>1, <1>2, <1>3, <1>4, <1>5, <1>6 DEF TypeOK

(* What the market does keeps the types. *)
LEMMA NewVoidPositionType ==
  ASSUME NEW q \in VoidQuantity
  PROVE  NewVoidPosition(q) \in VoidPositionType
<1>1. [terminated |-> TRUE, payout |-> None] \in Log
  BY DEF Log
<1> QED
  BY <1>1, PayoutsAssumption DEF NewVoidPosition, VoidPositionType

LEMMA CreateAndMatchType ==
  ASSUME TypeOK, NEW k \in Kind, NEW voided \in SUBSET (PositionId \cup {positions_id_counter}),
         NEW n \in Nat, NEW q \in [voided -> VoidQuantity],
         NEW sides \in [1 .. n -> [Kind -> TradeSide]],
         CreateAndMatch(k, voided, n, q, sides)
  PROVE  TypeOK'
<1> USE DEF CreateAndMatch
<1>1. positions_id_counter \in PositionId /\ voided \subseteq PositionId
  BY PayoutsAssumption, SMTT(40) DEF TypeOK, PositionId
<1>2. \A i \in voided : NewVoidPosition(q[i]) \in VoidPositionType
  BY NewVoidPositionType
<1>3. \A j \in Kind : PartialFunction(void_positions'[j], PositionId, VoidPositionType)
  <2> TAKE j \in Kind
  <2> DEFINE new == {i \in voided : (i = positions_id_counter) = (j = k)}
  <2>1. void_positions'[j] = [i \in DOMAIN void_positions[j] \cup new |->
                               IF i \in new THEN NewVoidPosition(q[i]) ELSE void_positions[j][i]]
    BY Zenon
  <2>2. new \subseteq voided
    OBVIOUS
  <2> HIDE DEF new, CreateAndMatch
  <2>3. /\ DOMAIN void_positions[j] \subseteq PositionId
        /\ \A i \in DOMAIN void_positions[j] : void_positions[j][i] \in VoidPositionType
    BY DEF TypeOK, PartialFunction
  <2>4. \A i \in new : NewVoidPosition(q[i]) \in VoidPositionType
    BY <1>2, <2>2
  <2> QED
    BY <1>1, <2>1, <2>2, <2>3, <2>4 DEF PartialFunction
<1>4. \A i \in 1 .. n : NewTradeLog(trade_logs_id_counter + i - 1, sides[i]) \in TradeLogType
  <2> TAKE i \in 1 .. n
  <2>1. trade_logs_id_counter + i - 1 \in Nat
    BY DEF TypeOK
  <2>2. \A j \in Kind : sides[i][j] \in [mount : Nat, cts_fee : Nat]
    BY PayoutsAssumption
  <2>3. [j \in Kind |-> sides[i][j].mount] \in [Kind -> Nat]
    BY ONLY <2>2
  <2>4. [j \in Kind |-> sides[i][j].cts_fee] \in [Kind -> Nat]
    BY ONLY <2>2
  <2>5. [j \in Kind |-> FALSE] \in [Kind -> BOOLEAN]
    OBVIOUS
  <2>6. [j \in Kind |-> None] \in [Kind -> PayoutData \cup {None}]
    OBVIOUS
  <2> QED
    BY ONLY <2>1, <2>3, <2>4, <2>5, <2>6 DEF NewTradeLog, TradeLogType
<1>5. trade_logs' \in Seq(TradeLogType)
  <2> DEFINE log(i) == NewTradeLog(trade_logs_id_counter + i - 1, sides[i])
  <2>1. n \in Nat /\ \A i \in 1 .. n : log(i) \in TradeLogType
    BY <1>4
  <2>2. [i \in 1 .. n |-> log(i)] \in Seq(TradeLogType)
    <3> HIDE DEF log
    <3> QED
      BY ONLY <2>1
  <2> QED
    BY <2>2 DEF TypeOK
<1>6. position_logs' \in Seq(Log)
  <2>1. OpenLog \in Log
    BY DEF OpenLog, Log
  <2> QED
    BY <2>1 DEF TypeOK
<1>7. positions' \in [Kind -> SUBSET PositionId]
  BY <1>1 DEF TypeOK
<1>8. /\ positions_id_counter' \in 0 .. MaxId
      /\ trade_logs_id_counter' \in 0 .. MaxTrades
      /\ timers' \in Nat
  BY PayoutsAssumption DEF TypeOK
<1>9. DOMAIN void_positions' = Kind
  OBVIOUS
<1> QED
  BY <1>3, <1>5, <1>6, <1>7, <1>8, <1>9 DEF TypeOK, feeVars, boundVars

LEMMA VoidPositionStepType ==
  ASSUME TypeOK, NEW k \in Kind, NEW id \in positions[k], VoidPosition(k, id)
  PROVE  TypeOK'
<1>1. PICK q \in VoidQuantity :
        void_positions' = [void_positions EXCEPT ![k] =
          [i \in DOMAIN @ \cup {id} |-> IF i = id THEN NewVoidPosition(q) ELSE @[i]]]
  BY DEF VoidPosition
<1>2. id \in PositionId /\ NewVoidPosition(q) \in VoidPositionType
  BY NewVoidPositionType DEF TypeOK
<1>3. /\ DOMAIN void_positions' = Kind
      /\ \A j \in Kind : PartialFunction(void_positions'[j], PositionId, VoidPositionType)
  BY <1>1, <1>2 DEF TypeOK, PartialFunction
<1>4. positions' \in [Kind -> SUBSET PositionId] /\ timers' \in Nat
  BY DEF TypeOK, VoidPosition
<1> QED
  BY <1>3, <1>4 DEF TypeOK, VoidPosition, storageVars, feeVars, boundVars
(* What an execution takes was there, unlocked and not settled. *)
LEMMA TakenVoids ==
  ASSUME NEW k \in Kind
  PROVE  /\ \A i \in VoidPayouts(k) : /\ i \in DOMAIN void_positions[k]
                                      /\ void_positions[k][i].payout_data = None
                                      /\ ~void_positions[k][i].payout_lock
         /\ \A i \in VoidUpdates(k) : /\ ~flush_lock["positions"]
                                      /\ i \in DOMAIN void_positions[k]
                                      /\ void_positions[k][i].payout_data # None
                                      /\ ~void_positions[k][i].update_status
                                      /\ ~void_positions[k][i].update_lock
BY FirstNSubset DEF VoidPayouts, VoidUpdates

LEMMA TakenTrades ==
  ASSUME NEW k \in Kind, NEW id \in TradePayouts(k)
  PROVE  \E i \in 1 .. Len(trade_logs) : /\ trade_logs[i].id = id
                                         /\ trade_logs[i].payout_data[k] = None
                                         /\ ~trade_logs[i].payout_lock[k]
BY FirstNSubset DEF TradePayouts

LEMMA NetNat ==
  ASSUME TypeOK, NEW o \in TakenPayouts
  PROVE  Net(o) \in Nat
<1>1. o \in Obligation /\ o.kind \in Kind /\ o.op \in {"void", "trade"}
  BY DEF TakenPayouts, Obligation
<1>2. CASE o.op = "void"
  <2>1. o.id \in DOMAIN void_positions[o.kind]
    BY <1>1, <1>2, TakenVoids DEF TakenPayouts
  <2>2. void_positions[o.kind][o.id] \in VoidPositionType
    BY <1>1, <2>1 DEF TypeOK, PartialFunction
  <2>3. Mount(o) \in Nat /\ CtsFee(o) \in Nat
    BY <1>2, <2>2 DEF Mount, CtsFee, VoidPositionType
  <2> QED
    BY <2>3, SatSubNat DEF Net
<1>3. CASE o.op = "trade"
  <2>1. \E i \in 1 .. Len(trade_logs) : trade_logs[i].id = o.id
    BY <1>1, <1>3, TakenTrades DEF TakenPayouts
  <2>2. TradeIndex(trade_logs, o.id) \in 1 .. Len(trade_logs)
    BY <2>1 DEF TradeIndex
  <2>3. trade_logs[TradeIndex(trade_logs, o.id)] \in TradeLogType
    BY <2>2 DEF TypeOK
  <2>4. Mount(o) \in Nat /\ CtsFee(o) \in Nat
    BY <1>1, <1>3, <2>3 DEF Mount, CtsFee, TradeLogType
  <2> QED
    BY <2>4, SatSubNat DEF Net
<1> QED
  BY <1>1, <1>2, <1>3

LEMMA StartPayoutType ==
  ASSUME TypeOK
  PROVE  PartialFunction([o \in TakenPayouts |-> StartPayout(o)], Obligation, PayoutStatus)
<1> SUFFICES ASSUME NEW o \in TakenPayouts PROVE StartPayout(o) \in PayoutStatus
  BY DEF PartialFunction, TakenPayouts
<1>1. cached_fee[o.kind] \in Nat
  BY DEF TypeOK, TakenPayouts, Obligation
<1>2. Sent(o, cached_fee[o.kind]) \in PayoutStatus
  BY <1>1, NetNat, SatSubNat DEF Sent, PayoutStatus
<1>3. [did_transfer |-> FALSE, ledger_transfer_fee |-> cached_fee[o.kind]] \in PayoutData
  BY <1>1 DEF PayoutData
<1>4. Dust(o, cached_fee[o.kind]) \in PayoutStatus
  BY <1>2, <1>3 DEF Dust, PayoutStatus
<1> QED
  BY <1>2, <1>4 DEF StartPayout

LEMMA StartUpdateType ==
  ASSUME TypeOK
  PROVE  /\ PartialFunction([u \in TakenUpdates |-> StartUpdate(u)], Update, UpdateStatus)
         /\ \A u \in TakenUpdates : void_positions[u.kind][u.id].update_log \in Log
<1>1. \A u \in TakenUpdates : void_positions[u.kind][u.id].update_log \in Log
  <2> TAKE u \in TakenUpdates
  <2>1. u.kind \in Kind /\ u.id \in DOMAIN void_positions[u.kind]
    BY TakenVoids DEF TakenUpdates, Update
  <2>2. void_positions[u.kind][u.id] \in VoidPositionType
    BY <2>1 DEF TypeOK, PartialFunction
  <2> QED
    BY <2>2 DEF VoidPositionType
<1>2. \A u \in TakenUpdates : StartUpdate(u) \in UpdateStatus
  BY <1>1 DEF StartUpdate, UpdateStatus
<1> QED
  BY <1>1, <1>2 DEF PartialFunction, TakenUpdates

LEMMA LockedVoidsType ==
  ASSUME TypeOK
  PROVE  /\ DOMAIN LockedVoids = Kind
         /\ \A k \in Kind : /\ DOMAIN LockedVoids[k] = DOMAIN void_positions[k]
                            /\ PartialFunction(LockedVoids[k], PositionId, VoidPositionType)
<1> SUFFICES ASSUME NEW k \in Kind
             PROVE  PartialFunction(LockedVoids[k], PositionId, VoidPositionType)
  BY DEF LockedVoids
<1>1. /\ DOMAIN void_positions[k] \subseteq PositionId
      /\ \A i \in DOMAIN void_positions[k] : void_positions[k][i] \in VoidPositionType
  BY DEF TypeOK, PartialFunction
<1>2. \A i \in DOMAIN void_positions[k] :
        [void_positions[k][i] EXCEPT !.payout_lock = @ \/ i \in VoidPayouts(k),
                                     !.update_lock = @ \/ i \in VoidUpdates(k)] \in VoidPositionType
  BY <1>1 DEF VoidPositionType
<1> QED
  BY <1>1, <1>2 DEF LockedVoids, PartialFunction

LEMMA LockedTradesType ==
  ASSUME TypeOK
  PROVE  LockedTrades \in Seq(TradeLogType) /\ Len(LockedTrades) = Len(trade_logs)
<1>1. \A i \in 1 .. Len(trade_logs) :
        [trade_logs[i] EXCEPT !.payout_lock =
          [k \in Kind |-> trade_logs[i].payout_lock[k] \/ trade_logs[i].id \in TradePayouts(k)]]
            \in TradeLogType
  <2> TAKE i \in 1 .. Len(trade_logs)
  <2>1. trade_logs[i] \in TradeLogType
    BY DEF TypeOK
  <2>2. [k \in Kind |-> trade_logs[i].payout_lock[k] \/ trade_logs[i].id \in TradePayouts(k)]
          \in [Kind -> BOOLEAN]
    BY <2>1 DEF TradeLogType
  <2> QED
    BY <2>1, <2>2 DEF TradeLogType
<1>2. Len(trade_logs) \in Nat
  BY DEF TypeOK
<1>3. LockedTrades \in [1 .. Len(trade_logs) -> TradeLogType]
  BY <1>1 DEF LockedTrades
<1>4. \A T, f : \A n \in Nat : f \in [1 .. n -> T] => f \in Seq(T) /\ Len(f) = n
  OBVIOUS
<1> QED
  BY ONLY <1>2, <1>3, <1>4

LEMMA BufferUpdatedType ==
  ASSUME TypeOK
  PROVE  BufferUpdated \in Seq(Log) /\ Len(BufferUpdated) = Len(position_logs)
<1> DEFINE u(i) == CHOOSE u \in TakenUpdates : u.id = i - 1
           new(i) == IF ~OnCanister(i - 1) /\ \E v \in TakenUpdates : v.id = i - 1
                     THEN void_positions[u(i).kind][u(i).id].update_log
                     ELSE position_logs[i]
<1>1. \A i \in 1 .. Len(position_logs) : new(i) \in Log
  <2> TAKE i \in 1 .. Len(position_logs)
  <2>1. position_logs[i] \in Log
    BY DEF TypeOK
  <2>2. (\E v \in TakenUpdates : v.id = i - 1) => u(i) \in TakenUpdates
    OBVIOUS
  <2> HIDE DEF u
  <2> QED
    BY <2>1, <2>2, StartUpdateType
<1>2. BufferUpdated = [i \in 1 .. Len(position_logs) |-> new(i)]
  BY DEF BufferUpdated
<1>3. Len(position_logs) \in Nat
  BY DEF TypeOK
<1> HIDE DEF new
<1> QED
  BY <1>1, <1>2, <1>3

LEMMA StartRunType ==
  ASSUME TypeOK, NEW r \in Run, StartRun(r)
  PROVE  TypeOK'
<1> DEFINE payouts == [o \in TakenPayouts |-> StartPayout(o)]
           updates == [u \in TakenUpdates |-> StartUpdate(u)]
           lock    == flush_lock["positions"] \/ TakenUpdates # {}
<1>1. Polled(r, LockedVoids, LockedTrades, lock, payouts, updates)
  BY DEF StartRun
<1>2. /\ PartialFunction(payouts, Obligation, PayoutStatus)
      /\ PartialFunction(updates, Update, UpdateStatus)
  BY StartPayoutType, StartUpdateType
<1> HIDE DEF payouts, updates, lock
<1>3. /\ DOMAIN void_positions' = Kind
      /\ \A k \in Kind : PartialFunction(void_positions'[k], PositionId, VoidPositionType)
  BY <1>1, <1>2, LockedVoidsType, SettledVoidsType DEF Polled
<1>4. trade_logs' \in Seq(TradeLogType)
  BY <1>1, <1>2, LockedTradesType, SettledTradesType DEF Polled
<1>5. flush_lock' \in [Storage -> BOOLEAN]
  <2>1. lock \in BOOLEAN
    BY DEF TypeOK, Storage, lock
  <2> QED
    BY <1>1, <2>1 DEF Polled, TypeOK
<1>6. DOMAIN runs' = Run /\ \A q \in Run : RunOK(runs'[q])
  <2>1. RunOK(runs[r])
    BY DEF TypeOK
  <2>2. RunOK([Idle EXCEPT !.pc = "replied", !.driven = TRUE])
    BY IdleOK DEF RunOK, Idle, NoTasks
  <2>3. RunOK([runs[r] EXCEPT !.pc = "paying", !.payouts = payouts, !.updates = updates])
    BY <2>1, <1>2 DEF RunOK
  <2>4. \E run : RunOK(run) /\ runs' = [runs EXCEPT ![r] = run]
    BY <1>1, <2>2, <2>3, IdleOK DEF Polled
  <2> QED
    BY <2>4, RunsExcept
<1>7. position_logs' \in Seq(Log)
  BY BufferUpdatedType DEF StartRun
<1> QED
  BY <1>3, <1>4, <1>5, <1>6, <1>7 DEF TypeOK, StartRun, marketVars, feeVars, boundVars

(* The statuses of an execution change one at a time. *)
LEMMA PayoutChangesType ==
  ASSUME NEW payouts, PartialFunction(payouts, Obligation, PayoutStatus),
         NEW o \in DOMAIN payouts, NEW st \in PayoutStatus
  PROVE  PartialFunction([payouts EXCEPT ![o] = st], Obligation, PayoutStatus)
BY DEF PartialFunction

LEMMA UpdateChangesType ==
  ASSUME NEW updates, PartialFunction(updates, Update, UpdateStatus),
         NEW u \in DOMAIN updates, NEW at \in {"sent", "stored", "failed", "ok", "err"}
  PROVE  PartialFunction([updates EXCEPT ![u].at = at], Update, UpdateStatus)
<1>1. [updates[u] EXCEPT !.at = at] \in UpdateStatus
  BY DEF PartialFunction, UpdateStatus
<1> QED
  BY <1>1 DEF PartialFunction

LEMMA RunFields ==
  ASSUME TypeOK, NEW r \in Run
  PROVE  /\ RunOK(runs[r])
         /\ runs[r].driven \in BOOLEAN
         /\ PartialFunction(runs[r].payouts, Obligation, PayoutStatus)
         /\ PartialFunction(runs[r].updates, Update, UpdateStatus)
         /\ PartialFunction(runs[r].flushes, Storage, Nat)
BY DEF TypeOK, RunOK

(* What is behind the join keeps the types of the runs. *)
LEMMA PolledRunOK ==
  ASSUME TypeOK, NEW r \in Run,
         NEW payouts, PartialFunction(payouts, Obligation, PayoutStatus),
         NEW updates, PartialFunction(updates, Update, UpdateStatus)
  PROVE  /\ RunOK([Idle EXCEPT !.pc = "replied", !.driven = TRUE])
         /\ RunOK([runs[r] EXCEPT !.pc = "paying", !.payouts = payouts, !.updates = updates])
<1>1. RunOK([Idle EXCEPT !.pc = "replied", !.driven = TRUE])
  BY IdleOK DEF RunOK, Idle, NoTasks
<1>2. RunOK([runs[r] EXCEPT !.pc = "paying", !.payouts = payouts, !.updates = updates])
  BY RunFields DEF RunOK
<1> QED
  BY <1>1, <1>2

LEMMA AnswerType ==
  ASSUME TypeOK, NEW r \in Run, NEW o \in DOMAIN runs[r].payouts,
         NEW pd \in PayoutData \cup {None}, NEW fee \in Nat \cup {None}, Answer(r, o, pd, fee)
  PROVE  DOMAIN runs' = Run /\ \A q \in Run : RunOK(runs'[q])
<1> DEFINE st == [runs[r].payouts[o] EXCEPT !.at = "answered", !.payout = pd, !.expected_fee = fee]
<1>1. st \in PayoutStatus
  <2>1. runs[r].payouts[o] \in PayoutStatus
    BY RunFields DEF PartialFunction
  <2> QED
    BY <2>1 DEF PayoutStatus
<1>2. PartialFunction([runs[r].payouts EXCEPT ![o] = st], Obligation, PayoutStatus)
  BY <1>1, RunFields, PayoutChangesType
<1>3. RunOK([runs[r] EXCEPT !.payouts = [runs[r].payouts EXCEPT ![o] = st]])
  <2> HIDE DEF st
  <2> QED
    BY <1>2, RunFields DEF RunOK
<1>4. runs' = [runs EXCEPT ![r] = [runs[r] EXCEPT !.payouts = [runs[r].payouts EXCEPT ![o] = st]]]
  BY DEF Answer
<1> QED
  BY <1>3, <1>4, RunsExcept

LEMMA ExceptSeqType ==
  ASSUME NEW S, NEW s \in Seq(S), NEW i, NEW x \in S
  PROVE  [s EXCEPT ![i] = x] \in Seq(S) /\ Len([s EXCEPT ![i] = x]) = Len(s)
<1>1. Len(s) \in Nat /\ s \in [1 .. Len(s) -> S]
  OBVIOUS
<1>2. [s EXCEPT ![i] = x] \in [1 .. Len(s) -> S]
  BY <1>1
<1> QED
  BY <1>1, <1>2

LEMMA CalleeType ==
  ASSUME TypeOK, NEW r \in Run, Callee(r)
  PROVE  TypeOK'
<1>1. ASSUME NEW o \in DOMAIN runs[r].payouts, Transfer(r, o) PROVE TypeOK'
  <2>1. o \in Obligation /\ runs[r].payouts[o] \in PayoutStatus
    BY RunFields DEF PartialFunction
  <2>2. /\ runs[r].payouts[o].amount \in Nat
        /\ runs[r].payouts[o].fee \in Nat
    BY <2>1 DEF PayoutStatus
  <2>3. transfers' \in [Obligation -> Seq([amount : Nat, fee : Nat])]
    <3>1. [amount |-> runs[r].payouts[o].amount, fee |-> runs[r].payouts[o].fee]
            \in [amount : Nat, fee : Nat]
      BY <2>2
    <3>2. transfers[o] \in Seq([amount : Nat, fee : Nat])
      BY <2>1 DEF TypeOK
    <3>3. Append(transfers[o], [amount |-> runs[r].payouts[o].amount, fee |-> runs[r].payouts[o].fee])
            \in Seq([amount : Nat, fee : Nat])
      BY <3>1, <3>2
    <3> QED
      BY <1>1, <3>3 DEF Transfer, TypeOK
  <2>4. [did_transfer |-> TRUE, ledger_transfer_fee |-> runs[r].payouts[o].fee] \in PayoutData
    BY <2>2 DEF PayoutData
  <2>5. DOMAIN runs' = Run /\ \A q \in Run : RunOK(runs'[q])
    BY <1>1, <2>4, AnswerType DEF Transfer
  <2> QED
    BY <1>1, <2>3, <2>5
       DEF Transfer, TypeOK, marketVars, owedVars, storageVars, feeVars, boundVars
<1>2. ASSUME NEW o \in DOMAIN runs[r].payouts, BadFee(r, o) PROVE TypeOK'
  <2>1. ledger_fee[o.kind] \in Nat
    BY RunFields, PayoutsAssumption, ZenonT(40) DEF PartialFunction, TypeOK, Obligation
  <2>2. DOMAIN runs' = Run /\ \A q \in Run : RunOK(runs'[q])
    BY <1>2, <2>1, AnswerType DEF BadFee
  <2> QED
    BY <1>2, <2>2 DEF BadFee, TypeOK, marketVars, owedVars, storageVars, feeVars, boundVars
<1>3. ASSUME NEW o \in DOMAIN runs[r].payouts, TransferFails(r, o) PROVE TypeOK'
  <2>1. DOMAIN runs' = Run /\ \A q \in Run : RunOK(runs'[q])
    BY <1>3, AnswerType DEF TransferFails
  <2> QED
    BY <1>3, <2>1
       DEF TransferFails, TypeOK, marketVars, owedVars, storageVars, feeVars, boundVars
<1>4. ASSUME NEW u \in DOMAIN runs[r].updates, NEW at \in {"stored", "failed"},
             runs' = [runs EXCEPT ![r].updates[u].at = at]
      PROVE  DOMAIN runs' = Run /\ \A q \in Run : RunOK(runs'[q])
  <2>1. PartialFunction([runs[r].updates EXCEPT ![u].at = at], Update, UpdateStatus)
    BY RunFields, UpdateChangesType
  <2>2. RunOK([runs[r] EXCEPT !.updates = [runs[r].updates EXCEPT ![u].at = at]])
    BY <2>1, RunFields DEF RunOK
  <2>3. runs' = [runs EXCEPT ![r] = [runs[r] EXCEPT !.updates = [runs[r].updates EXCEPT ![u].at = at]]]
    BY <1>4 DEF TypeOK
  <2> QED
    BY <2>2, <2>3, RunsExcept
<1>5. ASSUME NEW u \in DOMAIN runs[r].updates, CmUpdateLog(r, u) PROVE TypeOK'
  <2>1. DOMAIN runs' = Run /\ \A q \in Run : RunOK(runs'[q])
    BY <1>4, <1>5 DEF CmUpdateLog
  <2>2. runs[r].updates[u].log \in Log
    BY RunFields DEF PartialFunction, UpdateStatus
  <2>3. position_logs' \in Seq(Log)
    BY <1>5, <2>2, ExceptSeqType DEF CmUpdateLog, TypeOK
  <2> QED
    BY <1>5, <2>1, <2>3 DEF CmUpdateLog, TypeOK, marketVars, owedVars, feeVars, boundVars
<1>6. ASSUME NEW u \in DOMAIN runs[r].updates, UpdateFails(r, u) PROVE TypeOK'
  <2>1. DOMAIN runs' = Run /\ \A q \in Run : RunOK(runs'[q])
    BY <1>4, <1>6 DEF UpdateFails
  <2> QED
    BY <1>6, <2>1 DEF UpdateFails, TypeOK, marketVars, owedVars, storageVars, feeVars, boundVars
<1> QED
  BY <1>1, <1>2, <1>3, <1>5, <1>6 DEF Callee

LEMMA PayoutReplyType ==
  ASSUME TypeOK, NEW r \in Run, NEW o \in DOMAIN runs[r].payouts, PayoutReply(r, o)
  PROVE  TypeOK'
<1> DEFINE payouts == [runs[r].payouts EXCEPT ![o].at = "done"]
           updates == runs[r].updates
<1>1. Polled(r, void_positions, trade_logs, flush_lock["positions"], payouts, updates)
  BY DEF PayoutReply
<1>2. o \in Obligation /\ runs[r].payouts[o] \in PayoutStatus
  BY RunFields DEF PartialFunction
<1>3. PartialFunction(payouts, Obligation, PayoutStatus)
  <2>1. [runs[r].payouts[o] EXCEPT !.at = "done"] \in PayoutStatus
    BY <1>2 DEF PayoutStatus
  <2> QED
    BY <2>1, RunFields, PayoutChangesType
<1>4. PartialFunction(updates, Update, UpdateStatus)
  BY RunFields
<1> HIDE DEF payouts, updates
<1>5. /\ DOMAIN void_positions' = Kind
      /\ \A k \in Kind : PartialFunction(void_positions'[k], PositionId, VoidPositionType)
  BY <1>1, <1>3, SettledVoidsType DEF Polled, TypeOK
<1>6. trade_logs' \in Seq(TradeLogType)
  BY <1>1, <1>3, SettledTradesType DEF Polled, TypeOK
<1>7. flush_lock' \in [Storage -> BOOLEAN]
  BY <1>1 DEF Polled, TypeOK, Storage
<1>8. DOMAIN runs' = Run /\ \A q \in Run : RunOK(runs'[q])
  <2>1. \E run : RunOK(run) /\ runs' = [runs EXCEPT ![r] = run]
    BY <1>1, <1>3, <1>4, PolledRunOK, IdleOK DEF Polled
  <2> QED
    BY <2>1, RunsExcept
<1>9. cached_fee' \in [Kind -> Nat]
  <2>1. o.kind \in Kind
    BY <1>2 DEF Obligation
  <2>2. FeeAfter(runs[r].payouts[o], cached_fee[o.kind]) \in Nat
    BY <1>2, <2>1 DEF FeeAfter, PayoutStatus, TypeOK
  <2> QED
    BY <2>1, <2>2 DEF PayoutReply, TypeOK
<1> QED
  BY <1>5, <1>6, <1>7, <1>8, <1>9 DEF TypeOK, PayoutReply, marketVars, storageVars, boundVars

LEMMA UpdateReplyType ==
  ASSUME TypeOK, NEW r \in Run, NEW u \in DOMAIN runs[r].updates, UpdateReply(r, u)
  PROVE  TypeOK'
<1> DEFINE at == IF runs[r].updates[u].at = "stored" THEN "ok" ELSE "err"
           payouts == runs[r].payouts
           updates == [runs[r].updates EXCEPT ![u].at = at]
<1>1. Polled(r, void_positions, trade_logs, flush_lock["positions"], payouts, updates)
  BY DEF UpdateReply
<1>2. PartialFunction(payouts, Obligation, PayoutStatus)
  BY RunFields
<1>3. PartialFunction(updates, Update, UpdateStatus)
  BY RunFields, UpdateChangesType
<1> HIDE DEF payouts, updates
<1>4. /\ DOMAIN void_positions' = Kind
      /\ \A k \in Kind : PartialFunction(void_positions'[k], PositionId, VoidPositionType)
  BY <1>1, <1>2, SettledVoidsType DEF Polled, TypeOK
<1>5. trade_logs' \in Seq(TradeLogType)
  BY <1>1, <1>2, SettledTradesType DEF Polled, TypeOK
<1>6. flush_lock' \in [Storage -> BOOLEAN]
  BY <1>1 DEF Polled, TypeOK, Storage
<1>7. DOMAIN runs' = Run /\ \A q \in Run : RunOK(runs'[q])
  <2>1. \E run : RunOK(run) /\ runs' = [runs EXCEPT ![r] = run]
    BY <1>1, <1>2, <1>3, PolledRunOK, IdleOK DEF Polled
  <2> QED
    BY <2>1, RunsExcept
<1> QED
  BY <1>4, <1>5, <1>6, <1>7 DEF TypeOK, UpdateReply, marketVars, storageVars, feeVars, boundVars

LEMMA ResumeType ==
  ASSUME TypeOK, NEW r \in Run, Resume(r)
  PROVE  TypeOK'
<1>1. PICK n \in 0 .. Len(trade_logs) :
        /\ trades_stored' = trades_stored \o SubSeq(trade_logs, 1, n)
        /\ trade_logs' = SubSeq(trade_logs, n + 1, Len(trade_logs))
        /\ flush_lock' = [s \in Storage |-> flush_lock[s] \/ s \in DueFlushes(n)]
        /\ IF DueFlushes(n) = {}
           THEN /\ runs' = [runs EXCEPT ![r] = Idle]
                /\ timers' = IF Pending' THEN timers + 1 ELSE timers
           ELSE /\ runs' = [runs EXCEPT ![r].pc = "flushing", ![r].flushes =
                             [s \in DueFlushes(n) |-> IF s = "positions" THEN Len(position_logs)
                                                      ELSE Len(trades_stored) + n]]
                /\ timers' = timers
        /\ UNCHANGED <<marketVars, void_positions, position_logs, flushed, feeVars,
                       transfers, boundVars>>
  BY DEF Resume
<1>2. trades_stored' \in Seq(TradeLogType) /\ trade_logs' \in Seq(TradeLogType)
  BY <1>1, SMTT(40) DEF TypeOK
<1>3. flush_lock' \in [Storage -> BOOLEAN]
  BY <1>1 DEF TypeOK
<1>4. timers' \in Nat
  BY <1>1, SMTT(40) DEF TypeOK
<1>5. DOMAIN runs' = Run /\ \A q \in Run : RunOK(runs'[q])
  <2> DEFINE flushes == [s \in DueFlushes(n) |-> IF s = "positions" THEN Len(position_logs)
                                                 ELSE Len(trades_stored) + n]
  <2>1. PartialFunction(flushes, Storage, Nat)
    BY DEF TypeOK, PartialFunction, DueFlushes
  <2> HIDE DEF flushes
  <2>2. RunOK([runs[r] EXCEPT !.pc = "flushing", !.flushes = flushes])
    BY <2>1, RunFields DEF RunOK
  <2>3. runs' = [runs EXCEPT ![r] = Idle]
          \/ runs' = [runs EXCEPT ![r] = [runs[r] EXCEPT !.pc = "flushing", !.flushes = flushes]]
    BY <1>1 DEF flushes, TypeOK
  <2> QED
    BY <2>2, <2>3, IdleOK, RunsExcept
<1> QED
  BY <1>1, <1>2, <1>3, <1>4, <1>5 DEF TypeOK, marketVars, feeVars, boundVars

LEMMA FlushType ==
  ASSUME TypeOK, NEW r \in Run, NEW s \in Storage, FlushStep(r, s)
  PROVE  TypeOK'
<1>1. s \in DOMAIN runs[r].flushes /\ runs[r].flushes[s] \in Nat
  BY RunFields DEF FlushStep, FlushLogs, FlushEnds, FlushStops, PartialFunction
<1>2. CASE FlushLogs(r, s)
  <2>1. flushed' \in [Storage -> Nat]
    BY <1>1, <1>2, PayoutsAssumption DEF FlushLogs, TypeOK
  <2> QED
    BY <1>2, <2>1 DEF FlushLogs, TypeOK, marketVars, owedVars, feeVars, boundVars
<1>3. CASE Unlock(r, s)
  <2> DEFINE left == DOMAIN runs[r].flushes \ {s}
             run  == [runs[r] EXCEPT !.flushes = [t \in left |-> runs[r].flushes[t]]]
  <2>1. PartialFunction([t \in left |-> runs[r].flushes[t]], Storage, Nat)
    BY RunFields DEF PartialFunction
  <2>2. RunOK(run)
    <3> HIDE DEF left
    <3> QED
      BY <2>1, RunFields DEF RunOK
  <2>3. runs' = [runs EXCEPT ![r] = Idle] \/ runs' = [runs EXCEPT ![r] = run]
    BY <1>3 DEF Unlock, TypeOK
  <2>4. DOMAIN runs' = Run /\ \A q \in Run : RunOK(runs'[q])
    <3> HIDE DEF run
    <3> QED
      BY <2>2, <2>3, IdleOK, RunsExcept
  <2>5. timers' \in Nat /\ flush_lock' \in [Storage -> BOOLEAN]
    BY <1>3 DEF Unlock, TypeOK
  <2> QED
    BY <1>3, <2>4, <2>5 DEF Unlock, TypeOK, marketVars, owedVars, storageVars, feeVars, boundVars
<1> QED
  BY <1>2, <1>3 DEF FlushStep, FlushEnds, FlushStops

LEMMA TimerType ==
  ASSUME TypeOK, NEW r \in Run, TimerFires(r) \/ SelfCallFails(r)
  PROVE  TypeOK'
<1>1. RunOK([Idle EXCEPT !.pc = "called", !.driven = TRUE])
  BY IdleOK DEF RunOK, Idle, NoTasks
<1>2. DOMAIN runs' = Run /\ \A q \in Run : RunOK(runs'[q])
  BY <1>1, IdleOK, RunsExcept DEF TimerFires, SelfCallFails, TypeOK
<1>3. timers' \in Nat
  BY DEF TimerFires, SelfCallFails, TypeOK
<1> QED
  BY <1>2, <1>3 DEF TimerFires, SelfCallFails, TypeOK, marketVars, owedVars, storageVars,
                    feeVars, boundVars

LEMMA EnvironmentType ==
  ASSUME TypeOK, MarketError \/ (\E k \in Kind : LedgerFeeChanges(k)) \/ Upgrade
  PROVE  TypeOK'
<1>1. CASE MarketError
  BY <1>1 DEF MarketError, TypeOK, marketVars, owedVars, storageVars, feeVars, boundVars
<1>2. ASSUME NEW k \in Kind, LedgerFeeChanges(k) PROVE TypeOK'
  <2>1. ledger_fee' \in [Kind -> LedgerFees] /\ fee_changes' \in 0 .. MaxFeeChanges
    BY <1>2, PayoutsAssumption DEF LedgerFeeChanges, TypeOK
  <2> QED
    BY <1>2, <2>1 DEF LedgerFeeChanges, TypeOK, marketVars, owedVars, storageVars
<1>3. CASE Upgrade
  <2>1. timers' \in Nat /\ upgrades' \in 0 .. MaxUpgrades
    BY <1>3, PayoutsAssumption DEF Upgrade, TypeOK
  <2> QED
    BY <1>3, <2>1 DEF Upgrade, TypeOK, marketVars, owedVars, storageVars, feeVars
<1> QED
  BY <1>1, <1>2, <1>3

LEMMA NextType ==
  ASSUME TypeOK, [Next]_vars
  PROVE  TypeOK'
<1>1. CASE Market
  <2>1. ASSUME NEW k \in Kind, Trade(k) PROVE TypeOK'
    <3> DEFINE matchees == positions[Opposite(k)]
    <3>1. Opposite(k) \in Kind
      BY Kinds
    <3>2. matchees \subseteq PositionId
      BY <3>1 DEF TypeOK
    <3>3. PICK voided \in SUBSET (matchees \cup {positions_id_counter}),
               n \in 0 .. Cardinality(matchees) :
            \E q \in [voided -> VoidQuantity], sides \in [1 .. n -> [Kind -> TradeSide]] :
              CreateAndMatch(k, voided, n, q, sides)
      BY <2>1 DEF Trade
    <3>4. voided \in SUBSET (PositionId \cup {positions_id_counter}) /\ n \in Nat
      BY <3>2
    <3> QED
      BY <3>3, <3>4, CreateAndMatchType
  <2> QED
    BY <1>1, <2>1, VoidPositionStepType, EnvironmentType DEF Market
<1>2. ASSUME NEW r \in Run, Canister(r) PROVE TypeOK'
  BY <1>2, TimerType, StartRunType, ResumeType, PayoutReplyType, UpdateReplyType, FlushType
     DEF Canister, FlushStep
<1>3. ASSUME NEW r \in Run, Callee(r) PROVE TypeOK'
  BY <1>3, CalleeType
<1>4. CASE (\E k \in Kind : LedgerFeeChanges(k)) \/ Upgrade
  BY <1>4, EnvironmentType
<1>5. CASE UNCHANGED vars
  BY <1>5 DEF vars, marketVars, owedVars, storageVars, feeVars, boundVars, TypeOK
<1> QED
  BY <1>1, <1>2, <1>3, <1>4, <1>5 DEF Next

(* The state always has the types of the code's data. *)
THEOREM TypeCorrect == Spec => []TypeOK
<1>1. TypeOK /\ [Next]_vars => TypeOK'
  BY NextType
<1> QED
  BY <1>1, InitTypeOK, PTL DEF Spec

----------------------------------------------------------------------------
(* The payout locks *)


(* An execution has tasks only while it waits for them. *)
RunShape(run) ==
  /\ run.pc # "paying" => DOMAIN run.payouts = {} /\ DOMAIN run.updates = {}
  /\ run.pc # "flushing" => DOMAIN run.flushes = {}
  /\ \A o \in DOMAIN run.payouts : run.payouts[o].at = "sent" => run.payouts[o].payout = None
RunShapes == \A r \in Run : RunShape(runs[r])

(* The ids of positions and void positions were given out, and no position *)
(* is both on the book and void.                                           *)
BookIds ==
  \A k \in Kind : /\ positions[k] \subseteq 0 .. positions_id_counter - 1
                  /\ DOMAIN void_positions[k] \subseteq 0 .. positions_id_counter - 1
                  /\ positions[k] \cap DOMAIN void_positions[k] = {}

(* The obligations whose lock is set, and those not recorded as paid. *)
LockedOnes(vps, tls) ==
  {o \in Obligation :
     IF o.op = "void" THEN o.id \in DOMAIN vps[o.kind] /\ vps[o.kind][o.id].payout_lock
     ELSE \E i \in 1 .. Len(tls) : tls[i].id = o.id /\ tls[i].payout_lock[o.kind]}

OwedOnes(vps, tls) ==
  {o \in Obligation :
     IF o.op = "void" THEN o.id \in DOMAIN vps[o.kind] /\ vps[o.kind][o.id].payout_data = None
     ELSE \E i \in 1 .. Len(tls) : tls[i].id = o.id /\ tls[i].payout_data[o.kind] = None}

(* The payouts whose outcome is to be recorded.                            *)
Recorded(payouts) == {o \in DOMAIN payouts : payouts[o].payout # None}

NumberedApart(tls) == \A i, j \in 1 .. Len(tls) : tls[i].id = tls[j].id => i = j

VoidsOK(vps) == \A k \in Kind : PartialFunction(vps[k], PositionId, VoidPositionType)

(* Every execution pays what is locked and owed, no two pay the same, what *)
(* is locked is being paid, and a transfer that is not recorded yet is     *)
(* known to the execution that made it.                                    *)
Consistent(locked, owed, paid, pays) ==
  /\ \A r \in Run : DOMAIN pays[r] \subseteq locked \cap owed
  /\ \A q, r \in Run : q # r => DOMAIN pays[q] \cap DOMAIN pays[r] = {}
  /\ \A o \in locked : \E r \in Run : o \in DOMAIN pays[r]
  /\ \A o \in owed : paid[o] # <<>> =>
       \E r \in Run : o \in DOMAIN pays[r] /\ pays[r][o].payout # None

(* Nothing is transferred for what does not exist yet. *)
Fresh(o) ==
  IF o.op = "void" THEN o.id \in positions[o.kind] \/ o.id >= positions_id_counter
  ELSE o.id >= trade_logs_id_counter
NoFreshTransfers == \A o \in Obligation : Fresh(o) => transfers[o] = <<>>

Pays == [r \in Run |-> runs[r].payouts]

LocksConsistent ==
  Consistent(LockedOnes(void_positions, trade_logs), OwedOnes(void_positions, trade_logs),
             transfers, Pays)

LockInv ==
  /\ TypeOK
  /\ RunShapes
  /\ BookIds
  /\ TradesStoredInOrder
  /\ LocksConsistent
  /\ NoFreshTransfers
  /\ PaidAtMostOnce

----------------------------------------------------------------------------
(* The shape of the executions *)

LEMMA ShapeExcept ==
  ASSUME TypeOK, RunShapes, NEW r \in Run, NEW run, RunShape(run),
         runs' = [runs EXCEPT ![r] = run]
  PROVE  RunShapes'
BY DEF TypeOK, RunShapes, RunShape

LEMMA IdleShape ==
  /\ RunShape(Idle)
  /\ RunShape([Idle EXCEPT !.pc = "called", !.driven = TRUE])
  /\ RunShape([Idle EXCEPT !.pc = "replied", !.driven = TRUE])
BY DEF RunShape, Idle, NoTasks

LEMMA StartShape ==
  ASSUME NEW o
  PROVE  StartPayout(o).at = "sent" => StartPayout(o).payout = None
BY DEF StartPayout, Sent, Dust

LEMMA PolledShape ==
  ASSUME TypeOK, RunShapes, NEW r \in Run, runs[r].pc \in {"idle", "called", "paying"},
         NEW payouts, NEW updates,
         \A o \in DOMAIN payouts : payouts[o].at = "sent" => payouts[o].payout = None,
         \/ runs' = [runs EXCEPT ![r] = Idle]
         \/ runs' = [runs EXCEPT ![r] = [Idle EXCEPT !.pc = "replied", !.driven = TRUE]]
         \/ runs' = [runs EXCEPT ![r] = [@ EXCEPT !.pc = "paying", !.payouts = payouts,
                                                  !.updates = updates]]
  PROVE  RunShapes'
<1>1. RunShape([runs[r] EXCEPT !.pc = "paying", !.payouts = payouts, !.updates = updates])
  BY RunFields, SMTT(40) DEF RunShape, RunShapes, RunOK
<1> QED
  BY <1>1, IdleShape, ShapeExcept

LEMMA CalleeShape ==
  ASSUME TypeOK, RunShapes, NEW r \in Run, Callee(r)
  PROVE  RunShapes'
<1>1. RunOK(runs[r]) /\ RunShape(runs[r])
  BY RunFields DEF RunShapes
<1>2. ASSUME NEW o \in DOMAIN runs[r].payouts, NEW pd, NEW fee, Answer(r, o, pd, fee)
      PROVE  RunShapes'
  <2> DEFINE st == [runs[r].payouts[o] EXCEPT !.at = "answered", !.payout = pd, !.expected_fee = fee]
  <2>1. st.at = "answered"
    BY RunFields DEF PartialFunction, PayoutStatus
  <2> HIDE DEF st
  <2>2. RunShape([runs[r] EXCEPT !.payouts = [runs[r].payouts EXCEPT ![o] = st]])
    BY <1>1, <2>1 DEF RunOK, RunShape
  <2>3. runs' = [runs EXCEPT ![r] = [runs[r] EXCEPT !.payouts = [runs[r].payouts EXCEPT ![o] = st]]]
    BY <1>2 DEF Answer, TypeOK, st
  <2> QED
    BY <2>2, <2>3, ShapeExcept
<1>3. ASSUME NEW u \in DOMAIN runs[r].updates, NEW at, runs' = [runs EXCEPT ![r].updates[u].at = at]
      PROVE  RunShapes'
  <2> DEFINE updates == [runs[r].updates EXCEPT ![u].at = at]
  <2>1. DOMAIN updates = DOMAIN runs[r].updates
    OBVIOUS
  <2>2. runs' = [runs EXCEPT ![r] = [runs[r] EXCEPT !.updates = updates]]
    BY <1>3 DEF TypeOK
  <2> HIDE DEF updates
  <2>3. RunShape([runs[r] EXCEPT !.updates = updates])
    BY <1>1, <2>1 DEF RunOK, RunShape
  <2> QED
    BY <2>2, <2>3, ShapeExcept
<1> QED
  BY <1>2, <1>3 DEF Callee, Transfer, BadFee, TransferFails, CmUpdateLog, UpdateFails

LEMMA ResumeShape ==
  ASSUME TypeOK, RunShapes, NEW r \in Run, Resume(r)
  PROVE  RunShapes'
<1>1. RunOK(runs[r]) /\ RunShape(runs[r]) /\ runs[r].pc = "replied"
  BY RunFields DEF RunShapes, Resume
<1>2. \E flushes :
        \/ runs' = [runs EXCEPT ![r] = Idle]
        \/ runs' = [runs EXCEPT ![r] = [runs[r] EXCEPT !.pc = "flushing", !.flushes = flushes]]
  BY DEF Resume, TypeOK
<1>3. ASSUME NEW flushes PROVE RunShape([runs[r] EXCEPT !.pc = "flushing", !.flushes = flushes])
  BY <1>1 DEF RunOK, RunShape
<1> QED
  BY <1>2, <1>3, IdleShape, ShapeExcept

LEMMA FlushShape ==
  ASSUME TypeOK, RunShapes, NEW r \in Run, NEW s \in Storage, FlushStep(r, s)
  PROVE  RunShapes'
<1>1. RunOK(runs[r]) /\ RunShape(runs[r]) /\ runs[r].pc = "flushing"
  BY RunFields DEF RunShapes, RunShape, FlushStep, FlushLogs, FlushEnds, FlushStops
<1>2. ASSUME NEW flushes PROVE RunShape([runs[r] EXCEPT !.flushes = flushes])
  BY <1>1 DEF RunOK, RunShape
<1>3. CASE UNCHANGED runs
  BY <1>3 DEF RunShapes, RunShape
<1>4. CASE Unlock(r, s)
  <2>1. \E flushes :
        \/ runs' = [runs EXCEPT ![r] = Idle]
        \/ runs' = [runs EXCEPT ![r] = [runs[r] EXCEPT !.flushes = flushes]]
    BY <1>4 DEF Unlock, TypeOK
  <2> QED
    BY <1>2, <2>1, IdleShape, ShapeExcept
<1> QED
  BY <1>3, <1>4 DEF FlushStep, FlushLogs, FlushEnds, FlushStops

LEMMA NextShape ==
  ASSUME TypeOK, RunShapes, [Next]_vars
  PROVE  RunShapes'
<1>1. CASE UNCHANGED runs
  BY <1>1 DEF RunShapes, RunShape
<1>2. ASSUME NEW r \in Run, TimerFires(r) \/ SelfCallFails(r) PROVE RunShapes'
  BY <1>1, <1>2, IdleShape, ShapeExcept DEF TimerFires, SelfCallFails
<1>3. ASSUME NEW r \in Run, StartRun(r) PROVE RunShapes'
  <2> DEFINE payouts == [o \in TakenPayouts |-> StartPayout(o)]
             updates == [u \in TakenUpdates |-> StartUpdate(u)]
             lock    == flush_lock["positions"] \/ TakenUpdates # {}
  <2>1. \A o \in DOMAIN payouts : payouts[o].at = "sent" => payouts[o].payout = None
    BY StartShape
  <2>2. /\ runs[r].pc \in {"idle", "called"}
        /\ Polled(r, LockedVoids, LockedTrades, lock, payouts, updates)
    BY <1>3 DEF StartRun
  <2> HIDE DEF payouts, updates, lock
  <2> QED
    BY <2>1, <2>2, PolledShape DEF Polled
<1>4. ASSUME NEW r \in Run, NEW o \in DOMAIN runs[r].payouts, PayoutReply(r, o) PROVE RunShapes'
  <2> DEFINE payouts == [runs[r].payouts EXCEPT ![o].at = "done"]
             updates == runs[r].updates
  <2>1. runs[r].pc = "paying" /\ RunShape(runs[r])
    BY DEF RunShapes, RunShape
  <2>2. \A p \in DOMAIN payouts : payouts[p].at = "sent" => payouts[p].payout = None
    <3>1. \A p \in DOMAIN payouts : p # o => payouts[p] = runs[r].payouts[p]
      OBVIOUS
    <3>2. payouts[o].at = "done"
      BY RunFields DEF PartialFunction, PayoutStatus
    <3>3. DOMAIN payouts = DOMAIN runs[r].payouts
      OBVIOUS
    <3> HIDE DEF payouts
    <3> QED
      BY <2>1, <3>1, <3>2, <3>3 DEF RunShape
  <2>3. Polled(r, void_positions, trade_logs, flush_lock["positions"], payouts, updates)
    BY <1>4 DEF PayoutReply
  <2> HIDE DEF payouts, updates
  <2> QED
    BY <2>1, <2>2, <2>3, PolledShape, ZenonT(60) DEF Polled
<1>5. ASSUME NEW r \in Run, NEW u \in DOMAIN runs[r].updates, UpdateReply(r, u) PROVE RunShapes'
  <2> DEFINE payouts == runs[r].payouts
             updates == [runs[r].updates EXCEPT ![u].at = IF @ = "stored" THEN "ok" ELSE "err"]
  <2>1. runs[r].pc = "paying" /\ RunShape(runs[r])
    BY DEF RunShapes, RunShape
  <2>2. \A p \in DOMAIN payouts : payouts[p].at = "sent" => payouts[p].payout = None
    BY <2>1 DEF RunShape
  <2>3. Polled(r, void_positions, trade_logs, flush_lock["positions"], payouts, updates)
    BY <1>5 DEF UpdateReply
  <2> HIDE DEF payouts, updates
  <2> QED
    BY <2>1, <2>2, <2>3, PolledShape, ZenonT(60) DEF Polled
<1> QED
  BY <1>1, <1>2, <1>3, <1>4, <1>5, CalleeShape, ResumeShape, FlushShape, ZenonT(60)
    DEF Next, Market, Trade, CreateAndMatch, VoidPosition, MarketError, LedgerFeeChanges, Upgrade,
         Canister, FlushStep, vars

----------------------------------------------------------------------------
(* What recording the results changes *)

LEMMA SettledVoidsFacts ==
  ASSUME NEW k \in Kind, NEW vps, PartialFunction(vps, PositionId, VoidPositionType),
         NEW payouts, NEW updates
  PROVE  LET settled == SettledVoids(k, vps, payouts, updates)
         IN /\ DOMAIN settled \subseteq DOMAIN vps
            /\ \A i \in DOMAIN settled :
                 IF VoidObligation(k, i) \in DOMAIN payouts
                 THEN /\ ~settled[i].payout_lock
                      /\ settled[i].payout_data = payouts[VoidObligation(k, i)].payout
                 ELSE /\ settled[i].payout_lock = vps[i].payout_lock
                      /\ settled[i].payout_data = vps[i].payout_data
            /\ \A i \in DOMAIN vps :
                 (IF VoidObligation(k, i) \in DOMAIN payouts
                  THEN payouts[VoidObligation(k, i)].payout = None ELSE vps[i].payout_data = None)
                   => i \in DOMAIN settled
<1> DEFINE S(i) == SettledVoid(vps[i], VoidObligation(k, i), VoidUpdate(k, i), payouts, updates)
<1>1. ASSUME NEW i \in DOMAIN vps
      PROVE  IF VoidObligation(k, i) \in DOMAIN payouts
             THEN ~S(i).payout_lock /\ S(i).payout_data = payouts[VoidObligation(k, i)].payout
             ELSE S(i).payout_lock = vps[i].payout_lock /\ S(i).payout_data = vps[i].payout_data
  <2>1. vps[i] \in VoidPositionType
    BY DEF PartialFunction
  <2> QED
    BY <2>1 DEF SettledVoid, PaidVoid, VoidPositionType
<1>2. /\ DOMAIN SettledVoids(k, vps, payouts, updates) \subseteq DOMAIN vps
      /\ \A i \in DOMAIN SettledVoids(k, vps, payouts, updates) :
           SettledVoids(k, vps, payouts, updates)[i] = S(i)
      /\ \A i \in DOMAIN vps : ~CanRemove(S(i)) => i \in DOMAIN SettledVoids(k, vps, payouts, updates)
  BY DEF SettledVoids
<1> HIDE DEF S
<1> QED
  BY <1>1, <1>2 DEF CanRemove

LEMMA SettledTradesFacts ==
  ASSUME NEW tls \in Seq(TradeLogType), NEW payouts
  PROVE  /\ DOMAIN SettledTrades(tls, payouts) = 1 .. Len(tls)
         /\ Len(SettledTrades(tls, payouts)) = Len(tls)
         /\ \A i \in 1 .. Len(tls) :
              LET tl == SettledTrades(tls, payouts)[i]
              IN /\ tl.id = tls[i].id
                 /\ \A k \in Kind :
                      IF TradeObligation(k, tls[i].id) \in DOMAIN payouts
                      THEN /\ ~tl.payout_lock[k]
                           /\ tl.payout_data[k] = payouts[TradeObligation(k, tls[i].id)].payout
                      ELSE /\ tl.payout_lock[k] = tls[i].payout_lock[k]
                           /\ tl.payout_data[k] = tls[i].payout_data[k]
<1>1. Len(tls) \in Nat
  OBVIOUS
<1>2. DOMAIN SettledTrades(tls, payouts) = 1 .. Len(tls) /\ Len(SettledTrades(tls, payouts)) = Len(tls)
  BY <1>1 DEF SettledTrades
<1>3. ASSUME NEW i \in 1 .. Len(tls)
      PROVE  LET tl == SettledTrades(tls, payouts)[i]
             IN /\ tl.id = tls[i].id
                /\ \A k \in Kind :
                     IF TradeObligation(k, tls[i].id) \in DOMAIN payouts
                     THEN /\ ~tl.payout_lock[k]
                          /\ tl.payout_data[k] = payouts[TradeObligation(k, tls[i].id)].payout
                     ELSE /\ tl.payout_lock[k] = tls[i].payout_lock[k]
                          /\ tl.payout_data[k] = tls[i].payout_data[k]
  <2>1. tls[i] \in TradeLogType
    OBVIOUS
  <2>2. SettledTrades(tls, payouts)[i] = SettledTrade(tls[i], payouts)
    BY DEF SettledTrades
  <2> DEFINE O(k) == TradeObligation(k, tls[i].id)
  <2>3. /\ SettledTrade(tls[i], payouts).id = tls[i].id
        /\ \A k \in Kind :
             /\ SettledTrade(tls[i], payouts).payout_lock[k] =
                  (k \notin {j \in Kind : O(j) \in DOMAIN payouts} /\ tls[i].payout_lock[k])
             /\ SettledTrade(tls[i], payouts).payout_data[k] =
                  IF k \in {j \in Kind : O(j) \in DOMAIN payouts} THEN payouts[O(k)].payout
                  ELSE tls[i].payout_data[k]
    BY <2>1 DEF SettledTrade, TradeLogType
  <2>4. \A k \in Kind : tls[i].payout_lock[k] \in BOOLEAN
    BY <2>1 DEF TradeLogType
  <2>5. ASSUME NEW k \in Kind
        PROVE  IF O(k) \in DOMAIN payouts
               THEN /\ ~SettledTrade(tls[i], payouts).payout_lock[k]
                    /\ SettledTrade(tls[i], payouts).payout_data[k] = payouts[O(k)].payout
               ELSE /\ SettledTrade(tls[i], payouts).payout_lock[k] = tls[i].payout_lock[k]
                    /\ SettledTrade(tls[i], payouts).payout_data[k] = tls[i].payout_data[k]
    <3> HIDE DEF O
    <3>1. CASE O(k) \in DOMAIN payouts
      BY <2>3, <3>1
    <3>2. CASE O(k) \notin DOMAIN payouts
      BY <2>3, <2>4, <3>2
    <3> QED
      BY <3>1, <3>2
  <2> QED
    BY <2>2, <2>3, <2>5
<1> QED
  BY <1>2, <1>3

LEMMA LockedVoidsFacts ==
  ASSUME TypeOK, NEW k \in Kind
  PROVE  /\ DOMAIN LockedVoids[k] = DOMAIN void_positions[k]
         /\ \A i \in DOMAIN void_positions[k] :
              /\ LockedVoids[k][i].payout_lock =
                   (void_positions[k][i].payout_lock \/ i \in VoidPayouts(k))
              /\ LockedVoids[k][i].payout_data = void_positions[k][i].payout_data
<1>1. \A i \in DOMAIN void_positions[k] : void_positions[k][i] \in VoidPositionType
  BY DEF TypeOK, PartialFunction
<1> QED
  BY <1>1 DEF LockedVoids, VoidPositionType

LEMMA LockedTradesFacts ==
  ASSUME TypeOK
  PROVE  /\ Len(LockedTrades) = Len(trade_logs)
         /\ \A i \in 1 .. Len(trade_logs) :
              /\ LockedTrades[i].id = trade_logs[i].id
              /\ LockedTrades[i].payout_data = trade_logs[i].payout_data
              /\ \A k \in Kind : LockedTrades[i].payout_lock[k] =
                   (trade_logs[i].payout_lock[k] \/ trade_logs[i].id \in TradePayouts(k))
<1>1. \A i \in 1 .. Len(trade_logs) : trade_logs[i] \in TradeLogType
  BY DEF TypeOK
<1> QED
  BY <1>1, LockedTradesType DEF LockedTrades, TradeLogType

----------------------------------------------------------------------------
(* Ids *)

(* The positions that a new position may be matched with. *)
Matchees(k) == positions[Opposite(k)]

(* The positions of kind j that a new position of kind k makes void. *)
MadeVoid(k, voided, j) == {i \in voided : (i = positions_id_counter) = (j = k)}

(* A void position that the market makes was on the book or is new.        *)
LEMMA NewVoids ==
  ASSUME TypeOK, BookIds, NEW k \in Kind,
         NEW voided, voided \subseteq Matchees(k) \cup {positions_id_counter},
         NEW n, NEW q, NEW sides, CreateAndMatch(k, voided, n, q, sides),
         NEW j \in Kind
  PROVE  LET new == MadeVoid(k, voided, j)
         IN /\ DOMAIN void_positions'[j] = DOMAIN void_positions[j] \cup new
            /\ \A i \in DOMAIN void_positions[j] \ new : void_positions'[j][i] = void_positions[j][i]
            /\ \A i \in new : /\ i \in positions[j] \/ i = positions_id_counter
                              /\ i \notin DOMAIN void_positions[j]
                              /\ void_positions'[j][i] = NewVoidPosition(q[i])
<1> DEFINE id  == positions_id_counter
           new == {i \in voided : (i = id) = (j = k)}
<1>1. void_positions'[j] = [i \in DOMAIN void_positions[j] \cup new |->
                             IF i \in new THEN NewVoidPosition(q[i]) ELSE void_positions[j][i]]
  BY Zenon DEF CreateAndMatch
<1>2. \A i \in new : i \in positions[j] \/ i = id
  <2>1. j # k => Opposite(k) = j
    BY Kinds
  <2>2. \A i \in new : i = id \/ j # k
    BY DEF new
  <2>3. \A i \in new : i \in positions[Opposite(k)] \/ i = id
    BY DEF new, Matchees
  <2> QED
    BY <2>1, <2>2, <2>3
<1>3. new = MadeVoid(k, voided, j)
  BY DEF MadeVoid
<1>4. \A i \in new : i \notin DOMAIN void_positions[j]
  <2>1. id \notin DOMAIN void_positions[j]
    BY DEF BookIds, TypeOK
  <2> QED
    BY <1>2, <2>1 DEF BookIds
<1> HIDE DEF new
<1>5. /\ DOMAIN void_positions'[j] = DOMAIN void_positions[j] \cup new
      /\ \A i \in DOMAIN void_positions[j] \ new : void_positions'[j][i] = void_positions[j][i]
      /\ \A i \in new : void_positions'[j][i] = NewVoidPosition(q[i])
  BY <1>1
<1> QED
  BY <1>2, <1>3, <1>4, <1>5

LEMMA CreateBookIds ==
  ASSUME TypeOK, BookIds, NEW k \in Kind,
         NEW voided, voided \subseteq Matchees(k) \cup {positions_id_counter},
         NEW n, NEW q, NEW sides, CreateAndMatch(k, voided, n, q, sides)
  PROVE  BookIds'
<1> SUFFICES ASSUME NEW j \in Kind
             PROVE  /\ positions'[j] \subseteq 0 .. positions_id_counter' - 1
                    /\ DOMAIN void_positions'[j] \subseteq 0 .. positions_id_counter' - 1
                    /\ positions'[j] \cap DOMAIN void_positions'[j] = {}
  BY DEF BookIds
<1>1. /\ positions_id_counter' = positions_id_counter + 1
      /\ positions'[j] = (IF j = k THEN positions[j] \cup {positions_id_counter}
                          ELSE positions[j]) \ voided
  BY DEF CreateAndMatch
<1>2. /\ positions_id_counter \in Nat
      /\ positions[j] \subseteq 0 .. positions_id_counter - 1
      /\ DOMAIN void_positions[j] \subseteq 0 .. positions_id_counter - 1
      /\ positions[j] \cap DOMAIN void_positions[j] = {}
  BY DEF BookIds, TypeOK
<1> DEFINE new == MadeVoid(k, voided, j)
<1>3. /\ DOMAIN void_positions'[j] = DOMAIN void_positions[j] \cup new
      /\ \A i \in DOMAIN void_positions[j] \ new : void_positions'[j][i] = void_positions[j][i]
      /\ \A i \in new : /\ i \in positions[j] \/ i = positions_id_counter
                        /\ i \notin DOMAIN void_positions[j]
                        /\ void_positions'[j][i] = NewVoidPosition(q[i])
  BY NewVoids
<1>4. positions'[j] \subseteq 0 .. positions_id_counter' - 1
  <2>1. positions'[j] \subseteq positions[j] \cup {positions_id_counter}
    BY <1>1
  <2> QED
    BY <1>1, <1>2, <2>1
<1>5. DOMAIN void_positions'[j] \subseteq 0 .. positions_id_counter' - 1
  <2>1. new \subseteq positions[j] \cup {positions_id_counter}
    BY <1>3
  <2> QED
    BY <1>1, <1>2, <1>3, <2>1
<1>6. positions'[j] \cap DOMAIN void_positions'[j] = {}
  <2>1. positions'[j] \cap new = {}
    BY <1>1 DEF MadeVoid
  <2>2. positions_id_counter \notin DOMAIN void_positions[j]
    BY <1>2
  <2> QED
    BY <1>1, <1>2, <1>3, <2>1, <2>2
<1> QED
  BY <1>4, <1>5, <1>6

LEMMA VoidsShrink ==
  ASSUME BookIds, UNCHANGED marketVars,
         \A k \in Kind : DOMAIN void_positions'[k] \subseteq DOMAIN void_positions[k]
  PROVE  BookIds'
BY DEF BookIds, marketVars

(* The void positions and trade logs after an execution was polled.        *)
LEMMA StartRunPolled ==
  ASSUME TypeOK, NEW r \in Run, StartRun(r)
  PROVE  \A k \in Kind : DOMAIN void_positions'[k] \subseteq DOMAIN void_positions[k]
<1> DEFINE payouts == [o \in TakenPayouts |-> StartPayout(o)]
           updates == [u \in TakenUpdates |-> StartUpdate(u)]
           lock    == flush_lock["positions"] \/ TakenUpdates # {}
<1>1. Polled(r, LockedVoids, LockedTrades, lock, payouts, updates)
  BY DEF StartRun
<1> HIDE DEF payouts, updates, lock
<1> QED
  BY <1>1, LockedVoidsType, SettledVoidsFacts DEF Polled

LEMMA ReplyPolled ==
  ASSUME TypeOK, NEW r \in Run,
         \/ \E o \in DOMAIN runs[r].payouts : PayoutReply(r, o)
         \/ \E u \in DOMAIN runs[r].updates : UpdateReply(r, u)
  PROVE  \A k \in Kind : DOMAIN void_positions'[k] \subseteq DOMAIN void_positions[k]
<1>1. PICK payouts, updates :
        Polled(r, void_positions, trade_logs, flush_lock["positions"], payouts, updates)
  BY DEF PayoutReply, UpdateReply
<1> QED
  BY <1>1, SettledVoidsFacts DEF Polled, TypeOK

LEMMA NextBookIds ==
  ASSUME TypeOK, BookIds, [Next]_vars
  PROVE  BookIds'
<1>1. CASE UNCHANGED <<marketVars, void_positions>>
  BY <1>1, VoidsShrink
<1>2. ASSUME NEW k \in Kind, Trade(k) PROVE BookIds'
  BY <1>2, CreateBookIds DEF Trade, Matchees
<1>3. ASSUME NEW k \in Kind, NEW id \in positions[k], VoidPosition(k, id) PROVE BookIds'
  <2>1. PICK q : void_positions' = [void_positions EXCEPT ![k] =
                   [i \in DOMAIN @ \cup {id} |-> IF i = id THEN NewVoidPosition(q) ELSE @[i]]]
    BY <1>3 DEF VoidPosition
  <2>2. \A j \in Kind : DOMAIN void_positions'[j] =
                          IF j = k THEN DOMAIN void_positions[j] \cup {id} ELSE DOMAIN void_positions[j]
    BY <2>1 DEF TypeOK
  <2>3. \A j \in Kind : positions'[j] = IF j = k THEN positions[j] \ {id} ELSE positions[j]
    BY <1>3 DEF VoidPosition, TypeOK
  <2>4. positions_id_counter' = positions_id_counter
    BY <1>3 DEF VoidPosition
  <2> QED
    BY <2>2, <2>3, <2>4 DEF BookIds
<1>4. ASSUME NEW r \in Run, StartRun(r) PROVE BookIds'
  BY <1>4, StartRunPolled, VoidsShrink DEF StartRun
<1>5. ASSUME NEW r \in Run, \/ \E o \in DOMAIN runs[r].payouts : PayoutReply(r, o)
                            \/ \E u \in DOMAIN runs[r].updates : UpdateReply(r, u)
      PROVE  BookIds'
  BY <1>5, ReplyPolled, VoidsShrink DEF PayoutReply, UpdateReply
<1> QED
  BY <1>1, <1>2, <1>3, <1>4, <1>5, ZenonT(60)
    DEF Next, Market, MarketError, LedgerFeeChanges, Upgrade, Canister, Callee, TimerFires,
         SelfCallFails, Resume, FlushLogs, FlushEnds, FlushStops, Unlock, Transfer, BadFee,
         TransferFails, CmUpdateLog, UpdateFails, vars, owedVars
----------------------------------------------------------------------------
(* The order of the stored trades *)

LEMMA IdsKept ==
  ASSUME TradesStoredInOrder, UNCHANGED <<trades_stored, trade_logs_id_counter>>,
         Len(trade_logs') = Len(trade_logs),
         \A i \in 1 .. Len(trade_logs) : trade_logs'[i].id = trade_logs[i].id
  PROVE  TradesStoredInOrder'
BY DEF TradesStoredInOrder

(* Polling an execution keeps the ids in the queue. *)
LEMMA PolledIds ==
  ASSUME NEW r, NEW vps, NEW tls \in Seq(TradeLogType), NEW lock, NEW payouts, NEW updates,
         Polled(r, vps, tls, lock, payouts, updates)
  PROVE  Len(trade_logs') = Len(tls) /\ \A i \in 1 .. Len(tls) : trade_logs'[i].id = tls[i].id
BY SettledTradesFacts DEF Polled

LEMMA StartRunIds ==
  ASSUME TypeOK, TradesStoredInOrder, NEW r \in Run, StartRun(r)
  PROVE  TradesStoredInOrder'
<1> DEFINE payouts == [o \in TakenPayouts |-> StartPayout(o)]
           updates == [u \in TakenUpdates |-> StartUpdate(u)]
           lock    == flush_lock["positions"] \/ TakenUpdates # {}
<1>1. Polled(r, LockedVoids, LockedTrades, lock, payouts, updates)
  BY DEF StartRun
<1>2. UNCHANGED <<trades_stored, trade_logs_id_counter>>
  BY DEF StartRun, marketVars
<1> HIDE DEF payouts, updates, lock
<1>3. /\ Len(trade_logs') = Len(trade_logs)
      /\ \A i \in 1 .. Len(trade_logs) : trade_logs'[i].id = trade_logs[i].id
  BY <1>1, LockedTradesType, LockedTradesFacts, PolledIds
<1> QED
  BY <1>2, <1>3, IdsKept

LEMMA ReplyIds ==
  ASSUME TypeOK, TradesStoredInOrder, NEW r \in Run,
         \/ \E o \in DOMAIN runs[r].payouts : PayoutReply(r, o)
         \/ \E u \in DOMAIN runs[r].updates : UpdateReply(r, u)
  PROVE  TradesStoredInOrder'
<1>1. PICK payouts, updates :
        Polled(r, void_positions, trade_logs, flush_lock["positions"], payouts, updates)
  BY DEF PayoutReply, UpdateReply
<1>2. UNCHANGED <<trades_stored, trade_logs_id_counter>>
  BY DEF PayoutReply, UpdateReply, marketVars, storageVars
<1>3. trade_logs \in Seq(TradeLogType)
  BY DEF TypeOK
<1> QED
  BY <1>1, <1>2, <1>3, PolledIds, IdsKept

(* The trade logs that a new position makes are appended, numbered on.     *)
LEMMA CreateLogs ==
  ASSUME TypeOK, NEW k, NEW voided, NEW n \in Nat, NEW q, NEW sides,
         CreateAndMatch(k, voided, n, q, sides)
  PROVE  /\ Len(trade_logs') = Len(trade_logs) + n
         /\ \A i \in 1 .. Len(trade_logs) : trade_logs'[i] = trade_logs[i]
         /\ \A i \in 1 .. n :
              /\ trade_logs'[Len(trade_logs) + i].id = trade_logs_id_counter + i - 1
              /\ \A j \in Kind : /\ ~trade_logs'[Len(trade_logs) + i].payout_lock[j]
                                /\ trade_logs'[Len(trade_logs) + i].payout_data[j] = None
<1> DEFINE new == [i \in 1 .. n |-> NewTradeLog(trade_logs_id_counter + i - 1, sides[i])]
<1>1. trade_logs' = trade_logs \o new
  BY DEF CreateAndMatch
<1>2. /\ Len(new) = n
      /\ \A i \in 1 .. n : new[i] = NewTradeLog(trade_logs_id_counter + i - 1, sides[i])
  OBVIOUS
<1>3. new \in Seq({new[i] : i \in 1 .. n})
  OBVIOUS
<1> HIDE DEF new
<1>4. trade_logs \in Seq(TradeLogType)
  BY DEF TypeOK
<1>5. Len(new) = n /\ n \in Nat /\ Len(trade_logs) \in Nat
  BY <1>2, <1>4
<1>6. \A i \in 1 .. n : i + Len(trade_logs) \in 1 .. Len(trade_logs) + n
  BY <1>5
<1>7. \A T : trade_logs \in Seq(T) /\ new \in Seq(T) =>
        /\ Len(trade_logs \o new) = Len(trade_logs) + Len(new)
        /\ \A i \in 1 .. Len(trade_logs) : (trade_logs \o new)[i] = trade_logs[i]
        /\ \A i \in 1 .. Len(new) : (trade_logs \o new)[Len(trade_logs) + i] = new[i]
  BY <1>5, <1>6
<1>8. trade_logs \in Seq(TradeLogType \cup {new[i] : i \in 1 .. n})
  BY <1>4
<1>9. new \in Seq(TradeLogType \cup {new[i] : i \in 1 .. n})
  BY <1>3
<1>10. /\ Len(trade_logs') = Len(trade_logs) + n
       /\ \A i \in 1 .. Len(trade_logs) : trade_logs'[i] = trade_logs[i]
       /\ \A i \in 1 .. n : trade_logs'[Len(trade_logs) + i] = new[i]
  BY <1>1, <1>5, <1>7, <1>8, <1>9
<1>11. \A i \in 1 .. n : /\ new[i].id = trade_logs_id_counter + i - 1
                         /\ \A j \in Kind : ~new[i].payout_lock[j] /\ new[i].payout_data[j] = None
  BY <1>2 DEF NewTradeLog
<1> QED
  BY <1>10, <1>11

LEMMA CreateIds ==
  ASSUME TypeOK, TradesStoredInOrder, NEW k, NEW voided, NEW n \in Nat, NEW q, NEW sides,
         CreateAndMatch(k, voided, n, q, sides)
  PROVE  TradesStoredInOrder'
<1>1. trade_logs_id_counter' = trade_logs_id_counter + n /\ trades_stored' = trades_stored
  BY DEF CreateAndMatch
<1>2. /\ Len(trade_logs') = Len(trade_logs) + n
      /\ \A i \in 1 .. Len(trade_logs) : trade_logs'[i] = trade_logs[i]
      /\ \A i \in 1 .. n : trade_logs'[Len(trade_logs) + i].id = trade_logs_id_counter + i - 1
  BY CreateLogs
<1>4. /\ Len(trade_logs) \in Nat /\ Len(trades_stored) \in Nat /\ trade_logs_id_counter \in Nat
      /\ trade_logs_id_counter = Len(trades_stored) + Len(trade_logs)
  BY DEF TypeOK, TradesStoredInOrder
<1>5. ASSUME NEW i \in 1 .. Len(trade_logs')
      PROVE  trade_logs'[i].id = Len(trades_stored) + i - 1
  <2>1. CASE i <= Len(trade_logs)
    BY <1>2, <1>4, <2>1 DEF TradesStoredInOrder
  <2>2. CASE i > Len(trade_logs)
    <3>1. i - Len(trade_logs) \in 1 .. n /\ i = Len(trade_logs) + (i - Len(trade_logs))
      BY <1>2, <1>4, <2>2
    <3>2. trade_logs'[i].id = trade_logs_id_counter + (i - Len(trade_logs)) - 1
      BY <1>2, <3>1
    <3> QED
      BY <1>4, <3>2
  <2> QED
    BY <1>4, <2>1, <2>2
<1>6. trade_logs_id_counter' = Len(trades_stored') + Len(trade_logs')
  BY <1>1, <1>2, <1>4
<1> QED
  BY <1>1, <1>5, <1>6 DEF TradesStoredInOrder

LEMMA ResumeIds ==
  ASSUME TypeOK, TradesStoredInOrder, NEW r \in Run, Resume(r)
  PROVE  TradesStoredInOrder'
<1>1. PICK n \in 0 .. Len(trade_logs) :
        /\ \A i \in 1 .. n : CanMove(trade_logs[i])
        /\ trades_stored' = trades_stored \o SubSeq(trade_logs, 1, n)
        /\ trade_logs' = SubSeq(trade_logs, n + 1, Len(trade_logs))
        /\ trade_logs_id_counter' = trade_logs_id_counter
  BY DEF Resume, marketVars
<1>2. trade_logs \in Seq(TradeLogType) /\ trades_stored \in Seq(TradeLogType)
  BY DEF TypeOK
<1>3. /\ Len(trades_stored') = Len(trades_stored) + n
      /\ \A i \in 1 .. Len(trades_stored) : trades_stored'[i] = trades_stored[i]
      /\ \A i \in 1 .. n : trades_stored'[Len(trades_stored) + i] = trade_logs[i]
  <2>1. /\ SubSeq(trade_logs, 1, n) \in Seq(TradeLogType)
        /\ Len(SubSeq(trade_logs, 1, n)) = n
        /\ \A i \in 1 .. n : SubSeq(trade_logs, 1, n)[i] = trade_logs[i]
    BY <1>2
  <2> QED
    BY <1>1, <1>2, <2>1
<1>4. /\ Len(trade_logs') = Len(trade_logs) - n
      /\ \A i \in 1 .. Len(trade_logs) - n : trade_logs'[i] = trade_logs[n + i]
  BY <1>1, <1>2
<1>5. Len(trade_logs) \in Nat /\ Len(trades_stored) \in Nat
  BY <1>2
<1>6. ASSUME NEW i \in 1 .. Len(trades_stored')
      PROVE  /\ trades_stored'[i].id = i - 1
             /\ \A k \in Kind : ~trades_stored'[i].payout_lock[k]
                               /\ trades_stored'[i].payout_data[k] # None
  <2>1. CASE i <= Len(trades_stored)
    BY <1>3, <1>5, <2>1, SMTT(40) DEF TradesStoredInOrder
  <2>2. CASE i > Len(trades_stored)
    <3>1. PICK j \in 1 .. n : i = Len(trades_stored) + j
      <4>1. i - Len(trades_stored) \in 1 .. n
        BY <1>3, <1>5, <2>2
      <4> QED
        BY <1>5, <4>1
    <3>2. trades_stored'[i] = trade_logs[j] /\ CanMove(trade_logs[j])
      BY <1>1, <1>3, <3>1
    <3>3. trade_logs[j].id = Len(trades_stored) + j - 1
      BY <1>5, <3>1, SMTT(40) DEF TradesStoredInOrder
    <3> QED
      BY <1>5, <3>1, <3>2, <3>3 DEF CanMove
  <2> QED
    BY <1>5, <2>1, <2>2
<1>7. ASSUME NEW i \in 1 .. Len(trade_logs')
      PROVE  trade_logs'[i].id = Len(trades_stored') + i - 1
  <2>1. i \in 1 .. Len(trade_logs) - n /\ n + i \in 1 .. Len(trade_logs)
    BY <1>4, <1>5
  <2>2. trade_logs'[i] = trade_logs[n + i] /\ trade_logs[n + i].id = Len(trades_stored) + (n + i) - 1
    BY <1>4, <2>1 DEF TradesStoredInOrder
  <2> QED
    BY <1>3, <1>5, <2>2
<1>8. trade_logs_id_counter' = Len(trades_stored') + Len(trade_logs')
  <2>1. trade_logs_id_counter = Len(trades_stored) + Len(trade_logs)
    BY DEF TradesStoredInOrder
  <2>2. trade_logs_id_counter' = trade_logs_id_counter
    BY <1>1
  <2>3. Len(trades_stored') = Len(trades_stored) + n /\ Len(trade_logs') = Len(trade_logs) - n
    BY <1>3, <1>4
  <2> QED
    BY <1>5, <2>1, <2>2, <2>3
<1> QED
  BY <1>6, <1>7, <1>8 DEF TradesStoredInOrder

LEMMA NextIds ==
  ASSUME TypeOK, TradesStoredInOrder, [Next]_vars
  PROVE  TradesStoredInOrder'
<1>1. CASE UNCHANGED <<trades_stored, trade_logs, trade_logs_id_counter>>
  BY <1>1 DEF TradesStoredInOrder
<1>2. ASSUME NEW k \in Kind, Trade(k) PROVE TradesStoredInOrder'
    <2>1. PICK voided \in SUBSET (Matchees(k) \cup {positions_id_counter}),
             n \in 0 .. Cardinality(Matchees(k)) :
          \E q \in [voided -> VoidQuantity], sides \in [1 .. n -> [Kind -> TradeSide]] :
            CreateAndMatch(k, voided, n, q, sides)
    BY <1>2 DEF Trade, Matchees
  <2>2. n \in Nat
    OBVIOUS
  <2> QED
    BY <2>1, <2>2, CreateIds
<1>3. ASSUME NEW r \in Run, StartRun(r) \/ Resume(r) PROVE TradesStoredInOrder'
  BY <1>3, StartRunIds, ResumeIds
<1>4. ASSUME NEW r \in Run, \/ \E o \in DOMAIN runs[r].payouts : PayoutReply(r, o)
                            \/ \E u \in DOMAIN runs[r].updates : UpdateReply(r, u)
      PROVE  TradesStoredInOrder'
  BY <1>4, ReplyIds
<1> QED
  BY <1>1, <1>2, <1>3, <1>4, ZenonT(60)
    DEF Next, Market, MarketError, VoidPosition, LedgerFeeChanges, Upgrade, Canister, Callee,
         TimerFires, SelfCallFails, FlushLogs, FlushEnds, FlushStops, Unlock, Transfer, BadFee,
         TransferFails, CmUpdateLog, UpdateFails, vars, owedVars, marketVars, storageVars

----------------------------------------------------------------------------
(* Steps of the locks and of what is owed *)

(* An execution takes what is owed and not locked.                         *)
LEMMA Take ==
  ASSUME NEW locked, NEW owed, NEW locked2, NEW owed2, NEW paid, NEW pays, NEW pays2,
         Consistent(locked, owed, paid, pays),
         NEW r \in Run, DOMAIN pays[r] = {}, NEW taken,
         taken \subseteq owed, taken \cap locked = {},
         locked2 = locked \cup taken, owed2 = owed, DOMAIN pays2[r] = taken,
         \A q \in Run : q # r => pays2[q] = pays[q]
  PROVE  Consistent(locked2, owed2, paid, pays2)
BY DEF Consistent

(* An execution records its results and is left without tasks.             *)
LEMMA Settle ==
  ASSUME NEW locked, NEW owed, NEW locked2, NEW owed2, NEW paid, NEW pays, NEW pays2,
         Consistent(locked, owed, paid, pays),
         NEW r \in Run,
         locked2 = locked \ DOMAIN pays[r],
         owed2 = owed \ Recorded(pays[r]),
         DOMAIN pays2[r] = {}, \A q \in Run : q # r => pays2[q] = pays[q]
  PROVE  Consistent(locked2, owed2, paid, pays2)
<1>1. \A q \in Run : DOMAIN pays2[q] \subseteq locked2 \cap owed2
  BY DEF Consistent, Recorded
<1>2. \A o \in locked2 : \E q \in Run : o \in DOMAIN pays2[q]
  BY DEF Consistent, Recorded
<1>3. \A p, q \in Run : p # q => DOMAIN pays2[p] \cap DOMAIN pays2[q] = {}
  BY DEF Consistent, Recorded
<1>4. ASSUME NEW o \in owed2, paid[o] # <<>>
      PROVE  \E q \in Run : o \in DOMAIN pays2[q] /\ pays2[q][o].payout # None
  BY <1>4 DEF Consistent, Recorded
<1> QED
  BY <1>1, <1>2, <1>3, <1>4 DEF Consistent

(* Nothing is taken or settled; new obligations may appear, unpaid.        *)
LEMMA Keep ==
  ASSUME NEW locked, NEW owed, NEW locked2, NEW owed2, NEW paid, NEW pays, NEW pays2,
         Consistent(locked, owed, paid, pays),
         locked2 = locked, owed \subseteq owed2, \A o \in owed2 \ owed : paid[o] = <<>>,
         \A r \in Run : /\ DOMAIN pays2[r] = DOMAIN pays[r]
                        /\ \A o \in DOMAIN pays[r] : pays2[r][o].payout = pays[r][o].payout
  PROVE  Consistent(locked2, owed2, paid, pays2)
BY DEF Consistent

(* What an execution is paying was not transferred before.                 *)
LEMMA NotPaidBefore ==
  ASSUME NEW locked, NEW owed, NEW paid, NEW pays, Consistent(locked, owed, paid, pays),
         NEW r \in Run, NEW o \in DOMAIN pays[r], pays[r][o].payout = None
  PROVE  paid[o] = <<>>
BY DEF Consistent

(* A ledger answers an execution, after a transfer or without one.         *)
LEMMA Learn ==
  ASSUME NEW locked, NEW owed, NEW paid, NEW paid2, NEW pays, NEW pays2,
         Consistent(locked, owed, paid, pays),
         NEW r \in Run, NEW o \in DOMAIN pays[r], pays[r][o].payout = None,
         \A p \in owed : p # o => paid2[p] = paid[p],
         \A q \in Run : DOMAIN pays2[q] = DOMAIN pays[q],
         \A q \in Run : \A p \in DOMAIN pays[q] :
           <<q, p>> # <<r, o>> => pays2[q][p].payout = pays[q][p].payout,
         paid2[o] # <<>> => pays2[r][o].payout # None
  PROVE  Consistent(locked, owed, paid2, pays2)
<1>1. paid[o] = <<>>
  BY NotPaidBefore
<1>2. ASSUME NEW p \in owed, paid2[p] # <<>>
      PROVE  \E q \in Run : p \in DOMAIN pays2[q] /\ pays2[q][p].payout # None
  <2>1. CASE p = o
    BY <1>2, <2>1
  <2>2. CASE p # o
    BY <1>2, <2>2 DEF Consistent
  <2> QED
    BY <2>1, <2>2
<1> QED
  BY <1>2 DEF Consistent

(* The invariant on the locks in the words of the module.                  *)
LEMMA ConsistentHeld ==
  ASSUME TypeOK, TradesStoredInOrder, LocksConsistent
  PROVE  PayoutLocksHeld
<1> USE DEF LocksConsistent
<1>1. NumberedApart(trade_logs)
  BY DEF TypeOK, TradesStoredInOrder, NumberedApart
<1>2. \A k \in Kind : DOMAIN void_positions[k] \subseteq PositionId
  BY DEF TypeOK, PartialFunction
<1>3. \A i \in 1 .. Len(trade_logs) : trade_logs[i].id \in PurchaseId
  BY PayoutsAssumption DEF TypeOK, TradesStoredInOrder, PurchaseId
<1>4. ASSUME NEW r \in Run, NEW o \in DOMAIN Pays[r]
      PROVE  Locked(void_positions, trade_logs, o)
  <2>1. /\ o \in LockedOnes(void_positions, trade_logs)
        /\ o \in OwedOnes(void_positions, trade_logs)
    BY DEF Consistent
  <2> QED
    BY <1>1, <2>1 DEF LockedOnes, OwedOnes, Locked, NumberedApart
<1>5. ASSUME NEW k \in Kind, NEW i \in DOMAIN void_positions[k], void_positions[k][i].payout_lock
      PROVE  \E r \in Run : VoidObligation(k, i) \in DOMAIN Pays[r]
  <2>1. VoidObligation(k, i) \in LockedOnes(void_positions, trade_logs)
    BY <1>2, <1>5 DEF VoidObligation, Obligation, LockedOnes
  <2> QED
    BY <2>1 DEF Consistent
<1>6. ASSUME NEW k \in Kind, NEW i \in 1 .. Len(trade_logs), trade_logs[i].payout_lock[k]
      PROVE  \E r \in Run : TradeObligation(k, trade_logs[i].id) \in DOMAIN Pays[r]
  <2>1. TradeObligation(k, trade_logs[i].id) \in LockedOnes(void_positions, trade_logs)
    BY <1>3, <1>6 DEF TradeObligation, Obligation, LockedOnes
  <2> QED
    BY <2>1 DEF Consistent
<1> QED
  BY <1>4, <1>5, <1>6 DEF PayoutLocksHeld, LocksHeld, Pays, Consistent

----------------------------------------------------------------------------
(* What the steps do to the locks and to what is owed *)

SettledBook(vps, payouts, updates) ==
  [k \in Kind |-> SettledVoids(k, vps[k], payouts, updates)]

LEMMA SettledOnes ==
  ASSUME NEW vps, VoidsOK(vps),
         NEW tls \in Seq(TradeLogType), NEW payouts, NEW updates,
         LockedOnes(vps, tls) \subseteq OwedOnes(vps, tls),
         DOMAIN payouts \subseteq OwedOnes(vps, tls),
         NumberedApart(tls)
  PROVE  /\ LockedOnes(SettledBook(vps, payouts, updates), SettledTrades(tls, payouts))
              = LockedOnes(vps, tls) \ DOMAIN payouts
         /\ OwedOnes(SettledBook(vps, payouts, updates), SettledTrades(tls, payouts))
              = OwedOnes(vps, tls) \ Recorded(payouts)
<1> DEFINE vps2 == SettledBook(vps, payouts, updates)
           tls2 == SettledTrades(tls, payouts)
<1>1. \A k \in Kind :
        /\ DOMAIN vps2[k] \subseteq DOMAIN vps[k]
        /\ \A i \in DOMAIN vps2[k] :
             IF VoidObligation(k, i) \in DOMAIN payouts
             THEN /\ ~vps2[k][i].payout_lock
                  /\ vps2[k][i].payout_data = payouts[VoidObligation(k, i)].payout
             ELSE /\ vps2[k][i].payout_lock = vps[k][i].payout_lock
                  /\ vps2[k][i].payout_data = vps[k][i].payout_data
        /\ \A i \in DOMAIN vps[k] :
             (IF VoidObligation(k, i) \in DOMAIN payouts
              THEN payouts[VoidObligation(k, i)].payout = None ELSE vps[k][i].payout_data = None)
               => i \in DOMAIN vps2[k]
  <2> TAKE k \in Kind
  <2>1. vps2[k] = SettledVoids(k, vps[k], payouts, updates)
    BY DEF SettledBook
  <2>2. PartialFunction(vps[k], PositionId, VoidPositionType)
    BY DEF VoidsOK
  <2> QED
    BY ONLY <2>1, <2>2, SettledVoidsFacts, k \in Kind
<1>2. /\ Len(tls2) = Len(tls)
      /\ \A i \in 1 .. Len(tls) :
           /\ tls2[i].id = tls[i].id
           /\ \A k \in Kind :
                IF TradeObligation(k, tls[i].id) \in DOMAIN payouts
                THEN /\ ~tls2[i].payout_lock[k]
                     /\ tls2[i].payout_data[k] = payouts[TradeObligation(k, tls[i].id)].payout
                ELSE /\ tls2[i].payout_lock[k] = tls[i].payout_lock[k]
                     /\ tls2[i].payout_data[k] = tls[i].payout_data[k]
  BY SettledTradesFacts
<1> HIDE DEF vps2, tls2
<1>3. ASSUME NEW o \in Obligation
      PROVE  /\ o.kind \in Kind
             /\ o.op = "void"  => o = VoidObligation(o.kind, o.id)
             /\ o.op # "void" => o = TradeObligation(o.kind, o.id)
  BY DEF Obligation, VoidObligation, TradeObligation
<1>4. ASSUME NEW o \in Obligation, o.op = "void"
      PROVE  /\ o \in LockedOnes(vps2, tls2) <=> o \in LockedOnes(vps, tls) \ DOMAIN payouts
             /\ o \in OwedOnes(vps2, tls2) <=>
                  o \in OwedOnes(vps, tls) \ Recorded(payouts)
  <2> DEFINE k == o.kind
             i == o.id
  <2>1. o = VoidObligation(k, i) /\ k \in Kind
    BY <1>3, <1>4
  <2>2. /\ o \in LockedOnes(vps, tls) <=> i \in DOMAIN vps[k] /\ vps[k][i].payout_lock
        /\ o \in OwedOnes(vps, tls) <=> i \in DOMAIN vps[k] /\ vps[k][i].payout_data = None
        /\ o \in LockedOnes(vps2, tls2) <=> i \in DOMAIN vps2[k] /\ vps2[k][i].payout_lock
        /\ o \in OwedOnes(vps2, tls2) <=> i \in DOMAIN vps2[k] /\ vps2[k][i].payout_data = None
    BY <1>4 DEF LockedOnes, OwedOnes
  <2> HIDE DEF k, i
  <2>3. CASE o \in DOMAIN payouts
    BY <1>1, <2>1, <2>2, <2>3 DEF Recorded
  <2>4. CASE o \notin DOMAIN payouts
    BY <1>1, <2>1, <2>2, <2>4 DEF Recorded
  <2> QED
    BY <2>3, <2>4
<1>5. ASSUME NEW o \in Obligation, o.op # "void"
      PROVE  /\ o \in LockedOnes(vps2, tls2) <=> o \in LockedOnes(vps, tls) \ DOMAIN payouts
             /\ o \in OwedOnes(vps2, tls2) <=>
                  o \in OwedOnes(vps, tls) \ Recorded(payouts)
  <2> DEFINE k == o.kind
  <2>1. o = TradeObligation(k, o.id) /\ k \in Kind
    BY <1>3, <1>5
  <2>2. /\ o \in LockedOnes(vps, tls) <=>
             \E i \in 1 .. Len(tls) : tls[i].id = o.id /\ tls[i].payout_lock[k]
        /\ o \in OwedOnes(vps, tls) <=>
             \E i \in 1 .. Len(tls) : tls[i].id = o.id /\ tls[i].payout_data[k] = None
        /\ o \in LockedOnes(vps2, tls2) <=>
             \E i \in 1 .. Len(tls) : tls2[i].id = o.id /\ tls2[i].payout_lock[k]
        /\ o \in OwedOnes(vps2, tls2) <=>
             \E i \in 1 .. Len(tls) : tls2[i].id = o.id /\ tls2[i].payout_data[k] = None
    BY <1>2, <1>5 DEF LockedOnes, OwedOnes
  <2> HIDE DEF k
  <2>3. CASE o \in DOMAIN payouts
    BY <1>2, <2>1, <2>2, <2>3 DEF NumberedApart, Recorded
  <2>4. CASE o \notin DOMAIN payouts
    BY <1>2, <2>1, <2>2, <2>4 DEF NumberedApart, Recorded
  <2> QED
    BY <2>3, <2>4
<1>6. /\ LockedOnes(vps, tls) \subseteq Obligation /\ OwedOnes(vps, tls) \subseteq Obligation
      /\ LockedOnes(vps2, tls2) \subseteq Obligation /\ OwedOnes(vps2, tls2) \subseteq Obligation
  BY DEF LockedOnes, OwedOnes
<1>7. \A o \in Obligation :
        /\ o \in LockedOnes(vps2, tls2) <=> o \in LockedOnes(vps, tls) \ DOMAIN payouts
        /\ o \in OwedOnes(vps2, tls2) <=>
             o \in OwedOnes(vps, tls) \ Recorded(payouts)
  BY <1>4, <1>5
<1> QED
  BY <1>6, <1>7 DEF vps2, tls2

LEMMA TakenOnes ==
  ASSUME TypeOK, TradesStoredInOrder
  PROVE  /\ LockedOnes(LockedVoids, LockedTrades)
              = LockedOnes(void_positions, trade_logs) \cup TakenPayouts
         /\ OwedOnes(LockedVoids, LockedTrades) = OwedOnes(void_positions, trade_logs)
         /\ TakenPayouts \subseteq OwedOnes(void_positions, trade_logs)
         /\ TakenPayouts \cap LockedOnes(void_positions, trade_logs) = {}
<1>1. NumberedApart(trade_logs)
  BY DEF TypeOK, TradesStoredInOrder, NumberedApart
<1>2. ASSUME NEW o \in Obligation, o.op = "void"
      PROVE  /\ o.kind \in Kind
             /\ o \in LockedOnes(LockedVoids, LockedTrades) <=>
                  o \in LockedOnes(void_positions, trade_logs) \/ o \in TakenPayouts
             /\ o \in OwedOnes(LockedVoids, LockedTrades) <=>
                  o \in OwedOnes(void_positions, trade_logs)
             /\ o \in TakenPayouts => /\ o \in OwedOnes(void_positions, trade_logs)
                                      /\ o \notin LockedOnes(void_positions, trade_logs)
  <2>1. o.kind \in Kind
    BY DEF Obligation
  <2>2. o \in TakenPayouts <=> o.id \in VoidPayouts(o.kind)
    BY <1>2 DEF TakenPayouts
  <2> QED
    BY <1>2, <2>1, <2>2, TakenVoids, LockedVoidsFacts DEF LockedOnes, OwedOnes
<1>3. ASSUME NEW o \in Obligation, o.op # "void"
      PROVE  /\ o \in LockedOnes(LockedVoids, LockedTrades) <=>
                  o \in LockedOnes(void_positions, trade_logs) \/ o \in TakenPayouts
             /\ o \in OwedOnes(LockedVoids, LockedTrades) <=>
                  o \in OwedOnes(void_positions, trade_logs)
             /\ o \in TakenPayouts => /\ o \in OwedOnes(void_positions, trade_logs)
                                      /\ o \notin LockedOnes(void_positions, trade_logs)
  <2>1. o.kind \in Kind
    BY DEF Obligation
  <2>2. o \in TakenPayouts <=> o.id \in TradePayouts(o.kind)
    BY <1>3 DEF TakenPayouts
  <2>3. o \in TakenPayouts =>
          \E i \in 1 .. Len(trade_logs) : /\ trade_logs[i].id = o.id
                                          /\ trade_logs[i].payout_data[o.kind] = None
                                          /\ ~trade_logs[i].payout_lock[o.kind]
    BY <2>1, <2>2, TakenTrades
  <2>4. /\ o \in LockedOnes(void_positions, trade_logs) <=>
             \E i \in 1 .. Len(trade_logs) : trade_logs[i].id = o.id /\ trade_logs[i].payout_lock[o.kind]
        /\ o \in OwedOnes(void_positions, trade_logs) <=>
             \E i \in 1 .. Len(trade_logs) : trade_logs[i].id = o.id /\ trade_logs[i].payout_data[o.kind] = None
        /\ o \in LockedOnes(LockedVoids, LockedTrades) <=>
             \E i \in 1 .. Len(trade_logs) : LockedTrades[i].id = o.id /\ LockedTrades[i].payout_lock[o.kind]
        /\ o \in OwedOnes(LockedVoids, LockedTrades) <=>
             \E i \in 1 .. Len(trade_logs) : LockedTrades[i].id = o.id /\ LockedTrades[i].payout_data[o.kind] = None
    BY <1>3, LockedTradesFacts DEF LockedOnes, OwedOnes
  <2>5. \A i \in 1 .. Len(trade_logs) :
          /\ LockedTrades[i].id = trade_logs[i].id
          /\ LockedTrades[i].payout_data[o.kind] = trade_logs[i].payout_data[o.kind]
          /\ LockedTrades[i].payout_lock[o.kind] =
               (trade_logs[i].payout_lock[o.kind] \/ trade_logs[i].id \in TradePayouts(o.kind))
    BY <2>1, LockedTradesFacts
  <2>6. o \in OwedOnes(LockedVoids, LockedTrades) <=> o \in OwedOnes(void_positions, trade_logs)
    BY <2>4, <2>5
  <2>7. o \in TakenPayouts => /\ o \in OwedOnes(void_positions, trade_logs)
                              /\ o \notin LockedOnes(void_positions, trade_logs)
    BY <1>1, <2>3, <2>4 DEF NumberedApart
  <2>8. o \in LockedOnes(LockedVoids, LockedTrades) <=>
          o \in LockedOnes(void_positions, trade_logs) \/ o \in TakenPayouts
    <3>1. ASSUME o \in TakenPayouts PROVE o \in LockedOnes(LockedVoids, LockedTrades)
      <4>1. PICK i \in 1 .. Len(trade_logs) : trade_logs[i].id = o.id
        BY <2>3, <3>1
      <4>2. LockedTrades[i].payout_lock[o.kind]
        BY <2>2, <2>5, <3>1, <4>1
      <4> QED
        BY <2>4, <2>5, <4>1, <4>2
    <3>2. ASSUME o \in LockedOnes(LockedVoids, LockedTrades), o \notin TakenPayouts
          PROVE  o \in LockedOnes(void_positions, trade_logs)
      BY <2>2, <2>4, <2>5, <3>2
    <3>3. ASSUME o \in LockedOnes(void_positions, trade_logs)
          PROVE  o \in LockedOnes(LockedVoids, LockedTrades)
      BY <2>4, <2>5, <3>3
    <3> QED
      BY <3>1, <3>2, <3>3
  <2> QED
    BY <2>1, <2>6, <2>7, <2>8
<1>4. /\ LockedOnes(LockedVoids, LockedTrades) \subseteq Obligation
      /\ OwedOnes(LockedVoids, LockedTrades) \subseteq Obligation
      /\ LockedOnes(void_positions, trade_logs) \subseteq Obligation
      /\ OwedOnes(void_positions, trade_logs) \subseteq Obligation
      /\ TakenPayouts \subseteq Obligation
  BY DEF LockedOnes, OwedOnes, TakenPayouts
<1> QED
  BY <1>2, <1>3, <1>4

----------------------------------------------------------------------------
(* The locks stay consistent *)

LEMMA DistinctIds ==
  ASSUME TypeOK, TradesStoredInOrder
  PROVE  NumberedApart(trade_logs)
BY DEF TypeOK, TradesStoredInOrder, NumberedApart

LEMMA PolledConsistent ==
  ASSUME TypeOK, NEW r \in Run,
         NEW vps, VoidsOK(vps),
         NEW tls \in Seq(TradeLogType),
         NumberedApart(tls),
         NEW lock, NEW payouts, NEW updates,
         NEW pays, pays[r] = payouts, \A q \in Run : q # r => pays[q] = runs[q].payouts,
         Consistent(LockedOnes(vps, tls), OwedOnes(vps, tls), transfers, pays),
         Polled(r, vps, tls, lock, payouts, updates), UNCHANGED transfers
  PROVE  LocksConsistent'
<1> DEFINE locked == LockedOnes(vps, tls)
           owed   == OwedOnes(vps, tls)
<1>1. \A q \in Run : q # r => Pays'[q] = pays[q]
  BY DEF Polled, Pays, TypeOK
<1>2. CASE AllReady(payouts, updates)
  <2>1. /\ void_positions' = [k \in Kind |-> SettledVoids(k, vps[k], payouts, updates)]
        /\ trade_logs' = SettledTrades(tls, payouts)
        /\ runs' = [runs EXCEPT ![r] = IF @.driven
                      THEN [Idle EXCEPT !.pc = "replied", !.driven = TRUE] ELSE Idle]
    BY <1>2 DEF Polled
  <2>2. DOMAIN payouts \subseteq OwedOnes(vps, tls) /\ LockedOnes(vps, tls) \subseteq OwedOnes(vps, tls)
    BY DEF Consistent
  <2> HIDE DEF locked, owed
  <2>3. /\ LockedOnes(void_positions', trade_logs') = locked \ DOMAIN payouts
        /\ OwedOnes(void_positions', trade_logs')
             = owed \ Recorded(payouts)
    <3>1. void_positions' = SettledBook(vps, payouts, updates)
      BY <2>1 DEF SettledBook
    <3> QED
      BY <2>1, <2>2, <3>1, SettledOnes DEF locked, owed
  <2>4. DOMAIN Pays'[r] = {}
    BY <2>1 DEF Pays, TypeOK, Idle, NoTasks
  <2>5. Consistent(locked, owed, transfers, pays)
    BY DEF locked, owed
  <2>6. Consistent(LockedOnes(void_positions', trade_logs'),
                   OwedOnes(void_positions', trade_logs'), transfers, Pays')
    BY <1>1, <2>3, <2>4, <2>5, Settle
  <2> QED
    BY <2>6 DEF LocksConsistent
<1>3. CASE ~AllReady(payouts, updates)
  <2>1. /\ void_positions' = vps
        /\ trade_logs' = tls
        /\ runs' = [runs EXCEPT ![r] = [@ EXCEPT !.pc = "paying", !.payouts = payouts,
                                                 !.updates = updates]]
    BY <1>3 DEF Polled
  <2>2. Pays'[r] = pays[r]
    BY <2>1, RunFields DEF Pays, TypeOK, RunOK
  <2>3. \A q \in Run : Pays'[q] = pays[q]
    BY <1>1, <2>2
  <2> HIDE DEF locked, owed
  <2>5. Consistent(locked, owed, transfers, pays)
    BY DEF locked, owed
  <2>6. Consistent(locked, owed, transfers, Pays')
    BY <2>3, <2>5, Keep
  <2> QED
    BY <2>1, <2>6 DEF LocksConsistent, locked, owed
<1> QED
  BY <1>2, <1>3

LEMMA StartRunConsistent ==
  ASSUME TypeOK, RunShapes, TradesStoredInOrder, LocksConsistent, NEW r \in Run, StartRun(r)
  PROVE  LocksConsistent'
<1> DEFINE payouts == [o \in TakenPayouts |-> StartPayout(o)]
           updates == [u \in TakenUpdates |-> StartUpdate(u)]
           lock    == flush_lock["positions"] \/ TakenUpdates # {}
           pays    == [q \in Run |-> IF q = r THEN payouts ELSE Pays[q]]
<1>1. Polled(r, LockedVoids, LockedTrades, lock, payouts, updates) /\ UNCHANGED transfers
  BY DEF StartRun
<1>2. DOMAIN Pays[r] = {}
  BY DEF StartRun, RunShapes, RunShape, Pays
<1>3. DOMAIN payouts = TakenPayouts
  OBVIOUS
<1> HIDE DEF payouts, updates, lock
<1>4. /\ DOMAIN pays[r] = TakenPayouts /\ pays[r] = payouts
      /\ \A q \in Run : q # r => pays[q] = Pays[q]
      /\ \A q \in Run : q # r => pays[q] = runs[q].payouts
  BY <1>3 DEF Pays
<1> HIDE DEF pays
<1>5. Consistent(LockedOnes(LockedVoids, LockedTrades), OwedOnes(LockedVoids, LockedTrades),
                 transfers, pays)
  <2>1. Consistent(LockedOnes(void_positions, trade_logs), OwedOnes(void_positions, trade_logs),
                   transfers, Pays)
    BY DEF LocksConsistent
  <2> QED
    BY <1>2, <1>4, <2>1, TakenOnes, Take
<1>6. NumberedApart(LockedTrades)
  BY DistinctIds, LockedTradesFacts DEF NumberedApart
<1>7. VoidsOK(LockedVoids)
  BY LockedVoidsType DEF VoidsOK
<1>8. LockedTrades \in Seq(TradeLogType)
  BY LockedTradesType
<1> QED
  BY <1>1, <1>4, <1>5, <1>6, <1>7, <1>8, PolledConsistent, ZenonT(60)

LEMMA ReplyConsistent ==
  ASSUME TypeOK, TradesStoredInOrder, LocksConsistent, NEW r \in Run,
         NEW payouts, DOMAIN payouts = DOMAIN runs[r].payouts,
         \A o \in DOMAIN payouts : payouts[o].payout = runs[r].payouts[o].payout,
         NEW updates, UNCHANGED transfers,
         Polled(r, void_positions, trade_logs, flush_lock["positions"], payouts, updates)
  PROVE  LocksConsistent'
<1> DEFINE pays == [q \in Run |-> IF q = r THEN payouts ELSE Pays[q]]
<1>1. /\ pays[r] = payouts
      /\ \A q \in Run : q # r => pays[q] = runs[q].payouts
      /\ \A q \in Run : /\ DOMAIN pays[q] = DOMAIN Pays[q]
                        /\ \A o \in DOMAIN Pays[q] : pays[q][o].payout = Pays[q][o].payout
  BY DEF Pays
<1> HIDE DEF pays
<1>2. Consistent(LockedOnes(void_positions, trade_logs), OwedOnes(void_positions, trade_logs),
                 transfers, pays)
  BY <1>1, Keep DEF LocksConsistent
<1>3. VoidsOK(void_positions) /\ trade_logs \in Seq(TradeLogType)
  BY DEF TypeOK, VoidsOK
<1>4. NumberedApart(trade_logs)
  BY DistinctIds
<1> QED
  BY <1>1, <1>2, <1>3, <1>4, PolledConsistent, ZenonT(60)

LEMMA RepliesConsistent ==
  ASSUME TypeOK, TradesStoredInOrder, LocksConsistent, NEW r \in Run,
         \/ \E o \in DOMAIN runs[r].payouts : PayoutReply(r, o)
         \/ \E u \in DOMAIN runs[r].updates : UpdateReply(r, u)
  PROVE  LocksConsistent'
<1>1. ASSUME NEW o \in DOMAIN runs[r].payouts, PayoutReply(r, o) PROVE LocksConsistent'
  <2> DEFINE payouts == [runs[r].payouts EXCEPT ![o].at = "done"]
  <2>1. /\ UNCHANGED transfers
        /\ Polled(r, void_positions, trade_logs, flush_lock["positions"], payouts, runs[r].updates)
    BY <1>1 DEF PayoutReply
  <2>2. DOMAIN payouts = DOMAIN runs[r].payouts
    OBVIOUS
  <2>3. \A p \in DOMAIN payouts : payouts[p].payout = runs[r].payouts[p].payout
    BY RunFields DEF PartialFunction, PayoutStatus
  <2> HIDE DEF payouts
  <2> QED
    BY <2>1, <2>2, <2>3, ReplyConsistent
<1>2. ASSUME NEW u \in DOMAIN runs[r].updates, UpdateReply(r, u) PROVE LocksConsistent'
  <2> DEFINE updates == [runs[r].updates EXCEPT ![u].at = IF @ = "stored" THEN "ok" ELSE "err"]
  <2>1. /\ UNCHANGED transfers
        /\ Polled(r, void_positions, trade_logs, flush_lock["positions"], runs[r].payouts, updates)
    BY <1>2 DEF UpdateReply
  <2> HIDE DEF updates
  <2> QED
    BY <2>1, ReplyConsistent
<1> QED
  BY <1>1, <1>2

(* The tasks of no execution change, nor what is locked; nothing is settled *)
(* and what is newly owed was not transferred.                              *)
LEMMA KeepConsistent ==
  ASSUME LocksConsistent, UNCHANGED transfers,
         LockedOnes(void_positions', trade_logs') = LockedOnes(void_positions, trade_logs),
         OwedOnes(void_positions, trade_logs) \subseteq OwedOnes(void_positions', trade_logs'),
         \A o \in OwedOnes(void_positions', trade_logs') \ OwedOnes(void_positions, trade_logs) :
           transfers[o] = <<>>,
         \A r \in Run : DOMAIN runs'[r].payouts = DOMAIN runs[r].payouts,
         \A r \in Run : \A o \in DOMAIN runs[r].payouts :
           runs'[r].payouts[o].payout = runs[r].payouts[o].payout
  PROVE  LocksConsistent'
<1>1. \A r \in Run : /\ DOMAIN Pays'[r] = DOMAIN Pays[r]
                     /\ \A o \in DOMAIN Pays[r] : Pays'[r][o].payout = Pays[r][o].payout
  BY DEF Pays
<1> QED
  BY <1>1, Keep DEF LocksConsistent

LEMMA SameOwedConsistent ==
  ASSUME LocksConsistent, UNCHANGED <<transfers, owedVars>>,
         \A r \in Run : DOMAIN runs'[r].payouts = DOMAIN runs[r].payouts,
         \A r \in Run : \A o \in DOMAIN runs[r].payouts :
           runs'[r].payouts[o].payout = runs[r].payouts[o].payout
  PROVE  LocksConsistent'
BY KeepConsistent DEF owedVars

(* A timer, a rejected self-call or a step of a flush: no payouts there.   *)
LEMMA NoPayoutsConsistent ==
  ASSUME TypeOK, RunShapes, LocksConsistent, UNCHANGED <<transfers, owedVars>>,
         NEW r \in Run, runs[r].pc # "paying",
         RunShapes', runs'[r].pc # "paying", \A q \in Run : q # r => runs'[q] = runs[q]
  PROVE  LocksConsistent'
<1>1. DOMAIN runs[r].payouts = {} /\ DOMAIN runs'[r].payouts = {}
  BY DEF RunShapes, RunShape
<1> QED
  BY <1>1, SameOwedConsistent

LEMMA QuietRuns ==
  ASSUME TypeOK, RunShapes, NEW r \in Run,
         TimerFires(r) \/ SelfCallFails(r) \/ \E s \in Storage : FlushStep(r, s)
  PROVE  /\ UNCHANGED <<transfers, owedVars>>
         /\ runs[r].pc # "paying" /\ runs'[r].pc # "paying"
         /\ \A q \in Run : q # r => runs'[q] = runs[q]
<1>1. UNCHANGED <<transfers, owedVars>>
  BY DEF TimerFires, SelfCallFails, FlushStep, FlushLogs, FlushEnds, FlushStops, Unlock
<1>2. runs[r].pc # "paying"
  BY DEF TimerFires, SelfCallFails, FlushStep, FlushLogs, FlushEnds, FlushStops, RunShapes, RunShape
<1>3. RunOK(runs[r])
  BY RunFields
<1>4. CASE UNCHANGED runs
  BY <1>1, <1>2, <1>4
<1>5. CASE TimerFires(r) \/ SelfCallFails(r)
  <2>1. Idle.pc = "idle" /\ [Idle EXCEPT !.pc = "called", !.driven = TRUE].pc = "called"
    BY DEF Idle
  <2>2. \/ UNCHANGED runs
        \/ runs' = [runs EXCEPT ![r] = Idle]
        \/ runs' = [runs EXCEPT ![r] = [Idle EXCEPT !.pc = "called", !.driven = TRUE]]
    BY <1>5 DEF TimerFires, SelfCallFails
  <2> QED
    BY <1>1, <1>2, <2>1, <2>2 DEF TypeOK
<1>6. ASSUME NEW s \in Storage, Unlock(r, s)
      PROVE  runs'[r].pc # "paying" /\ \A q \in Run : q # r => runs'[q] = runs[q]
  BY <1>2, <1>3, <1>6 DEF Unlock, TypeOK, Idle, RunOK
<1> QED
  BY <1>1, <1>2, <1>4, <1>5, <1>6 DEF FlushStep, FlushLogs, FlushEnds, FlushStops

LEMMA QuietConsistent ==
  ASSUME TypeOK, RunShapes, RunShapes', LocksConsistent, NEW r \in Run,
         TimerFires(r) \/ SelfCallFails(r) \/ \E s \in Storage : FlushStep(r, s)
  PROVE  LocksConsistent'
BY QuietRuns, NoPayoutsConsistent

LEMMA UpdatesConsistent ==
  ASSUME TypeOK, LocksConsistent, NEW r \in Run, NEW u \in DOMAIN runs[r].updates,
         CmUpdateLog(r, u) \/ UpdateFails(r, u)
  PROVE  LocksConsistent'
<1>1. UNCHANGED <<transfers, owedVars>>
  BY DEF CmUpdateLog, UpdateFails, owedVars
<1>2. PICK at : runs' = [runs EXCEPT ![r].updates[u].at = at]
  BY DEF CmUpdateLog, UpdateFails
<1>3. \A q \in Run : runs'[q].payouts = runs[q].payouts
  BY <1>2, RunFields DEF TypeOK, RunOK
<1> QED
  BY <1>1, <1>3, SameOwedConsistent

LEMMA AnswerFacts ==
  ASSUME TypeOK, NEW r \in Run, NEW o \in DOMAIN runs[r].payouts, NEW pd, NEW fee,
         Answer(r, o, pd, fee)
  PROVE  /\ \A q \in Run : DOMAIN Pays'[q] = DOMAIN Pays[q]
         /\ \A q \in Run : \A p \in DOMAIN Pays[q] :
              <<q, p>> # <<r, o>> => Pays'[q][p].payout = Pays[q][p].payout
         /\ Pays'[r][o].payout = pd
<1> DEFINE st == [runs[r].payouts[o] EXCEPT !.at = "answered", !.payout = pd, !.expected_fee = fee]
<1>1. st.payout = pd
  BY RunFields DEF PartialFunction, PayoutStatus
<1>2. runs' = [runs EXCEPT ![r] = [runs[r] EXCEPT !.payouts = [runs[r].payouts EXCEPT ![o] = st]]]
  BY DEF Answer, TypeOK
<1> HIDE DEF st
<1>3. /\ \A q \in Run : q # r => runs'[q] = runs[q]
      /\ runs'[r].payouts = [runs[r].payouts EXCEPT ![o] = st]
  BY <1>2, RunFields DEF TypeOK, RunOK
<1> QED
  BY <1>1, <1>3 DEF Pays

LEMMA CalleeConsistent ==
  ASSUME TypeOK, RunShapes, LocksConsistent, NEW r \in Run, Callee(r)
  PROVE  LocksConsistent'
<1>1. ASSUME NEW o \in DOMAIN runs[r].payouts,
             Transfer(r, o) \/ BadFee(r, o) \/ TransferFails(r, o)
      PROVE  LocksConsistent'
  <2> DEFINE Told == \E pd, fee : Answer(r, o, pd, fee) /\ (pd # None \/ transfers' = transfers)
  <2>1. ASSUME Transfer(r, o)
        PROVE  /\ runs[r].payouts[o].at = "sent" /\ UNCHANGED owedVars
               /\ Told
               /\ \A p \in Obligation : p # o => transfers'[p] = transfers[p]
    <3>1. runs[r].payouts[o].fee \in Nat
      BY RunFields DEF PartialFunction, PayoutStatus
    <3>2. [did_transfer |-> TRUE, ledger_transfer_fee |-> runs[r].payouts[o].fee] # None
      <4>1. [did_transfer |-> TRUE, ledger_transfer_fee |-> runs[r].payouts[o].fee] \in PayoutData
        BY <3>1 DEF PayoutData
      <4>2. None \notin PayoutData
        BY PayoutsAssumption
      <4> QED
        BY <4>1, <4>2
    <3>3. Told
      BY <2>1, <3>2 DEF Transfer
    <3>4. \A p \in Obligation : p # o => transfers'[p] = transfers[p]
      BY <2>1 DEF Transfer, TypeOK
    <3> QED
      BY <2>1, <3>3, <3>4 DEF Transfer
  <2>2. ASSUME BadFee(r, o) \/ TransferFails(r, o)
        PROVE  /\ runs[r].payouts[o].at = "sent" /\ UNCHANGED owedVars
               /\ Told
               /\ \A p \in Obligation : p # o => transfers'[p] = transfers[p]
    <3>1. Told
      BY <2>2 DEF BadFee, TransferFails
    <3> QED
      BY <2>2, <3>1 DEF BadFee, TransferFails
  <2>3. /\ runs[r].payouts[o].at = "sent" /\ UNCHANGED owedVars
        /\ Told
        /\ \A p \in Obligation : p # o => transfers'[p] = transfers[p]
    BY <1>1, <2>1, <2>2
  <2>4. Pays[r][o].payout = None /\ o \in DOMAIN Pays[r]
    BY <2>3 DEF Pays, RunShapes, RunShape
  <2>5. PICK pd, fee : Answer(r, o, pd, fee) /\ (pd # None \/ transfers' = transfers)
    BY <2>3
  <2>6. transfers[o] = <<>>
    BY <2>4, NotPaidBefore DEF LocksConsistent
  <2>7. transfers'[o] # <<>> => Pays'[r][o].payout # None
    BY <2>5, <2>6, AnswerFacts
  <2>8. \A p \in OwedOnes(void_positions, trade_logs) : p # o => transfers'[p] = transfers[p]
    BY <2>3 DEF OwedOnes
  <2>9. Consistent(LockedOnes(void_positions, trade_logs), OwedOnes(void_positions, trade_logs),
                   transfers', Pays')
    <3>1. Consistent(LockedOnes(void_positions, trade_logs), OwedOnes(void_positions, trade_logs),
                     transfers, Pays)
      BY DEF LocksConsistent
    <3>2. /\ \A q \in Run : DOMAIN Pays'[q] = DOMAIN Pays[q]
          /\ \A q \in Run : \A p \in DOMAIN Pays[q] :
               <<q, p>> # <<r, o>> => Pays'[q][p].payout = Pays[q][p].payout
      BY <2>5, AnswerFacts
    <3> QED
      BY <2>4, <2>7, <2>8, <3>1, <3>2, Learn
  <2> QED
    BY <2>3, <2>9 DEF LocksConsistent, owedVars
<1> QED
  BY <1>1, UpdatesConsistent DEF Callee

LEMMA ResumeRuns ==
  ASSUME TypeOK, RunShapes, RunShapes', NEW r \in Run, Resume(r)
  PROVE  /\ DOMAIN runs[r].payouts = {} /\ DOMAIN runs'[r].payouts = {}
         /\ \A q \in Run : q # r => runs'[q] = runs[q]
<1>1. \E flushes :
        \/ runs' = [runs EXCEPT ![r] = Idle]
        \/ runs' = [runs EXCEPT ![r] = [runs[r] EXCEPT !.pc = "flushing", !.flushes = flushes]]
  BY DEF Resume, TypeOK
<1>2. RunOK(runs[r]) /\ runs[r].pc = "replied" /\ Idle.pc # "paying"
  BY RunFields DEF Resume, Idle
<1>3. CASE runs' = [runs EXCEPT ![r] = Idle]
  BY <1>2, <1>3 DEF TypeOK, RunShapes, RunShape
<1>4. ASSUME NEW flushes,
             runs' = [runs EXCEPT ![r] = [runs[r] EXCEPT !.pc = "flushing", !.flushes = flushes]]
      PROVE  runs'[r].pc # "paying" /\ \A q \in Run : q # r => runs'[q] = runs[q]
  BY <1>2, <1>4 DEF RunOK, TypeOK
<1> QED
  BY <1>1, <1>2, <1>3, <1>4 DEF RunShapes, RunShape

(* What is left of the queue are logs of the queue, among them every log   *)
(* that is not paid on both sides.                                         *)
LEMMA ResumeQueue ==
  ASSUME TypeOK, NEW r \in Run, Resume(r)
  PROVE  /\ \A i \in 1 .. Len(trade_logs') :
              \E j \in 1 .. Len(trade_logs) : trade_logs'[i] = trade_logs[j]
         /\ \A j \in 1 .. Len(trade_logs) : ~CanMove(trade_logs[j]) =>
              \E i \in 1 .. Len(trade_logs') : trade_logs'[i] = trade_logs[j]
<1>1. PICK n \in 0 .. Len(trade_logs) :
        /\ \A i \in 1 .. n : CanMove(trade_logs[i])
        /\ trade_logs' = SubSeq(trade_logs, n + 1, Len(trade_logs))
  BY DEF Resume
<1>2. /\ Len(trade_logs') = Len(trade_logs) - n
      /\ \A i \in 1 .. Len(trade_logs) - n : trade_logs'[i] = trade_logs[n + i]
  BY <1>1 DEF TypeOK
<1>3. Len(trade_logs) \in Nat
  BY DEF TypeOK
<1>4. \A i \in 1 .. Len(trade_logs) : i \in 1 .. n \/ i - n \in 1 .. Len(trade_logs) - n
  BY <1>3
<1>5. ASSUME NEW i \in 1 .. Len(trade_logs')
      PROVE  \E j \in 1 .. Len(trade_logs) : trade_logs'[i] = trade_logs[j]
  <2>1. n + i \in 1 .. Len(trade_logs) /\ trade_logs'[i] = trade_logs[n + i]
    BY <1>2, <1>3
  <2> QED
    BY <2>1
<1>6. ASSUME NEW j \in 1 .. Len(trade_logs), ~CanMove(trade_logs[j])
      PROVE  \E i \in 1 .. Len(trade_logs') : trade_logs'[i] = trade_logs[j]
  <2>1. j - n \in 1 .. Len(trade_logs')
    BY <1>1, <1>2, <1>4, <1>6
  <2>2. trade_logs'[j - n] = trade_logs[n + (j - n)] /\ n + (j - n) = j
    BY <1>2, <1>3, <2>1
  <2> QED
    BY <2>1, <2>2
<1> QED
  BY <1>5, <1>6

LEMMA ResumeConsistent ==
  ASSUME TypeOK, RunShapes, RunShapes', LocksConsistent, NEW r \in Run, Resume(r)
  PROVE  LocksConsistent'
<1>1. UNCHANGED <<void_positions, transfers>>
  BY DEF Resume
<1>5. ASSUME NEW i \in 1 .. Len(trade_logs')
      PROVE  \E j \in 1 .. Len(trade_logs) : trade_logs'[i] = trade_logs[j]
  BY ResumeQueue
<1>6. ASSUME NEW j \in 1 .. Len(trade_logs), ~CanMove(trade_logs[j])
      PROVE  \E i \in 1 .. Len(trade_logs') : trade_logs'[i] = trade_logs[j]
  BY <1>6, ResumeQueue
<1>7. ASSUME NEW o \in Obligation
      PROVE  /\ o \in LockedOnes(void_positions', trade_logs') <=>
                  o \in LockedOnes(void_positions, trade_logs)
             /\ o \in OwedOnes(void_positions', trade_logs') <=>
                  o \in OwedOnes(void_positions, trade_logs)
  <2>1. o.kind \in Kind
    BY DEF Obligation
  <2>2. CASE o.op = "void"
    BY <1>1, <2>2 DEF LockedOnes, OwedOnes
  <2>3. CASE o.op # "void"
    <3>1. \A j \in 1 .. Len(trade_logs) :
            trade_logs[j].payout_lock[o.kind] \/ trade_logs[j].payout_data[o.kind] = None
              => ~CanMove(trade_logs[j])
      BY <2>1 DEF CanMove
    <3>2. /\ o \in LockedOnes(void_positions, trade_logs) <=>
               \E j \in 1 .. Len(trade_logs) : trade_logs[j].id = o.id /\ trade_logs[j].payout_lock[o.kind]
          /\ o \in OwedOnes(void_positions, trade_logs) <=>
               \E j \in 1 .. Len(trade_logs) : trade_logs[j].id = o.id /\ trade_logs[j].payout_data[o.kind] = None
          /\ o \in LockedOnes(void_positions', trade_logs') <=>
               \E j \in 1 .. Len(trade_logs') : trade_logs'[j].id = o.id /\ trade_logs'[j].payout_lock[o.kind]
          /\ o \in OwedOnes(void_positions', trade_logs') <=>
               \E j \in 1 .. Len(trade_logs') : trade_logs'[j].id = o.id /\ trade_logs'[j].payout_data[o.kind] = None
      BY <2>3 DEF LockedOnes, OwedOnes
    <3>3. o \in LockedOnes(void_positions', trade_logs') <=> o \in LockedOnes(void_positions, trade_logs)
      <4>1. ASSUME NEW i \in 1 .. Len(trade_logs'), trade_logs'[i].id = o.id, trade_logs'[i].payout_lock[o.kind]
            PROVE  \E j \in 1 .. Len(trade_logs) : trade_logs[j].id = o.id /\ trade_logs[j].payout_lock[o.kind]
        <5>1. PICK j \in 1 .. Len(trade_logs) : trade_logs'[i] = trade_logs[j]
          BY <1>5
        <5> QED
          BY <4>1, <5>1
      <4>2. ASSUME NEW j \in 1 .. Len(trade_logs), trade_logs[j].id = o.id, trade_logs[j].payout_lock[o.kind]
            PROVE  \E i \in 1 .. Len(trade_logs') : trade_logs'[i].id = o.id /\ trade_logs'[i].payout_lock[o.kind]
        <5>1. PICK i \in 1 .. Len(trade_logs') : trade_logs'[i] = trade_logs[j]
          BY <1>6, <3>1, <4>2
        <5> QED
          BY <4>2, <5>1
      <4> QED
        BY <3>2, <4>1, <4>2
    <3>4. o \in OwedOnes(void_positions', trade_logs') <=> o \in OwedOnes(void_positions, trade_logs)
      <4>1. ASSUME NEW i \in 1 .. Len(trade_logs'), trade_logs'[i].id = o.id, trade_logs'[i].payout_data[o.kind] = None
            PROVE  \E j \in 1 .. Len(trade_logs) : trade_logs[j].id = o.id /\ trade_logs[j].payout_data[o.kind] = None
        <5>1. PICK j \in 1 .. Len(trade_logs) : trade_logs'[i] = trade_logs[j]
          BY <1>5
        <5> QED
          BY <4>1, <5>1
      <4>2. ASSUME NEW j \in 1 .. Len(trade_logs), trade_logs[j].id = o.id, trade_logs[j].payout_data[o.kind] = None
            PROVE  \E i \in 1 .. Len(trade_logs') : trade_logs'[i].id = o.id /\ trade_logs'[i].payout_data[o.kind] = None
        <5>1. PICK i \in 1 .. Len(trade_logs') : trade_logs'[i] = trade_logs[j]
          BY <1>6, <3>1, <4>2
        <5> QED
          BY <4>2, <5>1
      <4> QED
        BY <3>2, <4>1, <4>2
    <3> QED
      BY <3>3, <3>4
  <2> QED
    BY <2>2, <2>3
<1>8. /\ LockedOnes(void_positions', trade_logs') = LockedOnes(void_positions, trade_logs)
      /\ OwedOnes(void_positions', trade_logs') = OwedOnes(void_positions, trade_logs)
  <2>1. /\ LockedOnes(void_positions, trade_logs) \subseteq Obligation
        /\ OwedOnes(void_positions, trade_logs) \subseteq Obligation
        /\ LockedOnes(void_positions', trade_logs') \subseteq Obligation
        /\ OwedOnes(void_positions', trade_logs') \subseteq Obligation
    BY DEF LockedOnes, OwedOnes
  <2> QED
    BY <1>7, <2>1
<1>9. /\ DOMAIN runs[r].payouts = {} /\ DOMAIN runs'[r].payouts = {}
      /\ \A q \in Run : q # r => runs'[q] = runs[q]
  BY ResumeRuns
<1> QED
  BY <1>1, <1>8, <1>9, KeepConsistent

----------------------------------------------------------------------------
(* What the market makes is unlocked and was never transferred.            *)

LEMMA MarketConsistent ==
  ASSUME TypeOK, NoFreshTransfers, LocksConsistent, UNCHANGED <<transfers, runs>>,
         \A k \in Kind :
           /\ DOMAIN void_positions[k] \subseteq DOMAIN void_positions'[k]
           /\ \A i \in DOMAIN void_positions[k] : void_positions'[k][i] = void_positions[k][i]
           /\ \A i \in DOMAIN void_positions'[k] \ DOMAIN void_positions[k] :
                /\ ~void_positions'[k][i].payout_lock
                /\ i \in positions[k] \/ i >= positions_id_counter,
         Len(trade_logs') \in Nat, Len(trade_logs) <= Len(trade_logs'),
         \A i \in 1 .. Len(trade_logs) : trade_logs'[i] = trade_logs[i],
         \A i \in 1 .. Len(trade_logs') \ 1 .. Len(trade_logs) :
           /\ \A k \in Kind : ~trade_logs'[i].payout_lock[k]
           /\ trade_logs'[i].id >= trade_logs_id_counter
  PROVE  LocksConsistent'
<1>1. ASSUME NEW o \in Obligation, o.op = "void"
      PROVE  /\ o \in LockedOnes(void_positions', trade_logs') <=>
                  o \in LockedOnes(void_positions, trade_logs)
             /\ o \in OwedOnes(void_positions, trade_logs) => o \in OwedOnes(void_positions', trade_logs')
             /\ o \in OwedOnes(void_positions', trade_logs') =>
                  o \in OwedOnes(void_positions, trade_logs) \/ Fresh(o)
  <2>1. o.kind \in Kind
    BY DEF Obligation
  <2> QED
    BY <1>1, <2>1 DEF LockedOnes, OwedOnes, Fresh
<1>2. ASSUME NEW o \in Obligation, o.op # "void"
      PROVE  /\ o \in LockedOnes(void_positions', trade_logs') <=>
                  o \in LockedOnes(void_positions, trade_logs)
             /\ o \in OwedOnes(void_positions, trade_logs) => o \in OwedOnes(void_positions', trade_logs')
             /\ o \in OwedOnes(void_positions', trade_logs') =>
                  o \in OwedOnes(void_positions, trade_logs) \/ Fresh(o)
  <2>1. o.kind \in Kind
    BY DEF Obligation
  <2>2. 1 .. Len(trade_logs) \subseteq 1 .. Len(trade_logs')
    BY DEF TypeOK
  <2>3. /\ o \in LockedOnes(void_positions, trade_logs) <=>
             \E j \in 1 .. Len(trade_logs) : trade_logs[j].id = o.id /\ trade_logs[j].payout_lock[o.kind]
        /\ o \in OwedOnes(void_positions, trade_logs) <=>
             \E j \in 1 .. Len(trade_logs) : trade_logs[j].id = o.id /\ trade_logs[j].payout_data[o.kind] = None
        /\ o \in LockedOnes(void_positions', trade_logs') <=>
             \E j \in 1 .. Len(trade_logs') : trade_logs'[j].id = o.id /\ trade_logs'[j].payout_lock[o.kind]
        /\ o \in OwedOnes(void_positions', trade_logs') <=>
             \E j \in 1 .. Len(trade_logs') : trade_logs'[j].id = o.id /\ trade_logs'[j].payout_data[o.kind] = None
        /\ Fresh(o) <=> o.id >= trade_logs_id_counter
    BY <1>2 DEF LockedOnes, OwedOnes, Fresh
  <2>4. \A j \in 1 .. Len(trade_logs') :
          \/ j \in 1 .. Len(trade_logs) /\ trade_logs'[j] = trade_logs[j]
          \/ ~trade_logs'[j].payout_lock[o.kind] /\ trade_logs'[j].id >= trade_logs_id_counter
    BY <2>1
  <2>5. \A j \in 1 .. Len(trade_logs) : j \in 1 .. Len(trade_logs') /\ trade_logs'[j] = trade_logs[j]
    BY <2>2
  <2> QED
    BY <2>3, <2>4, <2>5
<1>3. /\ LockedOnes(void_positions, trade_logs) \subseteq Obligation
      /\ OwedOnes(void_positions, trade_logs) \subseteq Obligation
      /\ LockedOnes(void_positions', trade_logs') \subseteq Obligation
      /\ OwedOnes(void_positions', trade_logs') \subseteq Obligation
  BY DEF LockedOnes, OwedOnes
<1>4. LockedOnes(void_positions', trade_logs') = LockedOnes(void_positions, trade_logs)
  BY <1>1, <1>2, <1>3
<1>5. OwedOnes(void_positions, trade_logs) \subseteq OwedOnes(void_positions', trade_logs')
  BY <1>1, <1>2, <1>3
<1>6. \A o \in OwedOnes(void_positions', trade_logs') \ OwedOnes(void_positions, trade_logs) :
        transfers[o] = <<>>
  BY <1>1, <1>2, <1>3 DEF NoFreshTransfers
<1> QED
  BY <1>4, <1>5, <1>6, KeepConsistent

LEMMA VoidPositionConsistent ==
  ASSUME TypeOK, BookIds, NoFreshTransfers, LocksConsistent,
         NEW k \in Kind, NEW id \in positions[k], VoidPosition(k, id)
  PROVE  LocksConsistent'
<1>1. PICK q : void_positions' = [void_positions EXCEPT ![k] =
                 [i \in DOMAIN @ \cup {id} |-> IF i = id THEN NewVoidPosition(q) ELSE @[i]]]
  BY DEF VoidPosition
<1>2. id \notin DOMAIN void_positions[k]
  BY DEF BookIds
<1>3. ~NewVoidPosition(q).payout_lock
  BY DEF NewVoidPosition
<1>4. \A j \in Kind :
        /\ DOMAIN void_positions[j] \subseteq DOMAIN void_positions'[j]
        /\ \A i \in DOMAIN void_positions[j] : void_positions'[j][i] = void_positions[j][i]
        /\ \A i \in DOMAIN void_positions'[j] \ DOMAIN void_positions[j] :
             /\ ~void_positions'[j][i].payout_lock
             /\ i \in positions[j] \/ i >= positions_id_counter
  BY <1>1, <1>2, <1>3 DEF TypeOK
<1>5. UNCHANGED <<transfers, runs, trade_logs>> /\ Len(trade_logs) \in Nat
  BY DEF VoidPosition, TypeOK
<1> QED
  BY <1>4, <1>5, MarketConsistent

LEMMA CreateConsistent ==
  ASSUME TypeOK, BookIds, NoFreshTransfers, LocksConsistent, NEW k \in Kind,
         NEW voided, voided \subseteq Matchees(k) \cup {positions_id_counter},
         NEW n \in Nat, NEW q, NEW sides, CreateAndMatch(k, voided, n, q, sides)
  PROVE  LocksConsistent'
<1>1. \A i : ~NewVoidPosition(q[i]).payout_lock
  BY DEF NewVoidPosition
<1>2. ASSUME NEW j \in Kind
      PROVE  /\ DOMAIN void_positions[j] \subseteq DOMAIN void_positions'[j]
             /\ \A i \in DOMAIN void_positions[j] : void_positions'[j][i] = void_positions[j][i]
             /\ \A i \in DOMAIN void_positions'[j] \ DOMAIN void_positions[j] :
                  /\ ~void_positions'[j][i].payout_lock
                  /\ i \in positions[j] \/ i >= positions_id_counter
  <2> DEFINE new == MadeVoid(k, voided, j)
  <2>1. /\ DOMAIN void_positions'[j] = DOMAIN void_positions[j] \cup new
        /\ \A i \in DOMAIN void_positions[j] \ new : void_positions'[j][i] = void_positions[j][i]
        /\ \A i \in new : /\ i \in positions[j] \/ i = positions_id_counter
                          /\ i \notin DOMAIN void_positions[j]
                          /\ void_positions'[j][i] = NewVoidPosition(q[i])
    BY NewVoids
  <2>2. positions_id_counter \in Nat
    BY DEF TypeOK
  <2> HIDE DEF new
  <2> QED
    BY <1>1, <2>1, <2>2
<1>3. /\ Len(trade_logs') = Len(trade_logs) + n
      /\ \A i \in 1 .. Len(trade_logs) : trade_logs'[i] = trade_logs[i]
      /\ \A i \in 1 .. n :
           /\ trade_logs'[Len(trade_logs) + i].id = trade_logs_id_counter + i - 1
           /\ \A j \in Kind : ~trade_logs'[Len(trade_logs) + i].payout_lock[j]
  BY CreateLogs
<1>4. \A i \in 1 .. n : trade_logs_id_counter + i - 1 >= trade_logs_id_counter
  BY DEF TypeOK
<1>5. Len(trade_logs) \in Nat /\ Len(trade_logs') \in Nat /\ Len(trade_logs) <= Len(trade_logs')
  BY <1>3 DEF TypeOK
<1>6. ASSUME NEW i \in 1 .. Len(trade_logs') \ 1 .. Len(trade_logs)
      PROVE  /\ \A j \in Kind : ~trade_logs'[i].payout_lock[j]
             /\ trade_logs'[i].id >= trade_logs_id_counter
  <2>1. i - Len(trade_logs) \in 1 .. n /\ i = Len(trade_logs) + (i - Len(trade_logs))
    BY <1>3, <1>5
  <2> QED
    BY <1>3, <1>4, <2>1
<1>7. UNCHANGED <<transfers, runs>>
  BY DEF CreateAndMatch
<1> QED
  BY <1>2, <1>3, <1>5, <1>6, <1>7, MarketConsistent

LEMMA NextConsistent ==
  ASSUME TypeOK, RunShapes, RunShapes', BookIds, TradesStoredInOrder, NoFreshTransfers,
         LocksConsistent, [Next]_vars
  PROVE  LocksConsistent'
<1>1. CASE UNCHANGED <<transfers, owedVars, runs>>
  BY <1>1, SameOwedConsistent
<1>2. ASSUME NEW k \in Kind, Trade(k) PROVE LocksConsistent'
  <2>1. PICK voided \in SUBSET (Matchees(k) \cup {positions_id_counter}),
             n \in 0 .. Cardinality(Matchees(k)) :
          \E q \in [voided -> VoidQuantity], sides \in [1 .. n -> [Kind -> TradeSide]] :
            CreateAndMatch(k, voided, n, q, sides)
    BY <1>2 DEF Trade, Matchees
  <2>2. n \in Nat /\ voided \subseteq Matchees(k) \cup {positions_id_counter}
    OBVIOUS
  <2> QED
    BY <2>1, <2>2, CreateConsistent
<1>3. ASSUME NEW r \in Run, Canister(r) PROVE LocksConsistent'
  BY <1>3, StartRunConsistent, RepliesConsistent, ResumeConsistent, QuietConsistent
     DEF Canister, FlushStep
<1> QED
  BY <1>1, <1>2, <1>3, VoidPositionConsistent, CalleeConsistent
     DEF Next, Market, MarketError, LedgerFeeChanges, Upgrade, vars, owedVars

----------------------------------------------------------------------------
(* The transfers *)

LEMMA FreshBefore ==
  ASSUME TypeOK, [Next]_vars, NEW o \in Obligation, Fresh(o)'
  PROVE  Fresh(o)
<1>1. o.kind \in Kind
  BY DEF Obligation
<1>2. positions_id_counter \in Nat /\ trade_logs_id_counter \in Nat
  BY DEF TypeOK
<1>3. CASE UNCHANGED marketVars
  BY <1>3 DEF Fresh, marketVars
<1>4. ASSUME NEW k \in Kind, Trade(k) PROVE Fresh(o)
  <2>1. PICK voided \in SUBSET (Matchees(k) \cup {positions_id_counter}),
             n \in 0 .. Cardinality(Matchees(k)) :
          \E q \in [voided -> VoidQuantity], sides \in [1 .. n -> [Kind -> TradeSide]] :
            CreateAndMatch(k, voided, n, q, sides)
    BY <1>4 DEF Trade, Matchees
  <2>2. /\ positions_id_counter' = positions_id_counter + 1
        /\ trade_logs_id_counter' = trade_logs_id_counter + n
        /\ positions'[o.kind] \subseteq positions[o.kind] \cup {positions_id_counter}
    BY <1>1, <2>1 DEF CreateAndMatch
  <2>3. o.id \in Nat
    BY PayoutsAssumption DEF Obligation, PositionId, PurchaseId
  <2>4. n \in Nat
    OBVIOUS
  <2> QED
    BY <1>2, <2>2, <2>3, <2>4 DEF Fresh
<1>5. ASSUME NEW k \in Kind, NEW id \in positions[k], VoidPosition(k, id) PROVE Fresh(o)
  <2>1. /\ UNCHANGED <<positions_id_counter, trade_logs_id_counter>>
        /\ positions'[o.kind] \subseteq positions[o.kind]
    BY <1>1, <1>5, SMTT(40) DEF VoidPosition, TypeOK
  <2> QED
    BY <2>1 DEF Fresh
<1>6. ASSUME NEW r \in Run, Canister(r) \/ Callee(r) PROVE UNCHANGED marketVars
  BY <1>6, ZenonT(60) DEF Canister, Callee, TimerFires, SelfCallFails, StartRun, PayoutReply, UpdateReply,
     Resume, FlushLogs, FlushEnds, FlushStops, Unlock, Transfer, BadFee, TransferFails,
     CmUpdateLog, UpdateFails
<1>7. CASE Market
  BY <1>3, <1>4, <1>5, <1>7 DEF Market, MarketError
<1> QED
  BY <1>3, <1>6, <1>7 DEF Next, LedgerFeeChanges, Upgrade, vars

LEMMA OwedNotFresh ==
  ASSUME TypeOK, BookIds, TradesStoredInOrder,
         NEW o \in OwedOnes(void_positions, trade_logs)
  PROVE  ~Fresh(o)
<1>1. o \in Obligation /\ o.kind \in Kind
  BY DEF OwedOnes, Obligation
<1>2. CASE o.op = "void"
  <2>1. o.id \in DOMAIN void_positions[o.kind]
    BY <1>2 DEF OwedOnes
  <2>2. o.id \in 0 .. positions_id_counter - 1 /\ o.id \notin positions[o.kind]
    BY <1>1, <2>1 DEF BookIds
  <2>3. positions_id_counter \in Nat
    BY DEF TypeOK
  <2> QED
    BY <1>2, <2>2, <2>3 DEF Fresh
<1>3. CASE o.op # "void"
  <2>1. PICK i \in 1 .. Len(trade_logs) : trade_logs[i].id = o.id
    BY <1>3 DEF OwedOnes
  <2>2. o.id = Len(trades_stored) + i - 1
    BY <2>1 DEF TradesStoredInOrder
  <2>3. trade_logs_id_counter = Len(trades_stored) + Len(trade_logs)
    BY DEF TradesStoredInOrder
  <2>4. Len(trades_stored) \in Nat /\ Len(trade_logs) \in Nat
    BY DEF TypeOK
  <2> QED
    BY <1>3, <2>2, <2>3, <2>4 DEF Fresh
<1> QED
  BY <1>2, <1>3

(* A ledger executes a transfer only of what is owed, with nothing paid.   *)
LEMMA TransferFirst ==
  ASSUME TypeOK, RunShapes, LocksConsistent,
         NEW r \in Run, NEW o \in DOMAIN runs[r].payouts, Transfer(r, o)
  PROVE  o \in OwedOnes(void_positions, trade_logs) /\ transfers[o] = <<>>
<1>1. Pays[r][o].payout = None /\ o \in DOMAIN Pays[r]
  BY DEF Transfer, Pays, RunShapes, RunShape
<1> QED
  BY <1>1, NotPaidBefore DEF LocksConsistent, Consistent

LEMMA NextTransfers ==
  ASSUME TypeOK, RunShapes, BookIds, TradesStoredInOrder, LocksConsistent,
         NoFreshTransfers, PaidAtMostOnce, [Next]_vars
  PROVE  NoFreshTransfers' /\ PaidAtMostOnce'
<1>1. CASE UNCHANGED transfers
  BY <1>1, FreshBefore DEF NoFreshTransfers, PaidAtMostOnce
<1>2. ASSUME NEW r \in Run, NEW o \in DOMAIN runs[r].payouts, Transfer(r, o)
      PROVE  NoFreshTransfers' /\ PaidAtMostOnce'
  <2>1. o \in OwedOnes(void_positions, trade_logs) /\ transfers[o] = <<>>
    BY <1>2, TransferFirst
  <2>2. ~Fresh(o)
    BY <2>1, OwedNotFresh
  <2>3. \A p \in Obligation : p # o => transfers'[p] = transfers[p]
    BY <1>2 DEF Transfer, TypeOK
  <2>4. o \in Obligation /\ Len(transfers'[o]) <= 1
    <3>1. o \in Obligation
      BY <2>1 DEF OwedOnes
    <3>2. PICK block : transfers'[o] = Append(transfers[o], block)
      BY <1>2, <3>1 DEF Transfer, TypeOK
    <3>3. transfers'[o] = <<block>>
      BY <2>1, <3>2
    <3> QED
      BY <3>1, <3>3
  <2>5. NoFreshTransfers'
    BY <2>2, <2>3, <2>4, FreshBefore DEF NoFreshTransfers
  <2>6. PaidAtMostOnce'
    BY <2>3, <2>4 DEF PaidAtMostOnce
  <2> QED
    BY <2>5, <2>6
<1>3. ASSUME NEW k \in Kind, Trade(k) \/ \E id \in positions[k] : VoidPosition(k, id)
      PROVE  UNCHANGED transfers
  BY <1>3 DEF Trade, CreateAndMatch, VoidPosition
<1>4. ASSUME NEW r \in Run, Canister(r) PROVE UNCHANGED transfers
  BY <1>4 DEF Canister, TimerFires, SelfCallFails, StartRun, PayoutReply, UpdateReply, Resume,
              FlushLogs, FlushEnds, FlushStops, Unlock
<1>5. ASSUME NEW r \in Run, Callee(r)
      PROVE  UNCHANGED transfers \/ \E o \in DOMAIN runs[r].payouts : Transfer(r, o)
  BY <1>5 DEF Callee, BadFee, TransferFails, CmUpdateLog, UpdateFails
<1>6. CASE MarketError \/ (\E k \in Kind : LedgerFeeChanges(k)) \/ Upgrade \/ UNCHANGED vars
  BY <1>1, <1>6 DEF MarketError, LedgerFeeChanges, Upgrade, vars
<1> QED
  BY <1>1, <1>2, <1>3, <1>4, <1>5, <1>6 DEF Next, Market

----------------------------------------------------------------------------
(* The theorems *)

LEMMA InitLockInv == Init => LockInv
<1> SUFFICES ASSUME Init PROVE LockInv
  OBVIOUS
<1>1. TypeOK
  BY InitTypeOK
<1>2. RunShapes
  BY IdleShape DEF Init, RunShapes
<1>3. BookIds
  BY DEF Init, BookIds, NoTasks
<1>4. TradesStoredInOrder
  BY DEF Init, TradesStoredInOrder
<1>5. NoFreshTransfers /\ PaidAtMostOnce
  BY DEF Init, NoFreshTransfers, PaidAtMostOnce
<1>6. LocksConsistent
  <2>1. LockedOnes(void_positions, trade_logs) = {} /\ OwedOnes(void_positions, trade_logs) = {}
    BY DEF Init, LockedOnes, OwedOnes, NoTasks, Obligation
  <2>2. \A r \in Run : DOMAIN Pays[r] = {}
    BY DEF Init, Pays, Idle, NoTasks
  <2> QED
    BY <2>1, <2>2 DEF LocksConsistent, Consistent
<1> QED
  BY <1>1, <1>2, <1>3, <1>4, <1>5, <1>6 DEF LockInv

(* The invariant is inductive.                                             *)
LEMMA NextLocks ==
  ASSUME LockInv, [Next]_vars
  PROVE  LockInv'
<1>1. TypeOK' /\ RunShapes' /\ BookIds' /\ TradesStoredInOrder'
  BY NextType, NextShape, NextBookIds, NextIds DEF LockInv
<1>2. LocksConsistent' /\ NoFreshTransfers' /\ PaidAtMostOnce'
  BY <1>1, NextConsistent, NextTransfers DEF LockInv
<1> QED
  BY <1>1, <1>2 DEF LockInv

THEOREM LocksProtect == Spec => []LockInv
BY InitLockInv, NextLocks, PTL DEF Spec

(* No obligation is transferred twice, whatever executions overlap.        *)
THEOREM NeverPaidTwice == Spec => []PaidAtMostOnce
<1>1. LockInv => PaidAtMostOnce
  BY DEF LockInv
<1> QED
  BY <1>1, LocksProtect, PTL

(* A payout lock is held exactly while one execution pays.                 *)
THEOREM LocksAreHeld == Spec => []PayoutLocksHeld
<1>1. LockInv => PayoutLocksHeld
  BY ConsistentHeld DEF LockInv
<1> QED
  BY <1>1, LocksProtect, PTL

(* Trade logs are stored once, in the order of their creation, when both   *)
(* sides are paid (ARCHITECTURE.md:46).                                    *)
THEOREM StoredInOrder == Spec => []TradesStoredInOrder
<1>1. LockInv => TradesStoredInOrder
  BY DEF LockInv
<1> QED
  BY <1>1, LocksProtect, PTL

----------------------------------------------------------------------------
(* What is behind the payouts: the flush lock is held by one execution at  *)
(* a time, what is recorded of a payout is what the ledger did, and the    *)
(* log of a position is final before the position is forgotten.            *)

----------------------------------------------------------------------------
(* The flush lock *)

(* The locks that an execution holds. *)
HeldBy(run) == {s \in Storage : \/ s \in DOMAIN run.flushes
                                \/ s = "positions" /\ DOMAIN run.updates # {}}
Held == [r \in Run |-> HeldBy(runs[r])]

(* A lock is set exactly while one execution holds it. *)
Owned(lock, held) ==
  /\ \A s \in Storage : lock[s] <=> \E r \in Run : s \in held[r]
  /\ \A s \in Storage, q, r \in Run : s \in held[q] /\ s \in held[r] => q = r

LocksOwned == Owned(flush_lock, Held)

(* One execution takes locks that are free and releases locks it holds.    *)
LEMMA OwnerStep ==
  ASSUME NEW lock, NEW held, NEW lock2, NEW held2, Owned(lock, held),
         NEW r \in Run, \A q \in Run : q # r => held2[q] = held[q],
         \A s \in Storage :
           \/ (s \in held2[r] <=> s \in held[r]) /\ lock2[s] = lock[s]
           \/ ~lock[s] /\ lock2[s] /\ s \in held2[r]
           \/ s \in held[r] /\ ~lock2[s] /\ s \notin held2[r]
  PROVE  Owned(lock2, held2)
<1>1. ASSUME NEW s \in Storage
      PROVE  /\ lock2[s] <=> \E q \in Run : s \in held2[q]
             /\ \A p, q \in Run : s \in held2[p] /\ s \in held2[q] => p = q
  <2>1. /\ lock[s] <=> \E q \in Run : s \in held[q]
        /\ \A p, q \in Run : s \in held[p] /\ s \in held[q] => p = q
    BY DEF Owned
  <2>2. CASE (s \in held2[r] <=> s \in held[r]) /\ lock2[s] = lock[s]
    BY <2>1, <2>2
  <2>3. CASE ~lock[s] /\ lock2[s] /\ s \in held2[r]
    BY <2>1, <2>3
  <2>4. CASE s \in held[r] /\ ~lock2[s] /\ s \notin held2[r]
    BY <2>1, <2>4
  <2> QED
    BY <2>2, <2>3, <2>4
<1> QED
  BY <1>1 DEF Owned

(* The same of the executions and locks of the contract.                   *)
LEMMA OwnerChanges ==
  ASSUME TypeOK, LocksOwned, NEW r \in Run, NEW run, runs' = [runs EXCEPT ![r] = run],
         \A s \in Storage :
           \/ (s \in HeldBy(run) <=> s \in HeldBy(runs[r])) /\ flush_lock'[s] = flush_lock[s]
           \/ ~flush_lock[s] /\ flush_lock'[s] /\ s \in HeldBy(run)
           \/ s \in HeldBy(runs[r]) /\ ~flush_lock'[s] /\ s \notin HeldBy(run)
  PROVE  LocksOwned'
<1>1. Held'[r] = HeldBy(run) /\ \A q \in Run : q # r => Held'[q] = Held[q]
  BY DEF Held, TypeOK
<1>2. Held[r] = HeldBy(runs[r])
  BY DEF Held
<1>3. \A s \in Storage :
        \/ (s \in Held'[r] <=> s \in Held[r]) /\ flush_lock'[s] = flush_lock[s]
        \/ ~flush_lock[s] /\ flush_lock'[s] /\ s \in Held'[r]
        \/ s \in Held[r] /\ ~flush_lock'[s] /\ s \notin Held'[r]
  BY <1>1, <1>2
<1>4. Owned(flush_lock', Held')
  BY <1>1, <1>3, OwnerStep DEF LocksOwned
<1> QED
  BY <1>4 DEF LocksOwned

(* The same tasks under other states hold the same locks.                  *)
LEMMA SameTasksOwned ==
  ASSUME TypeOK, LocksOwned, UNCHANGED flush_lock,
         \A r \in Run : /\ DOMAIN runs'[r].updates = DOMAIN runs[r].updates
                        /\ DOMAIN runs'[r].flushes = DOMAIN runs[r].flushes
  PROVE  LocksOwned'
<1>1. Held' = Held
  BY DEF Held, HeldBy
<1> QED
  BY <1>1 DEF LocksOwned

LEMMA IdleHolds ==
  /\ HeldBy(Idle) = {}
  /\ HeldBy([Idle EXCEPT !.pc = "called", !.driven = TRUE]) = {}
  /\ HeldBy([Idle EXCEPT !.pc = "replied", !.driven = TRUE]) = {}
BY DEF HeldBy, Idle, NoTasks

(* An execution that has just been polled waits on or has released.        *)
LEMMA PolledOwned ==
  ASSUME TypeOK, RunShapes, LocksOwned, NEW r \in Run, runs[r].pc # "flushing",
         NEW vps, NEW tls, NEW lock \in BOOLEAN, NEW payouts, NEW updates,
         Polled(r, vps, tls, lock, payouts, updates),
         \/ DOMAIN updates = DOMAIN runs[r].updates /\ lock = flush_lock["positions"]
         \/ /\ DOMAIN runs[r].updates = {} /\ DOMAIN updates # {}
            /\ ~flush_lock["positions"] /\ lock
  PROVE  LocksOwned'
<1>1. DOMAIN runs[r].flushes = {} /\ RunOK(runs[r])
  BY RunFields DEF RunShapes, RunShape
<1>2. flush_lock \in [Storage -> BOOLEAN] /\ "positions" \in Storage
  BY DEF TypeOK, Storage
<1>3. \A s \in Storage : s \in HeldBy(runs[r]) <=> s = "positions" /\ DOMAIN runs[r].updates # {}
  BY <1>1 DEF HeldBy
<1>4. DOMAIN runs[r].updates # {} => flush_lock["positions"]
  <2>1. DOMAIN runs[r].updates # {} => "positions" \in Held[r]
    BY <1>2, <1>3 DEF Held
  <2> QED
    BY <1>2, <2>1 DEF LocksOwned, Owned
<1>5. CASE AllReady(payouts, updates)
  <2>1. PICK run : /\ HeldBy(run) = {}
                   /\ runs' = [runs EXCEPT ![r] = run]
                   /\ flush_lock' = [flush_lock EXCEPT !["positions"] = lock /\ DOMAIN updates = {}]
    <3>1. runs' = [runs EXCEPT ![r] = IF runs[r].driven
                     THEN [Idle EXCEPT !.pc = "replied", !.driven = TRUE] ELSE Idle]
      BY <1>5 DEF Polled, TypeOK
    <3> QED
      BY <1>5, <3>1, IdleHolds DEF Polled
  <2> QED
    BY <1>2, <1>3, <1>4, <2>1, OwnerChanges
<1>6. CASE ~AllReady(payouts, updates)
  <2> DEFINE run == [runs[r] EXCEPT !.pc = "paying", !.payouts = payouts, !.updates = updates]
  <2>1. /\ runs' = [runs EXCEPT ![r] = run]
        /\ flush_lock' = [flush_lock EXCEPT !["positions"] = lock]
    BY <1>6 DEF Polled, TypeOK
  <2>2. run.updates = updates /\ run.flushes = runs[r].flushes
    BY <1>1 DEF RunOK
  <2> HIDE DEF run
  <2>3. \A s \in Storage : s \in HeldBy(run) <=> s = "positions" /\ DOMAIN updates # {}
    BY <1>1, <2>2 DEF HeldBy
  <2>4. \A s \in Storage : s # "positions" =>
          (s \in HeldBy(run) <=> s \in HeldBy(runs[r])) /\ flush_lock'[s] = flush_lock[s]
    BY <1>2, <1>3, <2>1, <2>3
  <2>5. LET s == "positions"
        IN \/ (s \in HeldBy(run) <=> s \in HeldBy(runs[r])) /\ flush_lock'[s] = flush_lock[s]
           \/ ~flush_lock[s] /\ flush_lock'[s] /\ s \in HeldBy(run)
    BY <1>2, <1>3, <2>1, <2>3
  <2>6. \A s \in Storage :
          \/ (s \in HeldBy(run) <=> s \in HeldBy(runs[r])) /\ flush_lock'[s] = flush_lock[s]
          \/ ~flush_lock[s] /\ flush_lock'[s] /\ s \in HeldBy(run)
    BY <2>4, <2>5
  <2> QED
    BY <2>1, <2>6, OwnerChanges
<1> QED
  BY <1>5, <1>6

LEMMA StartRunOwned ==
  ASSUME TypeOK, RunShapes, LocksOwned, NEW r \in Run, StartRun(r)
  PROVE  LocksOwned'
<1> DEFINE payouts == [o \in TakenPayouts |-> StartPayout(o)]
           updates == [u \in TakenUpdates |-> StartUpdate(u)]
           lock    == flush_lock["positions"] \/ TakenUpdates # {}
<1>1. Polled(r, LockedVoids, LockedTrades, lock, payouts, updates)
  BY DEF StartRun
<1>2. DOMAIN updates = TakenUpdates
  OBVIOUS
<1>3. TakenUpdates # {} => ~flush_lock["positions"]
  BY TakenVoids DEF TakenUpdates, Update
<1>4. runs[r].pc # "flushing" /\ DOMAIN runs[r].updates = {}
  BY DEF StartRun, RunShapes, RunShape
<1>5. lock \in BOOLEAN /\ flush_lock["positions"] \in BOOLEAN
  BY DEF TypeOK, Storage
<1>6. \/ DOMAIN updates = DOMAIN runs[r].updates /\ lock = flush_lock["positions"]
      \/ /\ DOMAIN runs[r].updates = {} /\ DOMAIN updates # {}
         /\ ~flush_lock["positions"] /\ lock
  BY <1>2, <1>3, <1>4, <1>5
<1> HIDE DEF payouts, updates, lock
<1> QED
  BY <1>1, <1>4, <1>5, <1>6, PolledOwned

LEMMA RepliesOwned ==
  ASSUME TypeOK, RunShapes, LocksOwned, NEW r \in Run,
         \/ \E o \in DOMAIN runs[r].payouts : PayoutReply(r, o)
         \/ \E u \in DOMAIN runs[r].updates : UpdateReply(r, u)
  PROVE  LocksOwned'
<1>1. PICK payouts, updates :
        /\ Polled(r, void_positions, trade_logs, flush_lock["positions"], payouts, updates)
        /\ DOMAIN updates = DOMAIN runs[r].updates
  <2>1. ASSUME NEW o \in DOMAIN runs[r].payouts, PayoutReply(r, o)
        PROVE  Polled(r, void_positions, trade_logs, flush_lock["positions"],
                      [runs[r].payouts EXCEPT ![o].at = "done"], runs[r].updates)
    BY <2>1 DEF PayoutReply
  <2>2. ASSUME NEW u \in DOMAIN runs[r].updates, UpdateReply(r, u)
        PROVE  \E updates :
                 /\ Polled(r, void_positions, trade_logs, flush_lock["positions"],
                           runs[r].payouts, updates)
                 /\ DOMAIN updates = DOMAIN runs[r].updates
    BY <2>2 DEF UpdateReply
  <2> QED
    BY <2>1, <2>2
<1>2. runs[r].pc # "flushing" /\ flush_lock["positions"] \in BOOLEAN
  BY DEF RunShapes, RunShape, TypeOK, Storage
<1> QED
  BY <1>1, <1>2, PolledOwned

LEMMA ResumeOwned ==
  ASSUME TypeOK, RunShapes, LocksOwned, NEW r \in Run, Resume(r)
  PROVE  LocksOwned'
<1>1. PICK n :
        /\ flush_lock' = [s \in Storage |-> flush_lock[s] \/ s \in DueFlushes(n)]
        /\ IF DueFlushes(n) = {} THEN runs' = [runs EXCEPT ![r] = Idle]
           ELSE runs' = [runs EXCEPT ![r].pc = "flushing", ![r].flushes =
                           [s \in DueFlushes(n) |-> IF s = "positions" THEN Len(position_logs)
                                                    ELSE Len(trades_stored) + n]]
  BY DEF Resume
<1>2. HeldBy(runs[r]) = {} /\ DOMAIN runs[r].updates = {} /\ RunOK(runs[r])
  BY RunFields DEF Resume, RunShapes, RunShape, HeldBy
<1>3. flush_lock \in [Storage -> BOOLEAN] /\ flush_lock' \in [Storage -> BOOLEAN]
  BY <1>1 DEF TypeOK
<1>4. DueFlushes(n) \subseteq Storage /\ \A s \in DueFlushes(n) : ~flush_lock[s]
  BY DEF DueFlushes
<1>5. CASE DueFlushes(n) = {}
  <2>1. \A s \in Storage : flush_lock'[s] = flush_lock[s]
    BY <1>1, <1>3, <1>5
  <2>2. runs' = [runs EXCEPT ![r] = Idle]
    BY <1>1, <1>5
  <2> QED
    BY <1>2, <2>1, <2>2, IdleHolds, OwnerChanges
<1>6. CASE DueFlushes(n) # {}
  <2> DEFINE flushes == [s \in DueFlushes(n) |-> IF s = "positions" THEN Len(position_logs)
                                                 ELSE Len(trades_stored) + n]
             run == [runs[r] EXCEPT !.pc = "flushing", !.flushes = flushes]
  <2>1. runs' = [runs EXCEPT ![r] = run]
    BY <1>1, <1>6 DEF TypeOK
  <2>2. DOMAIN flushes = DueFlushes(n)
    OBVIOUS
  <2> HIDE DEF flushes
  <2>3. run.flushes = flushes /\ run.updates = runs[r].updates
    BY <1>2 DEF RunOK
  <2> HIDE DEF run
  <2>4. HeldBy(run) = DueFlushes(n)
    BY <1>2, <1>4, <2>2, <2>3 DEF HeldBy
  <2>5. \A s \in Storage :
          \/ s \notin DueFlushes(n) /\ flush_lock'[s] = flush_lock[s]
          \/ ~flush_lock[s] /\ flush_lock'[s] /\ s \in DueFlushes(n)
    BY <1>1, <1>3, <1>4
  <2> QED
    BY <1>2, <2>1, <2>4, <2>5, OwnerChanges
<1> QED
  BY <1>5, <1>6

LEMMA FlushStepOwned ==
  ASSUME TypeOK, RunShapes, LocksOwned, NEW r \in Run, NEW s \in Storage, FlushStep(r, s)
  PROVE  LocksOwned'
<1>1. CASE UNCHANGED <<runs, flush_lock>>
  BY <1>1, SameTasksOwned
<1>2. CASE s \in DOMAIN runs[r].flushes /\ Unlock(r, s)
  <2> DEFINE left == DOMAIN runs[r].flushes \ {s}
  <2>1. /\ RunOK(runs[r]) /\ DOMAIN runs[r].updates = {} /\ DOMAIN runs[r].flushes \subseteq Storage
    BY <1>2, RunFields DEF RunShapes, RunShape, PartialFunction
  <2>2. HeldBy(runs[r]) = DOMAIN runs[r].flushes
    BY <2>1 DEF HeldBy
  <2>3. /\ flush_lock \in [Storage -> BOOLEAN]
        /\ flush_lock' = [flush_lock EXCEPT ![s] = FALSE]
    BY <1>2 DEF Unlock, TypeOK
  <2>4. PICK run : runs' = [runs EXCEPT ![r] = run] /\ HeldBy(run) = left
    <3>1. CASE left = {}
      BY <1>2, <3>1, IdleHolds DEF Unlock
    <3>2. CASE left # {}
      <4> DEFINE flushes == [t \in left |-> runs[r].flushes[t]]
                 run == [runs[r] EXCEPT !.flushes = flushes]
      <4>1. runs' = [runs EXCEPT ![r] = run]
        BY <1>2, <3>2 DEF Unlock, TypeOK
      <4>2. DOMAIN flushes = left
        OBVIOUS
      <4> HIDE DEF flushes
      <4>3. run.flushes = flushes /\ run.updates = runs[r].updates
        BY <2>1 DEF RunOK
      <4> HIDE DEF run
      <4>4. HeldBy(run) = left
        BY <2>1, <4>2, <4>3 DEF HeldBy
      <4> QED
        BY <4>1, <4>4
    <3> QED
      BY <3>1, <3>2
  <2>5. \A t \in Storage : t # s => flush_lock'[t] = flush_lock[t] /\ (t \in left <=> t \in HeldBy(runs[r]))
    BY <2>2, <2>3
  <2>6. s \in HeldBy(runs[r]) /\ ~flush_lock'[s] /\ s \notin left
    BY <1>2, <2>2, <2>3
  <2> HIDE DEF left
  <2>7. \A t \in Storage :
          \/ (t \in HeldBy(run) <=> t \in HeldBy(runs[r])) /\ flush_lock'[t] = flush_lock[t]
          \/ t \in HeldBy(runs[r]) /\ ~flush_lock'[t] /\ t \notin HeldBy(run)
    BY <2>4, <2>5, <2>6
  <2>8. runs' = [runs EXCEPT ![r] = run]
    BY <2>4
  <2> QED
    BY <2>7, <2>8, OwnerChanges
<1> QED
  BY <1>1, <1>2 DEF FlushStep, FlushLogs, FlushEnds, FlushStops

LEMMA CalleeOwned ==
  ASSUME TypeOK, LocksOwned, NEW r \in Run, Callee(r)
  PROVE  LocksOwned'
<1>1. UNCHANGED flush_lock
  BY DEF Callee, Transfer, BadFee, TransferFails, CmUpdateLog, UpdateFails
<1>2. RunOK(runs[r]) /\ DOMAIN runs = Run
  BY DEF TypeOK
<1>3. \A q \in Run : /\ DOMAIN runs'[q].updates = DOMAIN runs[q].updates
                     /\ DOMAIN runs'[q].flushes = DOMAIN runs[q].flushes
  <2>1. ASSUME NEW o, NEW st, runs' = [runs EXCEPT ![r].payouts[o] = st]
        PROVE  runs'[r].updates = runs[r].updates /\ runs'[r].flushes = runs[r].flushes
    BY <1>2, <2>1 DEF RunOK
  <2>2. ASSUME NEW u \in DOMAIN runs[r].updates, NEW at,
               runs' = [runs EXCEPT ![r].updates[u].at = at]
        PROVE  /\ DOMAIN runs'[r].updates = DOMAIN runs[r].updates
               /\ runs'[r].flushes = runs[r].flushes
    BY <1>2, <2>2 DEF RunOK
  <2>3. ASSUME NEW o, NEW pd, NEW fee, Answer(r, o, pd, fee)
        PROVE  \E st : runs' = [runs EXCEPT ![r].payouts[o] = st]
    BY <2>3 DEF Answer, TypeOK
  <2>4. \A q \in Run : q # r => runs'[q] = runs[q]
    BY <1>2 DEF Callee, Transfer, BadFee, TransferFails, Answer, CmUpdateLog, UpdateFails
  <2>5. \/ \E o, pd, fee : Answer(r, o, pd, fee)
        \/ \E u \in DOMAIN runs[r].updates : \E at : runs' = [runs EXCEPT ![r].updates[u].at = at]
    BY Zenon DEF Callee, Transfer, BadFee, TransferFails, CmUpdateLog, UpdateFails
  <2>6. /\ DOMAIN runs'[r].updates = DOMAIN runs[r].updates
        /\ DOMAIN runs'[r].flushes = DOMAIN runs[r].flushes
    BY <2>1, <2>2, <2>3, <2>5
  <2> QED
    BY <2>4, <2>6
<1> QED
  BY <1>1, <1>3, SameTasksOwned

(* No step gives a flush lock to two executions.                           *)
LEMMA NextOwned ==
  ASSUME TypeOK, RunShapes, LocksOwned, [Next]_vars
  PROVE  LocksOwned'
<1>1. CASE UNCHANGED <<runs, flush_lock>>
  BY <1>1, SameTasksOwned
<1>2. ASSUME NEW r \in Run, TimerFires(r) \/ SelfCallFails(r) PROVE LocksOwned'
  <2>1. UNCHANGED flush_lock /\ HeldBy(runs[r]) = {}
    BY <1>2 DEF TimerFires, SelfCallFails, RunShapes, RunShape, HeldBy
  <2>2. \/ UNCHANGED runs
        \/ runs' = [runs EXCEPT ![r] = Idle]
        \/ runs' = [runs EXCEPT ![r] = [Idle EXCEPT !.pc = "called", !.driven = TRUE]]
    BY <1>2 DEF TimerFires, SelfCallFails
  <2> QED
    BY <1>1, <2>1, <2>2, IdleHolds, OwnerChanges
<1>3. ASSUME NEW r \in Run, Canister(r) PROVE LocksOwned'
  BY <1>2, <1>3, StartRunOwned, RepliesOwned, ResumeOwned, FlushStepOwned DEF Canister, FlushStep
<1> QED
  BY <1>1, <1>3, CalleeOwned, ZenonT(60)
     DEF Next, Market, Trade, CreateAndMatch, VoidPosition, MarketError, LedgerFeeChanges, Upgrade, vars

LEMMA OwnedExclusive ==
  ASSUME RunShapes, LocksOwned
  PROVE  FlushLockExclusive
<1>1. \A r \in Run, s \in Storage : Holds(r, s) <=> s \in Held[r]
  BY DEF Holds, Flushing, Updating, Held, HeldBy
<1>2. \A r \in Run, s \in Storage : ~(Flushing(r, s) /\ Updating(r))
  BY DEF Flushing, Updating, RunShapes, RunShape
<1>3. /\ \A s \in Storage : flush_lock[s] <=> \E r \in Run : s \in Held[r]
      /\ \A s \in Storage, q, r \in Run : s \in Held[q] /\ s \in Held[r] => q = r
  BY DEF LocksOwned, Owned
<1> QED
  BY <1>1, <1>2, <1>3 DEF FlushLockExclusive

----------------------------------------------------------------------------
(* The records *)

(* A recorded payout is what the ledger did with the net amount.           *)
Matches(pd, blocks, net) ==
  IF pd.did_transfer
  THEN /\ net > pd.ledger_transfer_fee
       /\ blocks = <<[amount |-> net - pd.ledger_transfer_fee, fee |-> pd.ledger_transfer_fee]>>
  ELSE net <= pd.ledger_transfer_fee /\ blocks = <<>>

(* A payout in progress asks for the net amount less a fee, and knows what *)
(* the ledger did if it knows anything.                                    *)
TaskMatches(st, blocks, net) ==
  /\ st.at = "sent" => st.fee < net /\ st.amount = net - st.fee
  /\ st.payout # None => Matches(st.payout, blocks, net)

(* What the contract has of an obligation.                                 *)
VoidEntry(vp) == [net |-> vp.quantity, payout |-> vp.payout_data]
TradeEntry(tl, k) == [net |-> SatSub(tl.mount[k], tl.cts_fee[k]), payout |-> tl.payout_data[k]]
Entries(vps, tls, o) ==
  IF o.op = "void" THEN {VoidEntry(vps[o.kind][i]) : i \in DOMAIN vps[o.kind] \cap {o.id}}
  ELSE {TradeEntry(tls[i], o.kind) : i \in {j \in 1 .. Len(tls) : tls[j].id = o.id}}

(* The entries the contract keeps and the payouts in progress agree with   *)
(* the blocks of the ledger.                                               *)
BooksMatch(vps, tls, paid, pays) ==
  /\ \A o \in Obligation : \A e \in Entries(vps, tls, o) :
       e.payout # None => Matches(e.payout, paid[o], e.net)
  /\ \A r \in Run : \A o \in DOMAIN pays[r] : \A e \in Entries(vps, tls, o) :
       TaskMatches(pays[r][o], paid[o], e.net)

(* So do the trade logs handed to the storage.                             *)
StoredMatch(tls, paid) ==
  \A i \in 1 .. Len(tls), k \in Kind :
    LET e == TradeEntry(tls[i], k)
    IN e.payout # None => Matches(e.payout, paid[TradeObligation(k, tls[i].id)], e.net)

RecordInv ==
  /\ BooksMatch(void_positions, trade_logs, transfers, Pays)
  /\ StoredMatch(trades_stored, transfers)

(* Entries stay or are new, and payouts go on or stay.                     *)
LEMMA CarryMatch ==
  ASSUME NEW vps, NEW tls, NEW vps2, NEW tls2, NEW paid, NEW pays, NEW pays2,
         BooksMatch(vps, tls, paid, pays),
         \A r \in Run : DOMAIN pays2[r] \subseteq Obligation,
         \A r \in Run : \A o \in DOMAIN pays2[r] :
           /\ o \in DOMAIN pays[r] /\ pays2[r][o].payout = pays[r][o].payout
           /\ pays2[r][o].at = "sent" => pays2[r][o] = pays[r][o],
         \A o \in Obligation : \A e \in Entries(vps2, tls2, o) :
           \/ e \in Entries(vps, tls, o)
           \/ e.payout = None /\ \A r \in Run : o \notin DOMAIN pays2[r]
  PROVE  BooksMatch(vps2, tls2, paid, pays2)
<1>1. ASSUME NEW o \in Obligation, NEW e \in Entries(vps2, tls2, o), e.payout # None
      PROVE  Matches(e.payout, paid[o], e.net)
  BY <1>1 DEF BooksMatch
<1>2. ASSUME NEW r \in Run, NEW o \in DOMAIN pays2[r], NEW e \in Entries(vps2, tls2, o)
      PROVE  TaskMatches(pays2[r][o], paid[o], e.net)
  <2>1. /\ o \in DOMAIN pays[r] /\ pays2[r][o].payout = pays[r][o].payout
        /\ pays2[r][o].at = "sent" => pays2[r][o] = pays[r][o]
        /\ e \in Entries(vps, tls, o)
    BY DEF BooksMatch
  <2>2. TaskMatches(pays[r][o], paid[o], e.net)
    BY <2>1 DEF BooksMatch
  <2> QED
    BY <2>1, <2>2 DEF TaskMatches
<1> QED
  BY <1>1, <1>2 DEF BooksMatch

(* An execution records what it knows and is left without payouts.         *)
LEMMA SettleMatch ==
  ASSUME NEW vps, NEW tls, NEW vps2, NEW tls2, NEW paid, NEW pays, NEW pays2,
         BooksMatch(vps, tls, paid, pays), NEW r \in Run,
         DOMAIN pays2[r] = {}, \A q \in Run : q # r => pays2[q] = pays[q],
         \A q \in Run : DOMAIN pays[q] \subseteq Obligation,
         \A o \in Obligation : \A e2 \in Entries(vps2, tls2, o) :
           \E e \in Entries(vps, tls, o) :
             /\ e2.net = e.net
             /\ e2.payout = IF o \in DOMAIN pays[r] THEN pays[r][o].payout ELSE e.payout
  PROVE  BooksMatch(vps2, tls2, paid, pays2)
<1>1. ASSUME NEW o \in Obligation, NEW e2 \in Entries(vps2, tls2, o), e2.payout # None
      PROVE  Matches(e2.payout, paid[o], e2.net)
  <2>1. PICK e \in Entries(vps, tls, o) :
          /\ e2.net = e.net
          /\ e2.payout = IF o \in DOMAIN pays[r] THEN pays[r][o].payout ELSE e.payout
    OBVIOUS
  <2>2. CASE o \in DOMAIN pays[r]
    <3>1. TaskMatches(pays[r][o], paid[o], e.net)
      BY <2>2 DEF BooksMatch
    <3> QED
      BY <1>1, <2>1, <2>2, <3>1 DEF TaskMatches
  <2>3. CASE o \notin DOMAIN pays[r]
    BY <1>1, <2>1, <2>3 DEF BooksMatch
  <2> QED
    BY <2>2, <2>3
<1>2. ASSUME NEW q \in Run, NEW o \in DOMAIN pays2[q], NEW e2 \in Entries(vps2, tls2, o)
      PROVE  TaskMatches(pays2[q][o], paid[o], e2.net)
  <2>1. o \in DOMAIN pays[q] /\ pays2[q][o] = pays[q][o] /\ o \in Obligation
    OBVIOUS
  <2>2. PICK e \in Entries(vps, tls, o) : e2.net = e.net
    BY <2>1
  <2> QED
    BY <2>1, <2>2 DEF BooksMatch
<1> QED
  BY <1>1, <1>2 DEF BooksMatch

LEMMA VoidEntries ==
  ASSUME NEW vps, NEW tls, NEW o \in Obligation, o.op = "void", NEW e
  PROVE  e \in Entries(vps, tls, o) <=>
           o.id \in DOMAIN vps[o.kind] /\ e = VoidEntry(vps[o.kind][o.id])
BY DEF Entries

LEMMA TradeEntries ==
  ASSUME NEW vps, NEW tls, NEW o \in Obligation, o.op # "void", NEW e
  PROVE  e \in Entries(vps, tls, o) <=>
           \E i \in 1 .. Len(tls) : tls[i].id = o.id /\ e = TradeEntry(tls[i], o.kind)
BY DEF Entries

LEMMA ObligationForms ==
  ASSUME NEW o \in Obligation
  PROVE  /\ o.kind \in Kind
         /\ o.op = "void"  => o = VoidObligation(o.kind, o.id) /\ o.id \in PositionId
         /\ o.op # "void" => o = TradeObligation(o.kind, o.id) /\ o.id \in PurchaseId
BY DEF Obligation, VoidObligation, TradeObligation

LEMMA SettledVoidQuantity ==
  ASSUME NEW vp \in VoidPositionType, NEW o, NEW u, NEW payouts, NEW updates
  PROVE  SettledVoid(vp, o, u, payouts, updates).quantity = vp.quantity
BY DEF SettledVoid, PaidVoid, VoidPositionType

LEMMA SettledEntries ==
  ASSUME NEW vps, VoidsOK(vps), NEW tls \in Seq(TradeLogType), NEW payouts, NEW updates,
         NEW o \in Obligation,
         NEW e2 \in Entries(SettledBook(vps, payouts, updates), SettledTrades(tls, payouts), o)
  PROVE  \E e \in Entries(vps, tls, o) :
           /\ e2.net = e.net
           /\ e2.payout = IF o \in DOMAIN payouts THEN payouts[o].payout ELSE e.payout
<1> DEFINE vps2 == SettledBook(vps, payouts, updates)
           tls2 == SettledTrades(tls, payouts)
           k    == o.kind
<1>1. k \in Kind
  BY ObligationForms
<1>2. CASE o.op = "void"
  <2>1. /\ o.id \in DOMAIN vps2[k] /\ e2 = VoidEntry(vps2[k][o.id])
        /\ o = VoidObligation(k, o.id)
    BY <1>2, VoidEntries, ObligationForms
  <2>2. vps2[k] = SettledVoids(k, vps[k], payouts, updates)
    BY <1>1 DEF SettledBook
  <2>3. PartialFunction(vps[k], PositionId, VoidPositionType)
    BY <1>1 DEF VoidsOK
  <2>4. /\ o.id \in DOMAIN vps[k] /\ vps[k][o.id] \in VoidPositionType
        /\ vps2[k][o.id].payout_data =
             IF o \in DOMAIN payouts THEN payouts[o].payout ELSE vps[k][o.id].payout_data
    BY <1>1, <2>1, <2>2, <2>3, SettledVoidsFacts DEF PartialFunction
  <2>5. vps2[k][o.id].quantity = vps[k][o.id].quantity
    <3>1. vps2[k][o.id] = SettledVoid(vps[k][o.id], VoidObligation(k, o.id), VoidUpdate(k, o.id),
                                      payouts, updates)
      BY <2>1, <2>2 DEF SettledVoids
    <3> QED
      BY <2>4, <3>1, SettledVoidQuantity
  <2>6. VoidEntry(vps[k][o.id]) \in Entries(vps, tls, o)
    BY <1>2, <2>4, VoidEntries
  <2> QED
    BY <2>1, <2>4, <2>5, <2>6 DEF VoidEntry
<1>3. CASE o.op # "void"
  <2>1. /\ o = TradeObligation(k, o.id)
        /\ \E i \in 1 .. Len(tls2) : tls2[i].id = o.id /\ e2 = TradeEntry(tls2[i], k)
    BY <1>3, TradeEntries, ObligationForms
  <2>2. Len(tls2) = Len(tls) /\ \A i \in 1 .. Len(tls) : tls2[i].id = tls[i].id
    BY SettledTradesFacts
  <2>3. PICK i \in 1 .. Len(tls) : tls[i].id = o.id /\ e2 = TradeEntry(tls2[i], k)
    BY <2>1, <2>2
  <2>4. tls2[i].payout_data[k] =
          IF o \in DOMAIN payouts THEN payouts[o].payout ELSE tls[i].payout_data[k]
    BY <1>1, <2>1, <2>3, SettledTradesFacts
  <2>5. tls2[i].mount = tls[i].mount /\ tls2[i].cts_fee = tls[i].cts_fee
    <3>1. tls2[i] = SettledTrade(tls[i], payouts) /\ tls[i] \in TradeLogType
      BY DEF SettledTrades
    <3> QED
      BY <3>1 DEF SettledTrade, TradeLogType
  <2>6. TradeEntry(tls[i], k) \in Entries(vps, tls, o)
    BY <1>3, <2>3, TradeEntries
  <2> QED
    BY <2>3, <2>4, <2>5, <2>6 DEF TradeEntry
<1> QED
  BY <1>2, <1>3

(* Locking changes nothing that is paid or recorded.                       *)
LEMMA LockedEntries ==
  ASSUME TypeOK, NEW o \in Obligation
  PROVE  Entries(LockedVoids, LockedTrades, o) = Entries(void_positions, trade_logs, o)
<1>1. o.kind \in Kind
  BY ObligationForms
<1>2. CASE o.op = "void"
  <2>1. \A i \in DOMAIN void_positions[o.kind] : void_positions[o.kind][i] \in VoidPositionType
    BY <1>1 DEF TypeOK, PartialFunction
  <2>2. /\ DOMAIN LockedVoids[o.kind] = DOMAIN void_positions[o.kind]
        /\ \A i \in DOMAIN void_positions[o.kind] :
             VoidEntry(LockedVoids[o.kind][i]) = VoidEntry(void_positions[o.kind][i])
    BY <1>1, <2>1 DEF LockedVoids, VoidEntry, VoidPositionType
  <2> QED
    BY <1>2, <2>2 DEF Entries
<1>3. CASE o.op # "void"
  <2>1. \A i \in 1 .. Len(trade_logs) : trade_logs[i] \in TradeLogType
    BY DEF TypeOK
  <2>2. /\ Len(LockedTrades) = Len(trade_logs)
        /\ \A i \in 1 .. Len(trade_logs) :
             /\ LockedTrades[i].id = trade_logs[i].id
             /\ TradeEntry(LockedTrades[i], o.kind) = TradeEntry(trade_logs[i], o.kind)
    BY <2>1, LockedTradesType DEF LockedTrades, TradeEntry, TradeLogType
  <2> QED
    BY <1>3, <2>2 DEF Entries
<1> QED
  BY <1>2, <1>3

LEMMA PaysDomain ==
  ASSUME TypeOK, NEW r \in Run
  PROVE  DOMAIN runs[r].payouts \subseteq Obligation /\ DOMAIN Pays[r] \subseteq Obligation
BY RunFields DEF PartialFunction, Pays

LEMMA PolledMatch ==
  ASSUME TypeOK, NEW r \in Run, NEW vps, VoidsOK(vps), NEW tls \in Seq(TradeLogType),
         NEW lock, NEW payouts, DOMAIN payouts \subseteq Obligation, NEW updates,
         NEW pays, pays[r] = payouts, \A q \in Run : q # r => pays[q] = runs[q].payouts,
         BooksMatch(vps, tls, transfers, pays),
         Polled(r, vps, tls, lock, payouts, updates), UNCHANGED transfers
  PROVE  BooksMatch(void_positions, trade_logs, transfers, Pays)'
<1>1. \A q \in Run : q # r => Pays'[q] = pays[q]
  BY DEF Polled, Pays, TypeOK
<1>2. \A q \in Run : DOMAIN pays[q] \subseteq Obligation
  BY PaysDomain
<1>3. CASE AllReady(payouts, updates)
  <2>1. /\ void_positions' = SettledBook(vps, payouts, updates)
        /\ trade_logs' = SettledTrades(tls, payouts)
        /\ runs' = [runs EXCEPT ![r] = IF @.driven
                      THEN [Idle EXCEPT !.pc = "replied", !.driven = TRUE] ELSE Idle]
    BY <1>3 DEF Polled, SettledBook
  <2>2. DOMAIN Pays'[r] = {}
    BY <2>1 DEF Pays, TypeOK, Idle, NoTasks
  <2>3. \A o \in Obligation : \A e2 \in Entries(void_positions', trade_logs', o) :
          \E e \in Entries(vps, tls, o) :
            /\ e2.net = e.net
            /\ e2.payout = IF o \in DOMAIN pays[r] THEN pays[r][o].payout ELSE e.payout
    BY <2>1, SettledEntries
  <2>4. BooksMatch(void_positions', trade_logs', transfers, Pays')
    BY <1>1, <1>2, <2>2, <2>3, SettleMatch
  <2> QED
    BY <2>4
<1>4. CASE ~AllReady(payouts, updates)
  <2>1. /\ void_positions' = vps
        /\ trade_logs' = tls
        /\ runs' = [runs EXCEPT ![r] = [@ EXCEPT !.pc = "paying", !.payouts = payouts,
                                                 !.updates = updates]]
    BY <1>4 DEF Polled
  <2>2. Pays'[r] = pays[r]
    BY <2>1, RunFields DEF Pays, TypeOK, RunOK
  <2>3. \A q \in Run : Pays'[q] = pays[q]
    BY <1>1, <2>2
  <2>4. BooksMatch(void_positions', trade_logs', transfers, Pays')
    BY <2>1, <2>3 DEF BooksMatch
  <2> QED
    BY <2>4
<1> QED
  BY <1>3, <1>4

(* The net amount of what an execution takes, and that nothing was paid.   *)
LEMMA TakenNet ==
  ASSUME TypeOK, TradesStoredInOrder, LocksConsistent, NEW o \in TakenPayouts,
         NEW e \in Entries(void_positions, trade_logs, o)
  PROVE  Net(o) = e.net /\ transfers[o] = <<>>
<1>1. o \in Obligation /\ o.kind \in Kind
  BY ObligationForms DEF TakenPayouts
<1>2. transfers[o] = <<>>
  <2>1. /\ o \in OwedOnes(void_positions, trade_logs)
        /\ o \notin LockedOnes(void_positions, trade_logs)
    BY TakenOnes
  <2> QED
    BY <2>1 DEF LocksConsistent, Consistent
<1>3. CASE o.op = "void"
  <2>1. e = VoidEntry(void_positions[o.kind][o.id]) /\ o.id \in DOMAIN void_positions[o.kind]
    BY <1>1, <1>3, VoidEntries
  <2>2. void_positions[o.kind][o.id].quantity \in Nat
    BY <1>1, <2>1 DEF TypeOK, PartialFunction, VoidPositionType
  <2> QED
    BY <1>2, <1>3, <2>1, <2>2 DEF Net, Mount, CtsFee, SatSub, VoidEntry
<1>4. CASE o.op # "void"
  <2>1. PICK i \in 1 .. Len(trade_logs) :
          trade_logs[i].id = o.id /\ e = TradeEntry(trade_logs[i], o.kind)
    BY <1>1, <1>4, TradeEntries
  <2>2. TradeIndex(trade_logs, o.id) = i
    BY <2>1, DistinctIds DEF TradeIndex, NumberedApart
  <2> QED
    BY <1>2, <1>4, <2>1, <2>2 DEF Net, Mount, CtsFee, TradeEntry
<1> QED
  BY <1>3, <1>4

LEMMA StartMatches ==
  ASSUME TypeOK, NEW o \in TakenPayouts
  PROVE  TaskMatches(StartPayout(o), <<>>, Net(o))
<1> DEFINE f == cached_fee[o.kind]
           net == Net(o)
<1>1. f \in Nat /\ net \in Nat
  BY NetNat, ObligationForms DEF TypeOK, TakenPayouts
<1>2. CASE f >= net
  <2>1. StartPayout(o).at = "done"
        /\ StartPayout(o).payout = [did_transfer |-> FALSE, ledger_transfer_fee |-> f]
    BY <1>2 DEF StartPayout, Dust, Sent
  <2> HIDE DEF f, net
  <2> QED
    BY <1>1, <1>2, <2>1 DEF TaskMatches, Matches, net
<1>3. CASE ~(f >= net)
  <2>1. /\ StartPayout(o).payout = None /\ StartPayout(o).fee = f
        /\ StartPayout(o).amount = SatSub(net, f)
    BY <1>3 DEF StartPayout, Sent
  <2>2. SatSub(net, f) = net - f /\ f < net
    BY <1>1, <1>3 DEF SatSub
  <2> QED
    BY <2>1, <2>2 DEF TaskMatches
<1> QED
  BY <1>2, <1>3

LEMMA StartRunMatch ==
  ASSUME LockInv, RecordInv, NEW r \in Run, StartRun(r)
  PROVE  BooksMatch(void_positions, trade_logs, transfers, Pays)'
<1> USE DEF LockInv
<1> DEFINE payouts == [o \in TakenPayouts |-> StartPayout(o)]
           updates == [u \in TakenUpdates |-> StartUpdate(u)]
           lock    == flush_lock["positions"] \/ TakenUpdates # {}
           pays    == [q \in Run |-> IF q = r THEN payouts ELSE Pays[q]]
<1>1. Polled(r, LockedVoids, LockedTrades, lock, payouts, updates) /\ UNCHANGED transfers
  BY DEF StartRun
<1>2. DOMAIN payouts = TakenPayouts /\ TakenPayouts \subseteq Obligation
  BY DEF TakenPayouts
<1>3. \A o \in DOMAIN payouts : payouts[o] = StartPayout(o)
  OBVIOUS
<1> HIDE DEF payouts, updates, lock
<1>4. /\ pays[r] = payouts
      /\ \A q \in Run : q # r => pays[q] = Pays[q]
      /\ \A q \in Run : q # r => pays[q] = runs[q].payouts
  BY DEF Pays
<1> HIDE DEF pays
<1>5. \A o \in Obligation :
        Entries(LockedVoids, LockedTrades, o) = Entries(void_positions, trade_logs, o)
  BY LockedEntries
<1>6. ASSUME NEW o \in DOMAIN payouts, NEW e \in Entries(LockedVoids, LockedTrades, o)
      PROVE  TaskMatches(payouts[o], transfers[o], e.net)
  <2>1. o \in TakenPayouts /\ e \in Entries(void_positions, trade_logs, o)
    BY <1>2, <1>5
  <2>2. Net(o) = e.net /\ transfers[o] = <<>>
    BY <2>1, TakenNet
  <2> QED
    BY <1>3, <2>1, <2>2, StartMatches
<1>7. BooksMatch(LockedVoids, LockedTrades, transfers, pays)
  <2>1. BooksMatch(void_positions, trade_logs, transfers, Pays)
    BY DEF RecordInv
  <2>2. \A q \in Run : DOMAIN Pays[q] \subseteq Obligation
    BY PaysDomain
  <2> QED
    BY <1>4, <1>5, <1>6, <2>1, <2>2 DEF BooksMatch
<1>8. VoidsOK(LockedVoids)
  BY LockedVoidsType DEF VoidsOK
<1>9. LockedTrades \in Seq(TradeLogType)
  BY LockedTradesType
<1> QED
  BY <1>1, <1>2, <1>4, <1>7, <1>8, <1>9, PolledMatch, ZenonT(60)

LEMMA ReplyMatch ==
  ASSUME TypeOK, RecordInv, NEW r \in Run,
         NEW payouts, DOMAIN payouts = DOMAIN runs[r].payouts,
         \A o \in DOMAIN payouts :
           /\ payouts[o].payout = runs[r].payouts[o].payout
           /\ payouts[o].at = "sent" => payouts[o] = runs[r].payouts[o],
         NEW updates, UNCHANGED transfers,
         Polled(r, void_positions, trade_logs, flush_lock["positions"], payouts, updates)
  PROVE  BooksMatch(void_positions, trade_logs, transfers, Pays)'
<1> DEFINE pays == [q \in Run |-> IF q = r THEN payouts ELSE Pays[q]]
<1>1. /\ pays[r] = payouts
      /\ \A q \in Run : q # r => pays[q] = runs[q].payouts
  BY DEF Pays
<1>2. \A q \in Run : \A o \in DOMAIN pays[q] :
        /\ o \in DOMAIN Pays[q] /\ pays[q][o].payout = Pays[q][o].payout
        /\ pays[q][o].at = "sent" => pays[q][o] = Pays[q][o]
  BY DEF Pays
<1>6. \A q \in Run : DOMAIN pays[q] \subseteq Obligation
  BY PaysDomain DEF Pays
<1> HIDE DEF pays
<1>3. BooksMatch(void_positions, trade_logs, transfers, pays)
  BY <1>2, <1>6, CarryMatch DEF RecordInv
<1>4. VoidsOK(void_positions) /\ trade_logs \in Seq(TradeLogType)
  BY DEF TypeOK, VoidsOK
<1>5. DOMAIN payouts \subseteq Obligation
  BY PaysDomain
<1> QED
  BY <1>1, <1>3, <1>4, <1>5, PolledMatch, ZenonT(60)

LEMMA RepliesMatch ==
  ASSUME TypeOK, RecordInv, NEW r \in Run,
         \/ \E o \in DOMAIN runs[r].payouts : PayoutReply(r, o)
         \/ \E u \in DOMAIN runs[r].updates : UpdateReply(r, u)
  PROVE  BooksMatch(void_positions, trade_logs, transfers, Pays)'
<1> DEFINE Goal == BooksMatch(void_positions, trade_logs, transfers, Pays)'
<1>1. ASSUME NEW o \in DOMAIN runs[r].payouts, PayoutReply(r, o) PROVE Goal
  <2> DEFINE payouts == [runs[r].payouts EXCEPT ![o].at = "done"]
  <2>1. /\ UNCHANGED transfers
        /\ Polled(r, void_positions, trade_logs, flush_lock["positions"], payouts, runs[r].updates)
    BY <1>1 DEF PayoutReply
  <2>2. DOMAIN payouts = DOMAIN runs[r].payouts
    OBVIOUS
  <2>3. ASSUME NEW p \in DOMAIN payouts
        PROVE  /\ payouts[p].payout = runs[r].payouts[p].payout
               /\ payouts[p].at = "sent" => payouts[p] = runs[r].payouts[p]
    <3>1. runs[r].payouts[p] \in PayoutStatus
      BY RunFields DEF PartialFunction
    <3> QED
      BY <3>1 DEF PayoutStatus
  <2> HIDE DEF payouts
  <2> QED
    BY <2>1, <2>2, <2>3, ReplyMatch
<1>2. ASSUME NEW u \in DOMAIN runs[r].updates, UpdateReply(r, u) PROVE Goal
  <2> DEFINE updates == [runs[r].updates EXCEPT ![u].at = IF @ = "stored" THEN "ok" ELSE "err"]
  <2>1. /\ UNCHANGED transfers
        /\ Polled(r, void_positions, trade_logs, flush_lock["positions"], runs[r].payouts, updates)
    BY <1>2 DEF UpdateReply
  <2> HIDE DEF updates
  <2> QED
    BY <2>1, ReplyMatch
<1> QED
  BY <1>1, <1>2

LEMMA EntryNet ==
  ASSUME TypeOK, NEW o \in Obligation, NEW e \in Entries(void_positions, trade_logs, o)
  PROVE  e.net \in Nat
<1>1. o.kind \in Kind
  BY ObligationForms
<1>2. CASE o.op = "void"
  <2>1. e = VoidEntry(void_positions[o.kind][o.id]) /\ o.id \in DOMAIN void_positions[o.kind]
    BY <1>2, VoidEntries
  <2>2. void_positions[o.kind][o.id].quantity \in Nat
    BY <1>1, <2>1 DEF TypeOK, PartialFunction, VoidPositionType
  <2> QED
    BY <2>1, <2>2 DEF VoidEntry
<1>3. CASE o.op # "void"
  <2>1. PICK i \in 1 .. Len(trade_logs) : e = TradeEntry(trade_logs[i], o.kind)
    BY <1>3, TradeEntries
  <2>2. trade_logs[i].mount[o.kind] \in Nat /\ trade_logs[i].cts_fee[o.kind] \in Nat
    <3>1. trade_logs[i] \in TradeLogType
      BY DEF TypeOK
    <3> QED
      BY <1>1, <3>1 DEF TradeLogType
  <2> QED
    BY <2>1, <2>2, SatSubNat DEF TradeEntry
<1> QED
  BY <1>2, <1>3

(* An execution learns what a ledger did.                                  *)
LEMMA LearnMatch ==
  ASSUME NEW vps, NEW tls, NEW paid, NEW paid2, NEW pays, NEW pays2,
         BooksMatch(vps, tls, paid, pays), NEW r \in Run, NEW o \in DOMAIN pays[r],
         \A q \in Run : DOMAIN pays[q] \subseteq Obligation,
         \A q \in Run : q # r => pays2[q] = pays[q] /\ o \notin DOMAIN pays[q],
         DOMAIN pays2[r] = DOMAIN pays[r],
         \A p \in DOMAIN pays[r] : p # o => pays2[r][p] = pays[r][p],
         \A p \in Obligation : p # o => paid2[p] = paid[p],
         \A e \in Entries(vps, tls, o) :
           e.payout = None /\ TaskMatches(pays2[r][o], paid2[o], e.net)
  PROVE  BooksMatch(vps, tls, paid2, pays2)
<1>1. ASSUME NEW p \in Obligation, NEW e \in Entries(vps, tls, p), e.payout # None
      PROVE  Matches(e.payout, paid2[p], e.net)
  <2>1. p # o /\ paid2[p] = paid[p]
    BY <1>1
  <2> QED
    BY <1>1, <2>1 DEF BooksMatch
<1>2. ASSUME NEW q \in Run, NEW p \in DOMAIN pays2[q], NEW e \in Entries(vps, tls, p)
      PROVE  TaskMatches(pays2[q][p], paid2[p], e.net)
  <2>1. CASE p = o
    BY <2>1
  <2>2. CASE p # o
    <3>1. p \in DOMAIN pays[q] /\ pays2[q][p] = pays[q][p] /\ paid2[p] = paid[p]
      BY <2>2
    <3> QED
      BY <3>1 DEF BooksMatch
  <2> QED
    BY <2>1, <2>2
<1> QED
  BY <1>1, <1>2 DEF BooksMatch

LEMMA OwedEntries ==
  ASSUME TypeOK, TradesStoredInOrder, NEW o \in OwedOnes(void_positions, trade_logs),
         NEW e \in Entries(void_positions, trade_logs, o)
  PROVE  e.payout = None
<1>1. o \in Obligation
  BY DEF OwedOnes
<1>2. CASE o.op = "void"
  BY <1>1, <1>2, VoidEntries DEF OwedOnes, VoidEntry
<1>3. CASE o.op # "void"
  <2>1. PICK i \in 1 .. Len(trade_logs) :
          trade_logs[i].id = o.id /\ e = TradeEntry(trade_logs[i], o.kind)
    BY <1>1, <1>3, TradeEntries
  <2>2. PICK j \in 1 .. Len(trade_logs) :
          trade_logs[j].id = o.id /\ trade_logs[j].payout_data[o.kind] = None
    BY <1>3 DEF OwedOnes
  <2>3. i = j
    BY <2>1, <2>2, DistinctIds DEF NumberedApart
  <2> QED
    BY <2>1, <2>2, <2>3 DEF TradeEntry
<1> QED
  BY <1>2, <1>3

(* A trade log in the storage is not one of the queue.                     *)
LEMMA StoredNotOwed ==
  ASSUME TypeOK, TradesStoredInOrder, NEW i \in 1 .. Len(trades_stored), NEW k \in Kind
  PROVE  LET o == TradeObligation(k, trades_stored[i].id)
         IN o \in Obligation /\ o \notin OwedOnes(void_positions, trade_logs)
<1> DEFINE o == TradeObligation(k, trades_stored[i].id)
<1>1. /\ Len(trades_stored) \in Nat /\ Len(trade_logs) \in Nat /\ MaxTrades \in Nat
      /\ trade_logs_id_counter \in 0 .. MaxTrades
      /\ trade_logs_id_counter = Len(trades_stored) + Len(trade_logs)
      /\ trades_stored[i].id = i - 1
  BY PayoutsAssumption DEF TypeOK, TradesStoredInOrder
<1>2. o.op = "trade" /\ o.id = i - 1 /\ o.kind = k
  BY <1>1 DEF TradeObligation
<1>3. o \in Obligation
  <2>1. i - 1 \in PurchaseId
    BY <1>1 DEF PurchaseId
  <2> QED
    BY <1>1, <2>1 DEF TradeObligation, Obligation
<1>4. \A j \in 1 .. Len(trade_logs) : trade_logs[j].id # i - 1
  BY <1>1 DEF TradesStoredInOrder
<1> HIDE DEF o
<1>5. o \notin OwedOnes(void_positions, trade_logs)
  BY <1>2, <1>4 DEF OwedOnes
<1> QED
  BY <1>3, <1>5 DEF o

LEMMA AnswerStatus ==
  ASSUME TypeOK, NEW r \in Run, NEW o \in DOMAIN runs[r].payouts, NEW pd, NEW fee,
         Answer(r, o, pd, fee)
  PROVE  /\ \A q \in Run : q # r => Pays'[q] = Pays[q]
         /\ DOMAIN Pays'[r] = DOMAIN Pays[r]
         /\ \A p \in DOMAIN Pays[r] : p # o => Pays'[r][p] = Pays[r][p]
         /\ Pays'[r][o].at = "answered" /\ Pays'[r][o].payout = pd
<1> DEFINE st == [runs[r].payouts[o] EXCEPT !.at = "answered", !.payout = pd, !.expected_fee = fee]
<1>1. st.payout = pd /\ st.at = "answered"
  BY RunFields DEF PartialFunction, PayoutStatus
<1>2. runs' = [runs EXCEPT ![r] = [runs[r] EXCEPT !.payouts = [runs[r].payouts EXCEPT ![o] = st]]]
  BY DEF Answer, TypeOK
<1> HIDE DEF st
<1>3. /\ \A q \in Run : q # r => runs'[q] = runs[q]
      /\ runs'[r].payouts = [runs[r].payouts EXCEPT ![o] = st]
  BY <1>2, RunFields DEF TypeOK, RunOK
<1> QED
  BY <1>1, <1>3 DEF Pays

LEMMA AnswerMatch ==
  ASSUME LockInv, RecordInv, NEW r \in Run, NEW o \in DOMAIN runs[r].payouts,
         Transfer(r, o) \/ BadFee(r, o) \/ TransferFails(r, o)
  PROVE  RecordInv'
<1> USE DEF LockInv
<1> DEFINE st == runs[r].payouts[o]
<1>1. /\ UNCHANGED <<void_positions, trade_logs, trades_stored>>
      /\ st.at = "sent" /\ st.payout = None
  BY DEF Transfer, BadFee, TransferFails, owedVars, storageVars, RunShapes, RunShape
<1>2. st \in PayoutStatus /\ o \in Obligation /\ o \in DOMAIN Pays[r] /\ Pays[r][o] = st
  BY RunFields DEF PartialFunction, Pays
<1>3. /\ o \in OwedOnes(void_positions, trade_logs) /\ transfers[o] = <<>>
      /\ \A q \in Run : q # r => o \notin DOMAIN Pays[q]
  <2>1. /\ \A q \in Run : DOMAIN Pays[q] \subseteq OwedOnes(void_positions, trade_logs)
        /\ \A p, q \in Run : p # q => DOMAIN Pays[p] \cap DOMAIN Pays[q] = {}
    BY DEF LocksConsistent, Consistent
  <2>2. transfers[o] = <<>>
    BY <1>1, <1>2, NotPaidBefore DEF LocksConsistent
  <2> QED
    BY <1>2, <2>1, <2>2
<1>4. \A p \in Obligation : p # o => transfers'[p] = transfers[p]
  BY DEF Transfer, BadFee, TransferFails, TypeOK
<1>5. PICK pd, fee :
        /\ Answer(r, o, pd, fee)
        /\ \/ pd = None
           \/ /\ pd = [did_transfer |-> TRUE, ledger_transfer_fee |-> st.fee]
              /\ transfers' = [transfers EXCEPT ![o] = Append(@, [amount |-> st.amount, fee |-> st.fee])]
  <2>1. CASE Transfer(r, o)
    BY <2>1 DEF Transfer
  <2>2. CASE BadFee(r, o) \/ TransferFails(r, o)
    BY <2>2 DEF BadFee, TransferFails
  <2> QED
    BY <2>1, <2>2
<1>6. /\ \A q \in Run : q # r => Pays'[q] = Pays[q]
      /\ DOMAIN Pays'[r] = DOMAIN Pays[r]
      /\ \A p \in DOMAIN Pays[r] : p # o => Pays'[r][p] = Pays[r][p]
      /\ Pays'[r][o].at = "answered" /\ Pays'[r][o].payout = pd
  BY <1>5, AnswerStatus
<1> HIDE DEF st
<1>7. BooksMatch(void_positions, trade_logs, transfers, Pays)
  BY DEF RecordInv
<1>8. ASSUME NEW e \in Entries(void_positions, trade_logs, o)
      PROVE  e.payout = None /\ TaskMatches(Pays'[r][o], transfers'[o], e.net)
  <2>1. e.payout = None
    BY <1>3, OwedEntries
  <2>2. TaskMatches(st, transfers[o], e.net)
    BY <1>2, <1>7 DEF BooksMatch
  <2>3. st.fee < e.net /\ st.amount = e.net - st.fee
    BY <1>1, <2>2 DEF TaskMatches
  <2>4. CASE pd = None
    BY <1>6, <2>1, <2>4 DEF TaskMatches
  <2>5. CASE /\ pd = [did_transfer |-> TRUE, ledger_transfer_fee |-> st.fee]
             /\ transfers' = [transfers EXCEPT ![o] = Append(@, [amount |-> st.amount, fee |-> st.fee])]
    <3>1. transfers'[o] = <<[amount |-> e.net - st.fee, fee |-> st.fee]>>
      BY <1>2, <1>3, <2>3, <2>5 DEF TypeOK
    <3>2. pd.did_transfer /\ pd.ledger_transfer_fee = st.fee
      BY <2>5
    <3>3. e.net > st.fee
      <4>1. st.fee \in Nat
        BY <1>2 DEF PayoutStatus
      <4>2. e.net \in Nat
        BY <1>2, EntryNet
      <4> QED
        BY <2>3, <4>1, <4>2
    <3>4. Matches(pd, transfers'[o], e.net)
      BY <3>1, <3>2, <3>3 DEF Matches
    <3> QED
      BY <1>6, <2>1, <3>4 DEF TaskMatches
  <2> QED
    BY <1>5, <2>4, <2>5
<1>9. BooksMatch(void_positions, trade_logs, transfers', Pays')
  <2>1. \A q \in Run : DOMAIN Pays[q] \subseteq Obligation
    BY PaysDomain
  <2> QED
    BY <1>2, <1>3, <1>4, <1>6, <1>7, <1>8, <2>1, LearnMatch
<1>10. StoredMatch(trades_stored, transfers')
  <2>1. ASSUME NEW i \in 1 .. Len(trades_stored), NEW k \in Kind
        PROVE  transfers'[TradeObligation(k, trades_stored[i].id)]
                 = transfers[TradeObligation(k, trades_stored[i].id)]
    BY <1>3, <1>4, StoredNotOwed
  <2> QED
    BY <2>1 DEF StoredMatch, RecordInv
<1> QED
  BY <1>1, <1>9, <1>10 DEF RecordInv

LEMMA QueueObligation ==
  ASSUME TypeOK, TradesStoredInOrder, NEW j \in 1 .. Len(trade_logs), NEW k \in Kind
  PROVE  TradeObligation(k, trade_logs[j].id) \in Obligation
<1>1. /\ Len(trades_stored) \in Nat /\ Len(trade_logs) \in Nat /\ MaxTrades \in Nat
      /\ trade_logs_id_counter \in 0 .. MaxTrades
      /\ trade_logs_id_counter = Len(trades_stored) + Len(trade_logs)
      /\ trade_logs[j].id = Len(trades_stored) + j - 1
  BY PayoutsAssumption DEF TypeOK, TradesStoredInOrder
<1>2. trade_logs[j].id \in PurchaseId
  BY <1>1 DEF PurchaseId
<1> QED
  BY <1>2 DEF TradeObligation, Obligation

(* Nothing changes but executions that have no payouts.                    *)
LEMMA SameMatch ==
  ASSUME TypeOK, RecordInv, UNCHANGED <<transfers, void_positions, trade_logs, trades_stored>>,
         \A q \in Run : \/ DOMAIN runs'[q].payouts = {}
                        \/ runs'[q].payouts = runs[q].payouts
  PROVE  RecordInv'
<1>1. \A q \in Run : DOMAIN Pays'[q] = {} \/ Pays'[q] = Pays[q]
  BY DEF Pays
<1>2. \A q \in Run : DOMAIN Pays'[q] \subseteq Obligation
  BY <1>1, PaysDomain
<1>3. BooksMatch(void_positions, trade_logs, transfers, Pays')
  BY <1>1, <1>2, CarryMatch DEF RecordInv
<1> QED
  BY <1>3 DEF RecordInv

LEMMA CalleeMatch ==
  ASSUME LockInv, RecordInv, NEW r \in Run, Callee(r)
  PROVE  RecordInv'
<1>1. ASSUME NEW u \in DOMAIN runs[r].updates, CmUpdateLog(r, u) \/ UpdateFails(r, u)
      PROVE  RecordInv'
  <2>1. UNCHANGED <<transfers, void_positions, trade_logs, trades_stored>>
    BY <1>1 DEF CmUpdateLog, UpdateFails, owedVars, storageVars
  <2>2. PICK at : runs' = [runs EXCEPT ![r].updates[u].at = at]
    BY <1>1 DEF CmUpdateLog, UpdateFails
  <2>3. \A q \in Run : runs'[q].payouts = runs[q].payouts
    BY <2>2, RunFields DEF TypeOK, RunOK, LockInv
  <2> QED
    BY <2>1, <2>3, SameMatch DEF LockInv
<1> QED
  BY <1>1, AnswerMatch DEF Callee

(* Paid trade logs move from the queue to the storage with their records.  *)
LEMMA ResumeMatch ==
  ASSUME LockInv, RunShapes', RecordInv, NEW r \in Run, Resume(r)
  PROVE  RecordInv'
<1> USE DEF LockInv
<1>1. PICK n \in 0 .. Len(trade_logs) : trades_stored' = trades_stored \o SubSeq(trade_logs, 1, n)
  BY DEF Resume
<1>2. UNCHANGED <<transfers, void_positions>>
  BY DEF Resume
<1>3. \A q \in Run : DOMAIN Pays'[q] = {} \/ Pays'[q] = Pays[q]
  BY ResumeRuns DEF Pays
<1>4. ASSUME NEW o \in Obligation, NEW e \in Entries(void_positions', trade_logs', o)
      PROVE  e \in Entries(void_positions, trade_logs, o)
  <2>1. CASE o.op = "void"
    BY <1>2, <1>4, <2>1 DEF Entries
  <2>2. CASE o.op # "void"
    <3>1. PICK i \in 1 .. Len(trade_logs') :
            trade_logs'[i].id = o.id /\ e = TradeEntry(trade_logs'[i], o.kind)
      BY <1>4, <2>2, TradeEntries
    <3>2. PICK j \in 1 .. Len(trade_logs) : trade_logs'[i] = trade_logs[j]
      BY ResumeQueue
    <3> QED
      BY <2>2, <3>1, <3>2, TradeEntries
  <2> QED
    BY <2>1, <2>2
<1>5. BooksMatch(void_positions', trade_logs', transfers, Pays')
  <2>1. \A q \in Run : DOMAIN Pays'[q] \subseteq Obligation
    BY <1>3, PaysDomain
  <2> QED
    BY <1>3, <1>4, <2>1, CarryMatch DEF RecordInv
<1>6. ASSUME NEW i \in 1 .. Len(trades_stored')
      PROVE  \/ i \in 1 .. Len(trades_stored) /\ trades_stored'[i] = trades_stored[i]
             \/ \E j \in 1 .. Len(trade_logs) : trades_stored'[i] = trade_logs[j]
  <2>1. trades_stored \in Seq(TradeLogType) /\ trade_logs \in Seq(TradeLogType)
    BY DEF TypeOK
  <2>2. /\ SubSeq(trade_logs, 1, n) \in Seq(TradeLogType)
        /\ Len(SubSeq(trade_logs, 1, n)) = n
        /\ \A j \in 1 .. n : SubSeq(trade_logs, 1, n)[j] = trade_logs[j]
    BY <2>1
  <2>3. Len(trades_stored') = Len(trades_stored) + n
    BY <1>1, <2>1, <2>2
  <2>4. CASE i <= Len(trades_stored)
    BY <1>1, <2>1, <2>2, <2>3, <2>4
  <2>5. CASE i > Len(trades_stored)
    <3>1. i - Len(trades_stored) \in 1 .. n /\ n <= Len(trade_logs)
      BY <2>1, <2>3, <2>5
    <3>2. trades_stored'[i] = SubSeq(trade_logs, 1, n)[i - Len(trades_stored)]
      BY <1>1, <2>1, <2>2, <2>3, <2>5
    <3>3. i - Len(trades_stored) \in 1 .. Len(trade_logs)
      BY <2>1, <3>1
    <3> QED
      BY <2>2, <3>1, <3>2, <3>3
  <2> QED
    BY <2>1, <2>3, <2>4, <2>5
<1>7. ASSUME NEW i \in 1 .. Len(trades_stored'), NEW k \in Kind,
             TradeEntry(trades_stored'[i], k).payout # None
      PROVE  Matches(TradeEntry(trades_stored'[i], k).payout,
                     transfers[TradeObligation(k, trades_stored'[i].id)],
                     TradeEntry(trades_stored'[i], k).net)
  <2>1. CASE i \in 1 .. Len(trades_stored) /\ trades_stored'[i] = trades_stored[i]
    BY <1>7, <2>1 DEF RecordInv, StoredMatch
  <2>2. ASSUME NEW j \in 1 .. Len(trade_logs), trades_stored'[i] = trade_logs[j]
        PROVE  Matches(TradeEntry(trade_logs[j], k).payout,
                       transfers[TradeObligation(k, trade_logs[j].id)],
                       TradeEntry(trade_logs[j], k).net)
    <3>1. TradeObligation(k, trade_logs[j].id) \in Obligation
      BY QueueObligation
    <3>2. TradeEntry(trade_logs[j], k)
            \in Entries(void_positions, trade_logs, TradeObligation(k, trade_logs[j].id))
      BY <3>1, TradeEntries DEF TradeObligation
    <3> QED
      BY <1>7, <2>2, <3>1, <3>2 DEF RecordInv, BooksMatch
  <2> QED
    BY <1>6, <2>1, <2>2
<1> QED
  BY <1>2, <1>5, <1>7 DEF RecordInv, StoredMatch

(* What the market makes is new, unpaid, and no execution knows of it.     *)
LEMMA MarketMatch ==
  ASSUME LockInv, RecordInv, UNCHANGED <<transfers, runs, trades_stored>>,
         \A k \in Kind :
           /\ DOMAIN void_positions[k] \subseteq DOMAIN void_positions'[k]
           /\ \A i \in DOMAIN void_positions[k] : void_positions'[k][i] = void_positions[k][i]
           /\ \A i \in DOMAIN void_positions'[k] \ DOMAIN void_positions[k] :
                /\ void_positions'[k][i].payout_data = None
                /\ i \in positions[k] \/ i >= positions_id_counter,
         Len(trade_logs') \in Nat, Len(trade_logs) <= Len(trade_logs'),
         \A i \in 1 .. Len(trade_logs) : trade_logs'[i] = trade_logs[i],
         \A i \in 1 .. Len(trade_logs') \ 1 .. Len(trade_logs) :
           /\ \A k \in Kind : trade_logs'[i].payout_data[k] = None
           /\ trade_logs'[i].id >= trade_logs_id_counter
  PROVE  RecordInv'
<1> USE DEF LockInv
<1>1. ASSUME NEW o \in Obligation, Fresh(o), NEW r \in Run PROVE o \notin DOMAIN Pays[r]
  BY <1>1, OwedNotFresh DEF LocksConsistent, Consistent
<1>2. ASSUME NEW o \in Obligation, NEW e \in Entries(void_positions', trade_logs', o)
      PROVE  e \in Entries(void_positions, trade_logs, o) \/ (e.payout = None /\ Fresh(o))
  <2>1. o.kind \in Kind
    BY ObligationForms
  <2>2. CASE o.op = "void"
    <3>1. o.id \in DOMAIN void_positions'[o.kind] /\ e = VoidEntry(void_positions'[o.kind][o.id])
      BY <1>2, <2>2, VoidEntries
    <3>2. CASE o.id \in DOMAIN void_positions[o.kind]
      <4>1. e = VoidEntry(void_positions[o.kind][o.id])
        BY <2>1, <3>1, <3>2
      <4> QED
        BY <2>2, <3>2, <4>1, VoidEntries
    <3>3. CASE o.id \notin DOMAIN void_positions[o.kind]
      BY <2>1, <2>2, <3>1, <3>3 DEF Fresh, VoidEntry
    <3> QED
      BY <3>2, <3>3
  <2>3. CASE o.op # "void"
    <3>1. PICK i \in 1 .. Len(trade_logs') :
            trade_logs'[i].id = o.id /\ e = TradeEntry(trade_logs'[i], o.kind)
      BY <1>2, <2>3, TradeEntries
    <3>2. CASE i \in 1 .. Len(trade_logs)
      <4>1. trade_logs[i].id = o.id /\ e = TradeEntry(trade_logs[i], o.kind)
        BY <3>1, <3>2
      <4> QED
        BY <2>3, <3>2, <4>1, TradeEntries
    <3>3. CASE i \notin 1 .. Len(trade_logs)
      BY <2>1, <2>3, <3>1, <3>3 DEF Fresh, TradeEntry
    <3> QED
      BY <3>2, <3>3
  <2> QED
    BY <2>2, <2>3
<1>3. Pays' = Pays
  BY DEF Pays
<1>4. BooksMatch(void_positions', trade_logs', transfers, Pays)
  BY <1>1, <1>2, PaysDomain, CarryMatch DEF RecordInv
<1> QED
  BY <1>3, <1>4 DEF RecordInv

LEMMA VoidPositionMatch ==
  ASSUME LockInv, RecordInv, NEW k \in Kind, NEW id \in positions[k], VoidPosition(k, id)
  PROVE  RecordInv'
<1> USE DEF LockInv
<1>1. PICK q : void_positions' = [void_positions EXCEPT ![k] =
                 [i \in DOMAIN @ \cup {id} |-> IF i = id THEN NewVoidPosition(q) ELSE @[i]]]
  BY DEF VoidPosition
<1>2. id \notin DOMAIN void_positions[k]
  BY DEF BookIds
<1>3. NewVoidPosition(q).payout_data = None
  BY DEF NewVoidPosition
<1>4. \A j \in Kind :
        /\ DOMAIN void_positions[j] \subseteq DOMAIN void_positions'[j]
        /\ \A i \in DOMAIN void_positions[j] : void_positions'[j][i] = void_positions[j][i]
        /\ \A i \in DOMAIN void_positions'[j] \ DOMAIN void_positions[j] :
             /\ void_positions'[j][i].payout_data = None
             /\ i \in positions[j] \/ i >= positions_id_counter
  BY <1>1, <1>2, <1>3 DEF TypeOK
<1>5. UNCHANGED <<transfers, runs, trade_logs, trades_stored>> /\ Len(trade_logs) \in Nat
  BY DEF VoidPosition, TypeOK, storageVars
<1> QED
  BY <1>4, <1>5, MarketMatch

LEMMA CreateMatch ==
  ASSUME LockInv, RecordInv, NEW k \in Kind,
         NEW voided, voided \subseteq Matchees(k) \cup {positions_id_counter},
         NEW n \in Nat, NEW q, NEW sides, CreateAndMatch(k, voided, n, q, sides)
  PROVE  RecordInv'
<1> USE DEF LockInv
<1>1. \A i : NewVoidPosition(q[i]).payout_data = None
  BY DEF NewVoidPosition
<1>2. ASSUME NEW j \in Kind
      PROVE  /\ DOMAIN void_positions[j] \subseteq DOMAIN void_positions'[j]
             /\ \A i \in DOMAIN void_positions[j] : void_positions'[j][i] = void_positions[j][i]
             /\ \A i \in DOMAIN void_positions'[j] \ DOMAIN void_positions[j] :
                  /\ void_positions'[j][i].payout_data = None
                  /\ i \in positions[j] \/ i >= positions_id_counter
  <2> DEFINE new == MadeVoid(k, voided, j)
  <2>1. /\ DOMAIN void_positions'[j] = DOMAIN void_positions[j] \cup new
        /\ \A i \in DOMAIN void_positions[j] \ new : void_positions'[j][i] = void_positions[j][i]
        /\ \A i \in new : /\ i \in positions[j] \/ i = positions_id_counter
                          /\ i \notin DOMAIN void_positions[j]
                          /\ void_positions'[j][i] = NewVoidPosition(q[i])
    BY NewVoids
  <2>2. positions_id_counter \in Nat
    BY DEF TypeOK
  <2> HIDE DEF new
  <2> QED
    BY <1>1, <2>1, <2>2
<1>3. /\ Len(trade_logs') = Len(trade_logs) + n
      /\ \A i \in 1 .. Len(trade_logs) : trade_logs'[i] = trade_logs[i]
      /\ \A i \in 1 .. n :
           /\ trade_logs'[Len(trade_logs) + i].id = trade_logs_id_counter + i - 1
           /\ \A j \in Kind : trade_logs'[Len(trade_logs) + i].payout_data[j] = None
  BY CreateLogs
<1>4. \A i \in 1 .. n : trade_logs_id_counter + i - 1 >= trade_logs_id_counter
  BY DEF TypeOK
<1>5. Len(trade_logs) \in Nat /\ Len(trade_logs') \in Nat /\ Len(trade_logs) <= Len(trade_logs')
  BY <1>3 DEF TypeOK
<1>6. ASSUME NEW i \in 1 .. Len(trade_logs') \ 1 .. Len(trade_logs)
      PROVE  /\ \A j \in Kind : trade_logs'[i].payout_data[j] = None
             /\ trade_logs'[i].id >= trade_logs_id_counter
  <2>1. i - Len(trade_logs) \in 1 .. n /\ i = Len(trade_logs) + (i - Len(trade_logs))
    BY <1>3, <1>5
  <2> QED
    BY <1>3, <1>4, <2>1
<1>7. UNCHANGED <<transfers, runs, trades_stored>>
  BY DEF CreateAndMatch
<1> QED
  BY <1>2, <1>3, <1>5, <1>6, <1>7, MarketMatch

(* No step records what the ledger did not do.                             *)
LEMMA NextRecords ==
  ASSUME LockInv, RunShapes', RecordInv, [Next]_vars
  PROVE  RecordInv'
<1>1. CASE UNCHANGED <<transfers, owedVars, runs, trades_stored>>
  BY <1>1, SameMatch DEF owedVars, LockInv
<1>2. ASSUME NEW k \in Kind, Trade(k) PROVE RecordInv'
  <2>1. PICK voided \in SUBSET (Matchees(k) \cup {positions_id_counter}),
             n \in 0 .. Cardinality(Matchees(k)) :
          \E q \in [voided -> VoidQuantity], sides \in [1 .. n -> [Kind -> TradeSide]] :
            CreateAndMatch(k, voided, n, q, sides)
    BY <1>2 DEF Trade, Matchees
  <2>2. n \in Nat /\ voided \subseteq Matchees(k) \cup {positions_id_counter}
    OBVIOUS
  <2> QED
    BY <2>1, <2>2, CreateMatch
<1>3. ASSUME NEW r \in Run, StartRun(r) PROVE RecordInv'
  BY <1>3, StartRunMatch DEF StartRun, RecordInv
<1>4. ASSUME NEW r \in Run, \/ \E o \in DOMAIN runs[r].payouts : PayoutReply(r, o)
                            \/ \E u \in DOMAIN runs[r].updates : UpdateReply(r, u)
      PROVE  RecordInv'
  <2>1. UNCHANGED <<transfers, trades_stored>>
    BY <1>4 DEF PayoutReply, UpdateReply, storageVars
  <2>2. StoredMatch(trades_stored, transfers)'
    BY <2>1 DEF RecordInv
  <2> QED
    BY <1>4, <2>2, RepliesMatch DEF RecordInv, LockInv
<1>5. ASSUME NEW r \in Run,
             TimerFires(r) \/ SelfCallFails(r) \/ \E s \in Storage : FlushStep(r, s)
      PROVE  RecordInv'
  <2>1. UNCHANGED trades_stored
    BY <1>5 DEF TimerFires, SelfCallFails, FlushStep, FlushLogs, FlushEnds, FlushStops, Unlock,
                storageVars
  <2>2. /\ UNCHANGED <<transfers, owedVars>>
        /\ runs'[r].pc # "paying" /\ \A q \in Run : q # r => runs'[q] = runs[q]
    BY <1>5, QuietRuns DEF LockInv
  <2>3. DOMAIN runs'[r].payouts = {}
    BY <2>2 DEF RunShapes, RunShape
  <2> QED
    BY <2>1, <2>2, <2>3, SameMatch DEF LockInv, owedVars
<1>6. ASSUME NEW r \in Run, Canister(r) PROVE RecordInv'
  BY <1>3, <1>4, <1>5, <1>6, ResumeMatch DEF Canister, FlushStep
<1> QED
  BY <1>1, <1>2, <1>6, VoidPositionMatch, CalleeMatch
     DEF Next, Market, MarketError, LedgerFeeChanges, Upgrade, vars, owedVars, storageVars

LEMMA RecordsMatch ==
  ASSUME LockInv, RecordInv
  PROVE  PayoutsMatchLedger
<1> USE DEF LockInv
<1>1. ASSUME NEW o \in Obligation, NEW e \in Entries(void_positions, trade_logs, o),
             e.payout = None => o \in OwedOnes(void_positions, trade_logs)
      PROVE  RecordMatches(e.payout, o, e.net)
  <2>1. CASE e.payout = None
    <3>1. transfers[o] # <<>> => \E r \in Run : o \in DOMAIN Pays[r] /\ Pays[r][o].payout # None
      BY <1>1, <2>1 DEF LocksConsistent, Consistent
    <3>2. transfers[o] = <<>> \/ Answered(o)
      BY <3>1 DEF Answered, Pays
    <3> QED
      BY <2>1, <3>2 DEF RecordMatches
  <2>2. CASE e.payout # None
    <3>1. Matches(e.payout, transfers[o], e.net)
      BY <2>2 DEF RecordInv, BooksMatch
    <3> QED
      BY <2>2, <3>1 DEF RecordMatches, Matches
  <2> QED
    BY <2>1, <2>2
<1>2. ASSUME NEW k \in Kind, NEW i \in DOMAIN void_positions[k]
      PROVE  RecordMatches(void_positions[k][i].payout_data, VoidObligation(k, i),
                           void_positions[k][i].quantity)
  <2> DEFINE o == VoidObligation(k, i)
             e == VoidEntry(void_positions[k][i])
  <2>1. i \in PositionId
    BY DEF TypeOK, PartialFunction
  <2>2. o \in Obligation /\ o.op = "void" /\ o.kind = k /\ o.id = i
    BY <2>1 DEF VoidObligation, Obligation
  <2>3. /\ e.payout = void_positions[k][i].payout_data
        /\ e.net = void_positions[k][i].quantity
    BY DEF VoidEntry
  <2> HIDE DEF o
  <2>4. e \in Entries(void_positions, trade_logs, o)
    BY <2>2, VoidEntries
  <2> HIDE DEF e
  <2>5. e.payout = None => o \in OwedOnes(void_positions, trade_logs)
    BY <2>2, <2>3 DEF OwedOnes
  <2>6. RecordMatches(e.payout, o, e.net)
    BY <1>1, <2>2, <2>4, <2>5
  <2> QED
    BY <2>3, <2>6 DEF o
<1>3. ASSUME NEW k \in Kind, NEW i \in 1 .. Len(trade_logs)
      PROVE  RecordMatches(trade_logs[i].payout_data[k], TradeObligation(k, trade_logs[i].id),
                           SatSub(trade_logs[i].mount[k], trade_logs[i].cts_fee[k]))
  <2> DEFINE o == TradeObligation(k, trade_logs[i].id)
             e == TradeEntry(trade_logs[i], k)
  <2>1. o \in Obligation
    BY QueueObligation
  <2>2. o.op # "void" /\ o.kind = k /\ o.id = trade_logs[i].id
    BY DEF TradeObligation
  <2>3. /\ e.payout = trade_logs[i].payout_data[k]
        /\ e.net = SatSub(trade_logs[i].mount[k], trade_logs[i].cts_fee[k])
    BY DEF TradeEntry
  <2> HIDE DEF o
  <2>4. e \in Entries(void_positions, trade_logs, o)
    BY <2>1, <2>2, TradeEntries
  <2> HIDE DEF e
  <2>5. e.payout = None => o \in OwedOnes(void_positions, trade_logs)
    BY <2>1, <2>2, <2>3 DEF OwedOnes
  <2>6. RecordMatches(e.payout, o, e.net)
    BY <1>1, <2>1, <2>4, <2>5
  <2> QED
    BY <2>3, <2>6 DEF o
<1>4. ASSUME NEW k \in Kind, NEW i \in 1 .. Len(trades_stored)
      PROVE  RecordMatches(trades_stored[i].payout_data[k], TradeObligation(k, trades_stored[i].id),
                           SatSub(trades_stored[i].mount[k], trades_stored[i].cts_fee[k]))
  <2> DEFINE e == TradeEntry(trades_stored[i], k)
  <2>1. trades_stored[i].payout_data[k] # None
    BY DEF TradesStoredInOrder
  <2>2. /\ e.payout = trades_stored[i].payout_data[k]
        /\ e.net = SatSub(trades_stored[i].mount[k], trades_stored[i].cts_fee[k])
    BY DEF TradeEntry
  <2>3. Matches(e.payout, transfers[TradeObligation(k, trades_stored[i].id)], e.net)
    BY <2>1, <2>2 DEF RecordInv, StoredMatch
  <2> HIDE DEF e
  <2> QED
    BY <2>1, <2>2, <2>3 DEF RecordMatches, Matches
<1> QED
  BY <1>2, <1>3, <1>4 DEF PayoutsMatchLedger

LEMMA InitRecords == Init => RecordInv /\ LocksOwned
<1> SUFFICES ASSUME Init PROVE RecordInv /\ LocksOwned
  OBVIOUS
<1>1. /\ DOMAIN Idle.payouts = {} /\ void_positions = [k \in Kind |-> NoTasks] /\ trade_logs = <<>>
      /\ \A r \in Run : runs[r] = Idle
  BY DEF Init, Idle, NoTasks
<1>2. \A o \in Obligation : Entries(void_positions, trade_logs, o) = {}
  <2>1. DOMAIN NoTasks = {} /\ Len(trade_logs) = 0
    BY <1>1 DEF NoTasks
  <2> QED
    BY <1>1, <2>1, ObligationForms DEF Entries
<1>3. BooksMatch(void_positions, trade_logs, transfers, Pays)
  BY <1>1, <1>2 DEF BooksMatch, Pays
<1>4. StoredMatch(trades_stored, transfers)
  BY DEF Init, StoredMatch
<1>5. LocksOwned
  BY <1>1, IdleHolds DEF Init, LocksOwned, Owned, Held
<1> QED
  BY <1>3, <1>4, <1>5 DEF RecordInv

----------------------------------------------------------------------------
(* The logs of the positions *)

(* A log says that its position has ended and what was paid for the rest.  *)
Final(log, i, paid) ==
  /\ log.terminated
  /\ log.payout # None
  /\ log.payout.did_transfer <=> \E k \in Kind : paid[VoidObligation(k, i)] # <<>>

(* Nothing will be paid for a position any more.                           *)
Settled(i) ==
  \A k \in Kind : /\ i \notin positions[k]
                  /\ i \in DOMAIN void_positions[k] => void_positions[k][i].payout_data # None

(* A position is of one kind, and only that kind is paid for it.           *)
KindsApart ==
  \A j, k \in Kind : j # k =>
    \A i \in positions[k] \cup DOMAIN void_positions[k] :
      /\ i \notin positions[j] \cup DOMAIN void_positions[j]
      /\ transfers[VoidObligation(j, i)] = <<>>

(* The log that a void position waits to store, and the one it has stored. *)
VoidLogOK(vp, i) ==
  /\ vp.update_log.terminated /\ vp.update_log.payout = vp.payout_data
  /\ vp.update_status => vp.payout_data # None /\ Final(position_logs[i + 1], i, transfers)
VoidLogs == \A k \in Kind : \A i \in DOMAIN void_positions[k] : VoidLogOK(void_positions[k][i], i)

(* An execution stores final logs, and stored is what it believes stored.  *)
UpdateOK(u, st) ==
  /\ u.id \in 0 .. positions_id_counter - 1
  /\ Settled(u.id)
  /\ Final(st.log, u.id, transfers)
  /\ st.at \in {"stored", "ok"} => Final(position_logs[u.id + 1], u.id, transfers)
UpdateLogs == \A r \in Run : \A u \in DOMAIN runs[r].updates : UpdateOK(u, runs[r].updates[u])

LogInv ==
  /\ Len(position_logs) = positions_id_counter
  /\ KindsApart
  /\ VoidLogs
  /\ UpdateLogs
  /\ PositionLogsFollow

LEMMA CounterNat ==
  ASSUME TypeOK
  PROVE  /\ positions_id_counter \in Nat
         /\ \A i \in 0 .. positions_id_counter - 1 : i \in PositionId
BY PayoutsAssumption DEF TypeOK, PositionId

(* A void position that is paid is settled.                                *)
LEMMA VoidSettled ==
  ASSUME BookIds, KindsApart, NEW k \in Kind, NEW i \in DOMAIN void_positions[k],
         void_positions[k][i].payout_data # None
  PROVE  i \in 0 .. positions_id_counter - 1 /\ Settled(i)
<1>1. i \in 0 .. positions_id_counter - 1 /\ i \notin positions[k]
  BY DEF BookIds
<1>2. \A j \in Kind : j # k => i \notin positions[j] \cup DOMAIN void_positions[j]
  BY DEF KindsApart
<1> QED
  BY <1>1, <1>2 DEF Settled

LEMMA FinalSame ==
  ASSUME NEW log, NEW i, NEW paid, NEW paid2, Final(log, i, paid),
         \A k \in Kind : paid2[VoidObligation(k, i)] = paid[VoidObligation(k, i)]
  PROVE  Final(log, i, paid2)
BY DEF Final

(* Transfers of what is owed touch no position that is settled.            *)
LEMMA SettledTransfers ==
  ASSUME TypeOK, NEW i \in 0 .. positions_id_counter - 1, Settled(i),
         \A o \in Obligation \ OwedOnes(void_positions, trade_logs) : transfers'[o] = transfers[o],
         NEW k \in Kind
  PROVE  transfers'[VoidObligation(k, i)] = transfers[VoidObligation(k, i)]
<1>1. VoidObligation(k, i) \in Obligation
  BY CounterNat DEF VoidObligation, Obligation
<1>2. /\ VoidObligation(k, i).op = "void" /\ VoidObligation(k, i).kind = k
      /\ VoidObligation(k, i).id = i
  BY DEF VoidObligation
<1>3. VoidObligation(k, i) \notin OwedOnes(void_positions, trade_logs)
  BY <1>2 DEF OwedOnes, Settled
<1> QED
  BY <1>1, <1>3

(* What a step must not do to a settled position.                          *)
Forward ==
  \A i \in 0 .. positions_id_counter - 1 :
    /\ Settled(i) => /\ Settled(i)'
                     /\ \A k \in Kind : transfers'[VoidObligation(k, i)] = transfers[VoidObligation(k, i)]
    /\ \/ position_logs'[i + 1] = position_logs[i + 1]
       \/ Settled(i) /\ Final(position_logs'[i + 1], i, transfers)

LEMMA FinalStays ==
  ASSUME Forward, NEW i \in 0 .. positions_id_counter - 1, Settled(i)
  PROVE  /\ Settled(i)'
         /\ \A log : Final(log, i, transfers) => Final(log, i, transfers')
         /\ Final(position_logs[i + 1], i, transfers) => Final(position_logs'[i + 1], i, transfers')
<1>1. /\ Settled(i)'
      /\ \A k \in Kind : transfers'[VoidObligation(k, i)] = transfers[VoidObligation(k, i)]
      /\ \/ position_logs'[i + 1] = position_logs[i + 1]
         \/ Final(position_logs'[i + 1], i, transfers)
  BY DEF Forward
<1>2. \A log : Final(log, i, transfers) => Final(log, i, transfers')
  BY <1>1, FinalSame
<1> QED
  BY <1>1, <1>2

(* The updates of an execution stay, or one comes to be stored.            *)
LEMMA UpdatesCarry ==
  ASSUME Forward, UpdateLogs, positions_id_counter \in Nat, positions_id_counter' \in Nat,
         positions_id_counter <= positions_id_counter',
         NEW r \in Run, NEW u \in DOMAIN runs[r].updates, NEW st,
         st.log = runs[r].updates[u].log,
         st.at \in {"stored", "ok"} => \/ runs[r].updates[u].at \in {"stored", "ok"}
                                       \/ Final(position_logs'[u.id + 1], u.id, transfers)
  PROVE  UpdateOK(u, st)'
<1>1. UpdateOK(u, runs[r].updates[u])
  BY DEF UpdateLogs
<1>2. u.id \in 0 .. positions_id_counter - 1 /\ Settled(u.id)
  BY <1>1 DEF UpdateOK
<1>3. /\ Settled(u.id)'
      /\ \A log : Final(log, u.id, transfers) => Final(log, u.id, transfers')
      /\ Final(position_logs[u.id + 1], u.id, transfers) => Final(position_logs'[u.id + 1], u.id, transfers')
  BY <1>2, FinalStays
<1>4. Final(st.log, u.id, transfers')
  BY <1>1, <1>3 DEF UpdateOK
<1>5. st.at \in {"stored", "ok"} => Final(position_logs'[u.id + 1], u.id, transfers')
  BY <1>1, <1>3 DEF UpdateOK
<1>6. u.id \in 0 .. positions_id_counter' - 1
  BY <1>2
<1> QED
  BY <1>3, <1>4, <1>5, <1>6 DEF UpdateOK

(* Positions leave the book for the void positions, and these when their   *)
(* final log is stored.                                                    *)
LEMMA FollowCarry ==
  ASSUME Forward, PositionLogsFollow, positions_id_counter \in Nat,
         \A i \in 0 .. positions_id_counter' - 1 :
           IF i \in 0 .. positions_id_counter - 1
           THEN \A k \in Kind :
                  /\ i \in positions'[k] => \E j \in Kind : i \in positions[j]
                  /\ i \in positions[k] => \E j \in Kind : \/ i \in positions'[j]
                                                           \/ i \in DOMAIN void_positions'[j]
                  /\ i \in DOMAIN void_positions[k] =>
                       \/ \E j \in Kind : i \in DOMAIN void_positions'[j]
                       \/ Final(position_logs'[i + 1], i, transfers')
           ELSE /\ position_logs'[i + 1] = OpenLog
                /\ \E k \in Kind : i \in positions'[k] \/ i \in DOMAIN void_positions'[k]
  PROVE  PositionLogsFollow'
<1>1. ASSUME NEW i \in 0 .. positions_id_counter' - 1
      PROVE  IF \E k \in Kind : i \in positions'[k] THEN position_logs'[i + 1] = OpenLog
             ELSE \/ \E k \in Kind : i \in DOMAIN void_positions'[k]
                  \/ Final(position_logs'[i + 1], i, transfers')
  <2>1. CASE i \notin 0 .. positions_id_counter - 1
    BY <2>1
  <2>2. CASE i \in 0 .. positions_id_counter - 1
    <3>1. CASE \E k \in Kind : i \in positions[k]
      <4>1. position_logs'[i + 1] = position_logs[i + 1] /\ position_logs[i + 1] = OpenLog
        BY <2>2, <3>1 DEF Forward, Settled, PositionLogsFollow
      <4> QED
        BY <2>2, <3>1, <4>1
    <3>2. CASE ~\E k \in Kind : i \in positions[k]
      <4>1. ~\E k \in Kind : i \in positions'[k]
        BY <2>2, <3>2
      <4>2. CASE \E k \in Kind : i \in DOMAIN void_positions[k]
        BY <2>2, <4>1, <4>2
      <4>3. CASE ~\E k \in Kind : i \in DOMAIN void_positions[k]
        <5>1. Settled(i)
          BY <3>2, <4>3 DEF Settled
        <5>2. Final(position_logs[i + 1], i, transfers)
          BY <2>2, <3>2, <4>3 DEF PositionLogsFollow, FinalLogStored, Final
        <5> QED
          BY <2>2, <4>1, <5>1, <5>2, FinalStays
      <4> QED
        BY <4>2, <4>3
    <3> QED
      BY <3>1, <3>2
  <2> QED
    BY <2>1, <2>2
<1>2. \A i : Final(position_logs'[i + 1], i, transfers') <=> FinalLogStored(i)'
  BY DEF Final, FinalLogStored
<1> QED
  BY <1>1, <1>2 DEF PositionLogsFollow

(* A step that leaves the book and the void positions alone.               *)
LEMMA SameBookLogs ==
  ASSUME LockInv, LogInv, UNCHANGED <<marketVars, void_positions>>,
         Len(position_logs') = Len(position_logs),
         \A o \in Obligation \ OwedOnes(void_positions, trade_logs) : transfers'[o] = transfers[o],
         \A i \in 0 .. positions_id_counter - 1 :
           \/ position_logs'[i + 1] = position_logs[i + 1]
           \/ Settled(i) /\ Final(position_logs'[i + 1], i, transfers),
         \A q \in Run : \A u \in DOMAIN runs'[q].updates :
           /\ u \in DOMAIN runs[q].updates
           /\ runs'[q].updates[u].log = runs[q].updates[u].log
           /\ runs'[q].updates[u].at \in {"stored", "ok"} =>
                \/ runs[q].updates[u].at \in {"stored", "ok"}
                \/ Final(position_logs'[u.id + 1], u.id, transfers)
  PROVE  LogInv'
<1> USE DEF LockInv
<1>1. /\ UNCHANGED <<positions, positions_id_counter, void_positions>>
      /\ positions_id_counter \in Nat
  BY CounterNat DEF marketVars
<1>2. \A i : Settled(i)' <=> Settled(i)
  BY <1>1 DEF Settled
<1>3. Forward
  <2>1. \A i \in 0 .. positions_id_counter - 1, k \in Kind :
          Settled(i) => transfers'[VoidObligation(k, i)] = transfers[VoidObligation(k, i)]
    BY SettledTransfers
  <2> QED
    BY <1>2, <2>1 DEF Forward
<1>4. KindsApart'
  <2>1. ASSUME NEW j \in Kind, NEW k \in Kind, j # k,
               NEW i \in positions[k] \cup DOMAIN void_positions[k]
        PROVE  transfers'[VoidObligation(j, i)] = transfers[VoidObligation(j, i)]
    <3>1. i \in PositionId
      BY DEF TypeOK, PartialFunction
    <3>2. /\ VoidObligation(j, i) \in Obligation
          /\ VoidObligation(j, i).op = "void" /\ VoidObligation(j, i).kind = j
          /\ VoidObligation(j, i).id = i
      BY <3>1 DEF VoidObligation, Obligation
    <3>3. i \notin DOMAIN void_positions[j]
      BY <2>1 DEF LogInv, KindsApart
    <3>4. VoidObligation(j, i) \notin OwedOnes(void_positions, trade_logs)
      BY <3>2, <3>3 DEF OwedOnes
    <3> QED
      BY <3>2, <3>4
  <2> QED
    BY <1>1, <2>1 DEF LogInv, KindsApart
<1>5. VoidLogs'
  <2>1. ASSUME NEW k \in Kind, NEW i \in DOMAIN void_positions[k]
        PROVE  VoidLogOK(void_positions[k][i], i)'
    <3>1. VoidLogOK(void_positions[k][i], i)
      BY DEF LogInv, VoidLogs
    <3>2. CASE void_positions[k][i].update_status
      <4>1. i \in 0 .. positions_id_counter - 1 /\ Settled(i)
        BY <3>1, <3>2, VoidSettled DEF VoidLogOK, LogInv
      <4>2. Final(position_logs'[i + 1], i, transfers')
        BY <1>3, <3>1, <3>2, <4>1, FinalStays DEF VoidLogOK
      <4> QED
        BY <1>1, <3>1, <4>2 DEF VoidLogOK
    <3>3. CASE ~void_positions[k][i].update_status
      BY <1>1, <3>1, <3>3 DEF VoidLogOK
    <3> QED
      BY <3>2, <3>3
  <2> QED
    BY <1>1, <2>1 DEF VoidLogs
<1>6. UpdateLogs'
  <2>1. ASSUME NEW q \in Run, NEW u \in DOMAIN runs'[q].updates
        PROVE  UpdateOK(u, runs[q].updates[u])'
    <3>3. PICK st : st = runs'[q].updates[u]
      OBVIOUS
    <3>1. /\ u \in DOMAIN runs[q].updates
          /\ st.log = runs[q].updates[u].log
          /\ st.at \in {"stored", "ok"} =>
               \/ runs[q].updates[u].at \in {"stored", "ok"}
               \/ Final(position_logs'[u.id + 1], u.id, transfers)
      BY <2>1, <3>3
    <3>2. UpdateOK(u, st)'
      BY <1>1, <1>3, <3>1, UpdatesCarry DEF LogInv
    <3> QED
      BY <3>2, <3>3 DEF UpdateOK
  <2> QED
    BY <2>1 DEF UpdateLogs
<1>7. PositionLogsFollow'
  BY <1>1, <1>3, FollowCarry DEF LogInv
<1>8. Len(position_logs') = positions_id_counter'
  BY <1>1 DEF LogInv
<1> QED
  BY <1>4, <1>5, <1>6, <1>7, <1>8 DEF LogInv

LEMMA AnswerLogs ==
  ASSUME LockInv, LogInv, NEW r \in Run, NEW o \in DOMAIN runs[r].payouts,
         Transfer(r, o) \/ BadFee(r, o) \/ TransferFails(r, o)
  PROVE  LogInv'
<1> USE DEF LockInv
<1>1. UNCHANGED <<marketVars, void_positions, position_logs>>
  BY DEF Transfer, BadFee, TransferFails, owedVars, storageVars
<1>2. \A q \in Run : runs'[q].updates = runs[q].updates
  <2>1. PICK st : runs' = [runs EXCEPT ![r].payouts[o] = st]
    BY DEF Transfer, BadFee, TransferFails, Answer, TypeOK
  <2> QED
    BY <2>1, RunFields DEF TypeOK, RunOK
<1>3. \A p \in Obligation \ OwedOnes(void_positions, trade_logs) : transfers'[p] = transfers[p]
  <2>1. CASE Transfer(r, o)
    <3>1. o \in OwedOnes(void_positions, trade_logs)
      BY <2>1, TransferFirst
    <3> QED
      BY <2>1, <3>1 DEF Transfer, TypeOK
  <2>2. CASE BadFee(r, o) \/ TransferFails(r, o)
    BY <2>2 DEF BadFee, TransferFails
  <2> QED
    BY <2>1, <2>2
<1> QED
  BY <1>1, <1>2, <1>3, SameBookLogs

LEMMA UpdateLogsStored ==
  ASSUME LockInv, LogInv, NEW r \in Run, NEW u \in DOMAIN runs[r].updates,
         CmUpdateLog(r, u) \/ UpdateFails(r, u)
  PROVE  LogInv'
<1> USE DEF LockInv
<1>1. /\ UNCHANGED <<marketVars, void_positions, transfers>>
      /\ UpdateOK(u, runs[r].updates[u])
  BY DEF CmUpdateLog, UpdateFails, owedVars, LogInv, UpdateLogs
<1>2. PICK at :
        /\ runs' = [runs EXCEPT ![r].updates[u].at = at]
        /\ \/ at \notin {"stored", "ok"} /\ UNCHANGED position_logs
           \/ position_logs' = [position_logs EXCEPT ![u.id + 1] = runs[r].updates[u].log]
  BY DEF CmUpdateLog, UpdateFails, storageVars
<1>3. /\ position_logs \in Seq(Log) /\ Len(position_logs) = positions_id_counter
      /\ u.id \in 0 .. positions_id_counter - 1 /\ positions_id_counter \in Nat
      /\ Settled(u.id) /\ Final(runs[r].updates[u].log, u.id, transfers)
  BY <1>1, CounterNat DEF TypeOK, LogInv, UpdateOK
<1>4. /\ Len(position_logs') = Len(position_logs)
      /\ \A i \in 0 .. positions_id_counter - 1 :
           i # u.id => position_logs'[i + 1] = position_logs[i + 1]
      /\ \/ at \notin {"stored", "ok"} /\ UNCHANGED position_logs
         \/ position_logs'[u.id + 1] = runs[r].updates[u].log
  BY <1>2, <1>3
<1>5. \A i \in 0 .. positions_id_counter - 1 :
        \/ position_logs'[i + 1] = position_logs[i + 1]
        \/ Settled(i) /\ Final(position_logs'[i + 1], i, transfers)
  BY <1>3, <1>4
<1>6. RunOK(runs[r]) /\ runs[r].updates[u] \in UpdateStatus
  BY RunFields DEF PartialFunction
<1>7. \A q \in Run : \A v \in DOMAIN runs'[q].updates :
        /\ v \in DOMAIN runs[q].updates
        /\ runs'[q].updates[v].log = runs[q].updates[v].log
        /\ <<q, v>> # <<r, u>> => runs'[q].updates[v] = runs[q].updates[v]
        /\ <<q, v>> = <<r, u>> => runs'[q].updates[v].at = at
  BY <1>2, <1>6 DEF TypeOK, RunOK, UpdateStatus
<1>8. \A q \in Run : \A v \in DOMAIN runs'[q].updates :
        runs'[q].updates[v].at \in {"stored", "ok"} =>
          \/ runs[q].updates[v].at \in {"stored", "ok"}
          \/ Final(position_logs'[v.id + 1], v.id, transfers)
  BY <1>3, <1>4, <1>7
<1> QED
  BY <1>1, <1>4, <1>5, <1>7, <1>8, SameBookLogs

(* Timers, flushes, the move of trades and the environment: no position.   *)
LEMMA QuietLogs ==
  ASSUME LockInv, LogInv, UNCHANGED <<marketVars, void_positions, position_logs, transfers>>,
         \A q \in Run : \/ DOMAIN runs'[q].updates = {}
                        \/ runs'[q].updates = runs[q].updates
  PROVE  LogInv'
BY SameBookLogs

(* Recording the results keeps the waiting log the log of the payout.      *)
LEMMA SettledVoidLog ==
  ASSUME NEW vp \in VoidPositionType, NEW o, NEW u, NEW payouts, NEW updates,
         vp.update_log.terminated, vp.update_log.payout = vp.payout_data,
         o \in DOMAIN payouts => vp.payout_data = None
  PROVE  LET settled == SettledVoid(vp, o, u, payouts, updates)
         IN /\ settled.update_log.terminated
            /\ settled.update_log.payout = settled.payout_data
            /\ vp.payout_data # None => settled.payout_data # None
            /\ settled.update_status <=> IF u \in DOMAIN updates THEN updates[u].at = "ok"
                                         ELSE vp.update_status
<1> DEFINE paid == PaidVoid(vp, o, payouts)
           settled == SettledVoid(vp, o, u, payouts, updates)
<1>1. vp.update_log \in Log
  BY DEF VoidPositionType
<1>2. /\ paid.update_log.terminated /\ paid.update_log.payout = paid.payout_data
      /\ vp.payout_data # None => paid.payout_data # None
      /\ paid.update_status = vp.update_status
      /\ \/ paid = vp
         \/ \E d, l, g : paid = [vp EXCEPT !.payout_lock = l, !.payout_data = d, !.update_log = g]
  <2>1. CASE o \notin DOMAIN payouts
    BY <2>1 DEF PaidVoid
  <2>2. CASE o \in DOMAIN payouts
    <3> DEFINE d == payouts[o].payout
               log == [vp.update_log EXCEPT !.payout = IF d = None THEN @ ELSE d]
    <3>1. paid = [vp EXCEPT !.payout_lock = FALSE, !.payout_data = d, !.update_log = log]
      BY <2>2 DEF PaidVoid
    <3>2. log.terminated /\ log.payout = d
      BY <1>1, <2>2 DEF Log
    <3> HIDE DEF d, log
    <3>3. paid.update_log = log /\ paid.payout_data = d /\ paid.update_status = vp.update_status
      BY <3>1 DEF VoidPositionType
    <3> HIDE DEF paid
    <3> QED
      BY <2>2, <3>1, <3>2, <3>3
  <2> QED
    BY <2>1, <2>2
<1> HIDE DEF paid
<1>3. LET recorded == [paid EXCEPT !.update_lock = FALSE, !.update_status = updates[u].at = "ok"]
      IN /\ recorded.update_log = paid.update_log /\ recorded.payout_data = paid.payout_data
         /\ recorded.update_status <=> updates[u].at = "ok"
  BY <1>2 DEF VoidPositionType
<1>4. /\ settled.update_log = paid.update_log /\ settled.payout_data = paid.payout_data
      /\ settled.update_status <=> IF u \in DOMAIN updates THEN updates[u].at = "ok"
                                   ELSE vp.update_status
  <2>1. CASE u \notin DOMAIN updates
    BY <1>2, <2>1 DEF SettledVoid, paid
  <2>2. CASE u \in DOMAIN updates
    <3>1. settled = [paid EXCEPT !.update_lock = FALSE, !.update_status = updates[u].at = "ok"]
      BY <2>2 DEF SettledVoid, paid
    <3> HIDE DEF settled
    <3> QED
      BY <1>3, <2>2, <3>1
  <2> QED
    BY <2>1, <2>2
<1> QED
  BY <1>2, <1>4

(* What an execution is polled with.                                       *)
PolledUpdate(u, st) ==
  /\ u.id \in 0 .. positions_id_counter - 1
  /\ Settled(u.id)
  /\ Final(st.log, u.id, transfers)
  /\ st.at \in {"stored", "ok"} => Final(position_logs'[u.id + 1], u.id, transfers)

SameLog(vp, vp2) ==
  /\ vp2.payout_data = vp.payout_data
  /\ vp2.update_log = vp.update_log
  /\ vp2.update_status = vp.update_status

LEMMA PolledLogs ==
  ASSUME LockInv, LogInv, NEW r \in Run, NEW vps, VoidsOK(vps), NEW tls, NEW lock,
         NEW payouts, NEW updates, Polled(r, vps, tls, lock, payouts, updates),
         UNCHANGED <<marketVars, transfers>>, Len(position_logs') = Len(position_logs),
         \A i \in 0 .. positions_id_counter - 1 :
           \/ position_logs'[i + 1] = position_logs[i + 1]
           \/ Settled(i) /\ Final(position_logs'[i + 1], i, transfers),
         \A k \in Kind : DOMAIN vps[k] = DOMAIN void_positions[k],
         \A k \in Kind : \A i \in DOMAIN void_positions[k] :
           /\ SameLog(void_positions[k][i], vps[k][i])
           /\ VoidObligation(k, i) \in DOMAIN payouts => void_positions[k][i].payout_data = None,
         \A u \in DOMAIN updates : PolledUpdate(u, updates[u])
  PROVE  LogInv'
<1> USE DEF LockInv
<1>1. /\ UNCHANGED <<positions, positions_id_counter>> /\ positions_id_counter \in Nat
  BY CounterNat DEF marketVars
<1>2. ASSUME NEW k \in Kind, NEW i \in DOMAIN void_positions[k]
      PROVE  /\ vps[k][i] \in VoidPositionType
             /\ vps[k][i].update_log.terminated /\ vps[k][i].update_log.payout = vps[k][i].payout_data
             /\ vps[k][i].payout_data = void_positions[k][i].payout_data
             /\ vps[k][i].update_status => Final(position_logs'[i + 1], i, transfers)
  <2>1. VoidLogOK(void_positions[k][i], i) /\ SameLog(void_positions[k][i], vps[k][i])
    BY DEF LogInv, VoidLogs
  <2>2. vps[k][i] \in VoidPositionType
    BY DEF VoidsOK, PartialFunction
  <2>3. CASE vps[k][i].update_status
    <3>1. i \in 0 .. positions_id_counter - 1 /\ Settled(i)
      BY <2>1, <2>3, VoidSettled DEF VoidLogOK, SameLog, LogInv
    <3>2. Final(position_logs'[i + 1], i, transfers)
      BY <2>1, <2>3, <3>1 DEF VoidLogOK, SameLog
    <3> QED
      BY <2>1, <2>2, <3>2 DEF VoidLogOK, SameLog
  <2>4. CASE ~vps[k][i].update_status
    BY <2>1, <2>2, <2>4 DEF VoidLogOK, SameLog
  <2> QED
    BY <2>3, <2>4
<1>3. ASSUME NEW k \in Kind, NEW i \in DOMAIN void_positions[k],
             NEW vp, \/ vp = vps[k][i]
                     \/ vp = SettledVoid(vps[k][i], VoidObligation(k, i), VoidUpdate(k, i),
                                         payouts, updates)
      PROVE  /\ vp.update_log.terminated /\ vp.update_log.payout = vp.payout_data
             /\ vp.update_status =>
                  vp.payout_data # None /\ Final(position_logs'[i + 1], i, transfers)
             /\ void_positions[k][i].payout_data # None => vp.payout_data # None
  <2>1. CASE vp = vps[k][i]
    <3>1. vp.update_status => vp.payout_data # None
      BY <2>1 DEF LogInv, VoidLogs, VoidLogOK, SameLog
    <3> QED
      BY <1>2, <2>1, <3>1
  <2>2. CASE vp = SettledVoid(vps[k][i], VoidObligation(k, i), VoidUpdate(k, i), payouts, updates)
    <3> DEFINE u == VoidUpdate(k, i)
    <3>1. VoidObligation(k, i) \in DOMAIN payouts => vps[k][i].payout_data = None
      BY <1>2
    <3>2. /\ vp.update_log.terminated /\ vp.update_log.payout = vp.payout_data
          /\ vps[k][i].payout_data # None => vp.payout_data # None
          /\ vp.update_status <=> IF u \in DOMAIN updates THEN updates[u].at = "ok"
                                  ELSE vps[k][i].update_status
      BY <1>2, <2>2, <3>1, SettledVoidLog
    <3>3. CASE u \in DOMAIN updates
      <4>1. u.id = i /\ PolledUpdate(u, updates[u])
        BY <3>3 DEF VoidUpdate
      <4>2. Settled(i) /\ (updates[u].at = "ok" => Final(position_logs'[i + 1], i, transfers))
        BY <4>1 DEF PolledUpdate
      <4>3. void_positions[k][i].payout_data # None
        BY <4>2 DEF Settled
      <4> QED
        BY <1>2, <3>2, <3>3, <4>2, <4>3
    <3>4. CASE u \notin DOMAIN updates
      <4>1. vps[k][i].update_status => vps[k][i].payout_data # None
        BY DEF LogInv, VoidLogs, VoidLogOK, SameLog
      <4> QED
        BY <1>2, <3>2, <3>4, <4>1
    <3> QED
      BY <3>3, <3>4
  <2> QED
    BY <1>3, <2>1, <2>2
<1>4. ASSUME NEW k \in Kind
      PROVE  /\ DOMAIN void_positions'[k] \subseteq DOMAIN void_positions[k]
             /\ \A i \in DOMAIN void_positions'[k] :
                  \/ void_positions'[k][i] = vps[k][i]
                  \/ void_positions'[k][i] = SettledVoid(vps[k][i], VoidObligation(k, i),
                                                         VoidUpdate(k, i), payouts, updates)
             /\ \A i \in DOMAIN void_positions[k] \ DOMAIN void_positions'[k] :
                  CanRemove(SettledVoid(vps[k][i], VoidObligation(k, i), VoidUpdate(k, i),
                                        payouts, updates))
  <2>1. CASE AllReady(payouts, updates)
    <3>1. void_positions'[k] = SettledVoids(k, vps[k], payouts, updates)
      BY <2>1 DEF Polled
    <3> QED
      BY <3>1 DEF SettledVoids
  <2>2. CASE ~AllReady(payouts, updates)
    BY <2>2 DEF Polled
  <2> QED
    BY <2>1, <2>2
<1>5. \A k \in Kind : \A i \in DOMAIN void_positions'[k] :
        /\ i \in DOMAIN void_positions[k]
        /\ VoidLogOK(void_positions[k][i], i)'
        /\ void_positions[k][i].payout_data # None => void_positions'[k][i].payout_data # None
  BY <1>3, <1>4 DEF VoidLogOK
<1>6. \A i : Settled(i) => Settled(i)'
  BY <1>1, <1>5 DEF Settled
<1>7. Forward
  BY <1>6 DEF Forward
<1>8. KindsApart'
  BY <1>1, <1>4 DEF LogInv, KindsApart
<1>9. VoidLogs'
  BY <1>5 DEF VoidLogs
<1>10. UpdateLogs'
  <2>1. ASSUME NEW q \in Run, NEW u \in DOMAIN runs'[q].updates
        PROVE  UpdateOK(u, runs[q].updates[u])'
    <3>1. \/ u \in DOMAIN runs[q].updates /\ runs'[q].updates = runs[q].updates
          \/ u \in DOMAIN updates /\ runs'[q].updates = updates
      <4>1. CASE q # r
        BY <4>1 DEF Polled, TypeOK
      <4>2. CASE q = r /\ AllReady(payouts, updates)
        <5>1. runs' = [runs EXCEPT ![r] = IF @.driven
                        THEN [Idle EXCEPT !.pc = "replied", !.driven = TRUE] ELSE Idle]
          BY <4>2 DEF Polled
        <5>2. DOMAIN runs'[r].updates = {}
          BY <5>1 DEF TypeOK, Idle, NoTasks
        <5> QED
          BY <2>1, <4>2, <5>2
      <4>3. CASE q = r /\ ~AllReady(payouts, updates)
        <5>1. runs' = [runs EXCEPT ![r] = [@ EXCEPT !.pc = "paying", !.payouts = payouts,
                                                    !.updates = updates]]
          BY <4>3 DEF Polled
        <5> QED
          BY <2>1, <4>3, <5>1, RunFields DEF TypeOK, RunOK
      <4> QED
        BY <4>1, <4>2, <4>3
    <3>2. CASE u \in DOMAIN runs[q].updates /\ runs'[q].updates = runs[q].updates
      <4>1. PICK st : st = runs[q].updates[u]
        OBVIOUS
      <4>2. UpdateOK(u, st)'
        BY <1>1, <1>7, <3>2, <4>1, UpdatesCarry DEF LogInv
      <4> QED
        BY <3>2, <4>1, <4>2 DEF UpdateOK
    <3>3. CASE u \in DOMAIN updates /\ runs'[q].updates = updates
      <4>1. PolledUpdate(u, runs'[q].updates[u])
        BY <3>3
      <4> QED
        BY <1>1, <1>6, <4>1 DEF PolledUpdate, UpdateOK
    <3> QED
      BY <3>1, <3>2, <3>3
  <2> QED
    BY <2>1 DEF UpdateLogs
<1>11. PositionLogsFollow'
  <2>1. ASSUME NEW k \in Kind, NEW i \in DOMAIN void_positions[k], i \notin DOMAIN void_positions'[k]
        PROVE  Final(position_logs'[i + 1], i, transfers')
    BY <1>3, <1>4, <2>1 DEF CanRemove
  <2> QED
    BY <1>1, <1>7, <2>1, FollowCarry DEF LogInv
<1>12. Len(position_logs') = positions_id_counter'
  BY <1>1 DEF LogInv
<1> QED
  BY <1>8, <1>9, <1>10, <1>11, <1>12 DEF LogInv

LEMMA VoidFinal ==
  ASSUME LockInv, RecordInv, LogInv, NEW k \in Kind, NEW i \in DOMAIN void_positions[k],
         void_positions[k][i].payout_data # None
  PROVE  Final(void_positions[k][i].update_log, i, transfers)
<1> USE DEF LockInv
<1> DEFINE vp == void_positions[k][i]
           o  == VoidObligation(k, i)
<1>1. vp.update_log.terminated /\ vp.update_log.payout = vp.payout_data
  BY DEF LogInv, VoidLogs, VoidLogOK
<1>2. vp \in VoidPositionType /\ i \in PositionId
  BY DEF TypeOK, PartialFunction
<1>3. o \in Obligation /\ o.op = "void" /\ o.kind = k /\ o.id = i
  BY <1>2 DEF VoidObligation, Obligation
<1> HIDE DEF o
<1>4. Matches(vp.payout_data, transfers[o], vp.quantity)
  <2>1. VoidEntry(vp) \in Entries(void_positions, trade_logs, o)
    BY <1>3, VoidEntries
  <2> QED
    BY <1>3, <2>1 DEF RecordInv, BooksMatch, VoidEntry
<1>5. vp.payout_data.did_transfer <=> transfers[o] # <<>>
  BY <1>4 DEF Matches
<1>6. \A j \in Kind : j # k => transfers[VoidObligation(j, i)] = <<>>
  BY DEF LogInv, KindsApart
<1>7. vp.payout_data.did_transfer <=> \E j \in Kind : transfers[VoidObligation(j, i)] # <<>>
  BY <1>5, <1>6 DEF o
<1> HIDE DEF vp
<1> QED
  BY <1>1, <1>7 DEF Final, vp

LEMMA StartRunLogs ==
  ASSUME LockInv, RecordInv, LogInv, NEW r \in Run, StartRun(r)
  PROVE  LogInv'
<1> USE DEF LockInv
<1> DEFINE payouts == [o \in TakenPayouts |-> StartPayout(o)]
           updates == [u \in TakenUpdates |-> StartUpdate(u)]
           lock    == flush_lock["positions"] \/ TakenUpdates # {}
<1>1. /\ Polled(r, LockedVoids, LockedTrades, lock, payouts, updates)
      /\ UNCHANGED <<marketVars, transfers>> /\ position_logs' = BufferUpdated
  BY DEF StartRun
<1>2. ASSUME NEW u \in TakenUpdates
      PROVE  /\ u.id \in 0 .. positions_id_counter - 1 /\ Settled(u.id)
             /\ Final(void_positions[u.kind][u.id].update_log, u.id, transfers)
  <2>1. u.kind \in Kind /\ u.id \in VoidUpdates(u.kind)
    BY DEF TakenUpdates, Update
  <2>2. u.id \in DOMAIN void_positions[u.kind] /\ void_positions[u.kind][u.id].payout_data # None
    BY <2>1, TakenVoids
  <2> QED
    BY <2>1, <2>2, VoidSettled, VoidFinal DEF LogInv
<1>3. /\ Len(position_logs') = Len(position_logs) /\ Len(position_logs) = positions_id_counter
      /\ positions_id_counter \in Nat
  BY <1>1, BufferUpdatedType, CounterNat DEF LogInv
<1>4. ASSUME NEW i \in 0 .. positions_id_counter - 1
      PROVE  IF ~OnCanister(i) /\ \E u \in TakenUpdates : u.id = i
             THEN Settled(i) /\ Final(position_logs'[i + 1], i, transfers)
             ELSE position_logs'[i + 1] = position_logs[i + 1]
  <2>1. i + 1 \in 1 .. Len(position_logs) /\ (i + 1) - 1 = i
    BY <1>3
  <2>2. CASE ~OnCanister(i) /\ \E u \in TakenUpdates : u.id = i
    <3> DEFINE v == CHOOSE v \in TakenUpdates : v.id = i
    <3>1. v \in TakenUpdates /\ v.id = i
      BY <2>2
    <3>2. position_logs'[i + 1] = void_positions[v.kind][v.id].update_log
      BY <1>1, <2>1, <2>2 DEF BufferUpdated
    <3> HIDE DEF v
    <3> QED
      BY <1>2, <2>2, <3>1, <3>2
  <2>3. CASE ~(~OnCanister(i) /\ \E u \in TakenUpdates : u.id = i)
    BY <1>1, <2>1, <2>3 DEF BufferUpdated
  <2> QED
    BY <2>2, <2>3
<1>5. \A i \in 0 .. positions_id_counter - 1 :
        \/ position_logs'[i + 1] = position_logs[i + 1]
        \/ Settled(i) /\ Final(position_logs'[i + 1], i, transfers)
  BY <1>4
<1>6. \A u \in DOMAIN updates : PolledUpdate(u, updates[u])
  <2>1. ASSUME NEW u \in TakenUpdates PROVE PolledUpdate(u, StartUpdate(u))
    <3>1. /\ StartUpdate(u).log = void_positions[u.kind][u.id].update_log
          /\ StartUpdate(u).at \in {"stored", "ok"} => ~OnCanister(u.id)
      BY DEF StartUpdate
    <3> QED
      BY <1>2, <1>4, <3>1 DEF PolledUpdate
  <2> QED
    BY <2>1
<1>7. ASSUME NEW k \in Kind, NEW i \in DOMAIN void_positions[k]
      PROVE  /\ SameLog(void_positions[k][i], LockedVoids[k][i])
             /\ VoidObligation(k, i) \in DOMAIN payouts => void_positions[k][i].payout_data = None
  <2>1. SameLog(void_positions[k][i], LockedVoids[k][i])
    <3>1. void_positions[k][i] \in VoidPositionType
      BY DEF TypeOK, PartialFunction
    <3> QED
      BY <3>1 DEF SameLog, LockedVoids, VoidPositionType
  <2>2. ASSUME VoidObligation(k, i) \in TakenPayouts
        PROVE  void_positions[k][i].payout_data = None
    BY <2>2, TakenOnes DEF OwedOnes, VoidObligation
  <2> QED
    BY <2>1, <2>2
<1> HIDE DEF payouts, updates, lock
<1>8. \A k \in Kind : DOMAIN LockedVoids[k] = DOMAIN void_positions[k]
  BY LockedVoidsType
<1>9. VoidsOK(LockedVoids)
  BY LockedVoidsType DEF VoidsOK
<1> QED
  BY <1>1, <1>3, <1>5, <1>6, <1>7, <1>8, <1>9, PolledLogs

LEMMA RepliesLogs ==
  ASSUME LockInv, LogInv, NEW r \in Run,
         \/ \E o \in DOMAIN runs[r].payouts : PayoutReply(r, o)
         \/ \E u \in DOMAIN runs[r].updates : UpdateReply(r, u)
  PROVE  LogInv'
<1> USE DEF LockInv
<1>1. PICK payouts, updates :
        /\ Polled(r, void_positions, trade_logs, flush_lock["positions"], payouts, updates)
        /\ DOMAIN payouts = DOMAIN runs[r].payouts
        /\ DOMAIN updates = DOMAIN runs[r].updates
        /\ \A u \in DOMAIN updates :
             /\ updates[u].log = runs[r].updates[u].log
             /\ updates[u].at \in {"stored", "ok"} => runs[r].updates[u].at \in {"stored", "ok"}
  <2>1. ASSUME NEW o \in DOMAIN runs[r].payouts, PayoutReply(r, o)
        PROVE  \E payouts :
                 /\ Polled(r, void_positions, trade_logs, flush_lock["positions"],
                           payouts, runs[r].updates)
                 /\ DOMAIN payouts = DOMAIN runs[r].payouts
    BY <2>1 DEF PayoutReply
  <2>2. ASSUME NEW u \in DOMAIN runs[r].updates, UpdateReply(r, u)
        PROVE  \E updates :
                 /\ Polled(r, void_positions, trade_logs, flush_lock["positions"],
                           runs[r].payouts, updates)
                 /\ DOMAIN updates = DOMAIN runs[r].updates
                 /\ \A v \in DOMAIN updates :
                      /\ updates[v].log = runs[r].updates[v].log
                      /\ updates[v].at \in {"stored", "ok"} =>
                           runs[r].updates[v].at \in {"stored", "ok"}
    <3> DEFINE at == IF runs[r].updates[u].at = "stored" THEN "ok" ELSE "err"
               updates == [runs[r].updates EXCEPT ![u].at = at]
    <3>1. Polled(r, void_positions, trade_logs, flush_lock["positions"], runs[r].payouts, updates)
      BY <2>2 DEF UpdateReply
    <3>2. at = "ok" => runs[r].updates[u].at = "stored"
      OBVIOUS
    <3>3. at \in {"ok", "err"}
      OBVIOUS
    <3> HIDE DEF at
    <3>4. DOMAIN updates = DOMAIN runs[r].updates
      OBVIOUS
    <3>5. ASSUME NEW v \in DOMAIN runs[r].updates
          PROVE  /\ updates[v].log = runs[r].updates[v].log
                 /\ updates[v].at \in {"stored", "ok"} => runs[r].updates[v].at \in {"stored", "ok"}
      <4>1. runs[r].updates[v] \in UpdateStatus
        BY RunFields DEF PartialFunction
      <4> QED
        BY <3>2, <3>3, <4>1 DEF UpdateStatus
    <3> HIDE DEF updates
    <3> QED
      BY <3>1, <3>4, <3>5
  <2> QED
    BY <2>1, <2>2
<1>2. UNCHANGED <<marketVars, transfers, position_logs>>
  BY DEF PayoutReply, UpdateReply, storageVars
<1>3. ASSUME NEW k \in Kind, NEW i \in DOMAIN void_positions[k]
      PROVE  /\ SameLog(void_positions[k][i], void_positions[k][i])
             /\ VoidObligation(k, i) \in DOMAIN payouts => void_positions[k][i].payout_data = None
  <2>1. DOMAIN Pays[r] \subseteq OwedOnes(void_positions, trade_logs)
    BY DEF LocksConsistent, Consistent
  <2> QED
    BY <1>1, <2>1 DEF SameLog, Pays, OwedOnes, VoidObligation
<1>4. \A u \in DOMAIN updates : PolledUpdate(u, updates[u])
  <2>1. ASSUME NEW u \in DOMAIN updates PROVE PolledUpdate(u, updates[u])
    <3>1. UpdateOK(u, runs[r].updates[u])
      BY <1>1 DEF LogInv, UpdateLogs
    <3> QED
      BY <1>1, <1>2, <3>1 DEF UpdateOK, PolledUpdate
  <2> QED
    BY <2>1
<1>5. VoidsOK(void_positions)
  BY DEF TypeOK, VoidsOK
<1> QED
  BY <1>1, <1>2, <1>3, <1>4, <1>5, PolledLogs

(* The market puts positions on the book and makes void what was there.    *)
MarketMakes(k) ==
  /\ DOMAIN void_positions[k] \subseteq DOMAIN void_positions'[k]
  /\ \A i \in DOMAIN void_positions[k] : void_positions'[k][i] = void_positions[k][i]
  /\ \A i \in DOMAIN void_positions'[k] \ DOMAIN void_positions[k] :
       /\ i \in positions[k] \/ i = positions_id_counter
       /\ \E q : void_positions'[k][i] = NewVoidPosition(q)
  /\ positions'[k] \subseteq positions[k] \cup {positions_id_counter}
  /\ positions[k] \subseteq positions'[k] \cup DOMAIN void_positions'[k]

(* Such a step keeps the logs of all other positions as they are.          *)
LEMMA MarketLogs ==
  ASSUME LockInv, TypeOK', LogInv, UNCHANGED <<transfers, runs>>,
         \A k \in Kind : MarketMakes(k),
         \A j, k \in Kind : j # k =>
           \/ positions_id_counter \notin positions'[j] \cup DOMAIN void_positions'[j]
           \/ positions_id_counter \notin positions'[k] \cup DOMAIN void_positions'[k],
         \A i \in 0 .. positions_id_counter - 1 : position_logs'[i + 1] = position_logs[i + 1],
         Len(position_logs') = positions_id_counter',
         \/ positions_id_counter' = positions_id_counter
         \/ /\ positions_id_counter' = positions_id_counter + 1
            /\ position_logs'[positions_id_counter + 1] = OpenLog
            /\ \E k \in Kind : positions_id_counter \in positions'[k] \cup DOMAIN void_positions'[k]
  PROVE  LogInv'
<1> USE DEF LockInv, MarketMakes
<1> DEFINE c == positions_id_counter
<1>1. c \in Nat /\ positions_id_counter' \in Nat /\ c <= positions_id_counter'
  BY CounterNat
<1>2. ASSUME NEW i \in 0 .. c - 1, Settled(i) PROVE Settled(i)'
  <2>1. ASSUME NEW k \in Kind
        PROVE  /\ i \notin positions'[k]
               /\ i \in DOMAIN void_positions'[k] => void_positions'[k][i].payout_data # None
    <3>1. /\ i \notin positions[k] /\ i # c
          /\ i \in DOMAIN void_positions[k] => void_positions[k][i].payout_data # None
      BY <1>1, <1>2 DEF Settled
    <3> QED
      BY <3>1
  <2> QED
    BY <2>1 DEF Settled
<1>3. Forward
  BY <1>2 DEF Forward
<1>4. KindsApart'
  <2>1. ASSUME NEW j \in Kind, NEW k \in Kind, j # k,
               NEW i \in positions'[k] \cup DOMAIN void_positions'[k]
        PROVE  /\ i \notin positions'[j] \cup DOMAIN void_positions'[j]
               /\ transfers'[VoidObligation(j, i)] = <<>>
    <3>1. CASE i = c
      <4>1. i \in PositionId
        BY DEF TypeOK, PartialFunction
      <4>2. /\ VoidObligation(j, i) \in Obligation /\ VoidObligation(j, i).op = "void"
            /\ VoidObligation(j, i).id = i
        BY <4>1 DEF VoidObligation, Obligation
      <4>3. Fresh(VoidObligation(j, i))
        BY <1>1, <3>1, <4>2 DEF Fresh
      <4> QED
        BY <2>1, <3>1, <4>2, <4>3 DEF NoFreshTransfers
    <3>2. CASE i # c
      <4>1. i \in positions[k] \cup DOMAIN void_positions[k]
        BY <3>2
      <4>2. /\ i \notin positions[j] \cup DOMAIN void_positions[j]
            /\ transfers[VoidObligation(j, i)] = <<>>
        BY <2>1, <4>1 DEF LogInv, KindsApart
      <4> QED
        BY <3>2, <4>2
    <3> QED
      BY <3>1, <3>2
  <2> QED
    BY <2>1 DEF KindsApart
<1>5. VoidLogs'
  <2>1. ASSUME NEW k \in Kind, NEW i \in DOMAIN void_positions'[k]
        PROVE  VoidLogOK(void_positions[k][i], i)'
    <3>1. CASE i \in DOMAIN void_positions[k]
      <4>1. VoidLogOK(void_positions[k][i], i) /\ void_positions'[k][i] = void_positions[k][i]
        BY <3>1 DEF LogInv, VoidLogs
      <4>2. i \in 0 .. c - 1
        BY <3>1 DEF BookIds
      <4> QED
        BY <4>1, <4>2 DEF VoidLogOK
    <3>2. CASE i \notin DOMAIN void_positions[k]
      <4>1. PICK q : void_positions'[k][i] = NewVoidPosition(q)
        BY <3>2
      <4> QED
        BY <4>1 DEF VoidLogOK, NewVoidPosition
    <3> QED
      BY <3>1, <3>2
  <2> QED
    BY <2>1 DEF VoidLogs
<1>6. UpdateLogs'
  <2>1. ASSUME NEW q \in Run, NEW u \in DOMAIN runs[q].updates
        PROVE  UpdateOK(u, runs[q].updates[u])'
    <3>1. PICK st : st = runs[q].updates[u]
      OBVIOUS
    <3>2. UpdateOK(u, st)'
      BY <1>1, <1>3, <3>1, UpdatesCarry DEF LogInv
    <3> QED
      BY <3>1, <3>2 DEF UpdateOK
  <2> QED
    BY <2>1 DEF UpdateLogs
<1>7. PositionLogsFollow'
  <2>1. ASSUME NEW i \in 0 .. positions_id_counter' - 1, i \notin 0 .. c - 1
        PROVE  /\ position_logs'[i + 1] = OpenLog
               /\ \E k \in Kind : i \in positions'[k] \/ i \in DOMAIN void_positions'[k]
    <3>1. i = c /\ positions_id_counter' = c + 1
      <4>1. \A m, n \in Nat : i \in 0 .. m - 1 /\ i \notin 0 .. n - 1 /\ (m = n \/ m = n + 1)
                            => i = n /\ m = n + 1
        OBVIOUS
      <4>2. positions_id_counter' = c \/ positions_id_counter' = c + 1
        OBVIOUS
      <4> HIDE DEF c
      <4> QED
        BY <1>1, <2>1, <4>1, <4>2
    <3>2. position_logs'[c + 1] = OpenLog /\ \E k \in Kind : c \in positions'[k] \cup DOMAIN void_positions'[k]
      BY <1>1, <3>1
    <3> QED
      BY <3>1, <3>2
  <2>2. ASSUME NEW i \in 0 .. c - 1, NEW k \in Kind
        PROVE  /\ i \in positions'[k] => \E j \in Kind : i \in positions[j]
               /\ i \in positions[k] => \E j \in Kind : \/ i \in positions'[j]
                                                        \/ i \in DOMAIN void_positions'[j]
               /\ i \in DOMAIN void_positions[k] => \E j \in Kind : i \in DOMAIN void_positions'[j]
    <3>1. i # c
      BY <1>1
    <3> QED
      BY <3>1
  <2> QED
    BY <1>1, <1>3, <2>1, <2>2, FollowCarry DEF LogInv
<1> QED
  BY <1>4, <1>5, <1>6, <1>7 DEF LogInv

LEMMA VoidPositionLogs ==
  ASSUME LockInv, TypeOK', LogInv, NEW k \in Kind, NEW id \in positions[k], VoidPosition(k, id)
  PROVE  LogInv'
<1> USE DEF LockInv
<1>1. PICK q : void_positions' = [void_positions EXCEPT ![k] =
                 [i \in DOMAIN @ \cup {id} |-> IF i = id THEN NewVoidPosition(q) ELSE @[i]]]
  BY DEF VoidPosition
<1>2. id \notin DOMAIN void_positions[k]
  BY DEF BookIds
<1>3. /\ positions' = [positions EXCEPT ![k] = @ \ {id}]
      /\ UNCHANGED <<transfers, runs, position_logs, positions_id_counter>>
  BY DEF VoidPosition, storageVars
<1>4. \A j \in Kind :
        /\ DOMAIN void_positions'[j] = IF j = k THEN DOMAIN void_positions[j] \cup {id}
                                       ELSE DOMAIN void_positions[j]
        /\ \A i \in DOMAIN void_positions[j] : void_positions'[j][i] = void_positions[j][i]
        /\ positions'[j] = IF j = k THEN positions[j] \ {id} ELSE positions[j]
  BY <1>1, <1>2, <1>3 DEF TypeOK
<1>5. void_positions'[k][id] = NewVoidPosition(q)
  BY <1>1 DEF TypeOK
<1>6. \A j \in Kind : positions_id_counter \notin positions'[j] \cup DOMAIN void_positions'[j]
  <2>1. \A j \in Kind : positions_id_counter \notin positions[j] \cup DOMAIN void_positions[j]
    BY CounterNat DEF BookIds
  <2>2. positions_id_counter # id
    BY <2>1
  <2>3. ASSUME NEW j \in Kind
        PROVE  /\ positions'[j] \subseteq positions[j]
               /\ DOMAIN void_positions'[j] \subseteq DOMAIN void_positions[j] \cup {id}
    BY <1>4
  <2> HIDE DEF LockInv
  <2> QED
    BY <2>1, <2>2, <2>3
<1>7. Len(position_logs') = positions_id_counter'
  BY <1>3 DEF LogInv
<1>8. \A j \in Kind : MarketMakes(j)
  BY <1>4, <1>5 DEF MarketMakes
<1>9. /\ \A i \in 0 .. positions_id_counter - 1 : position_logs'[i + 1] = position_logs[i + 1]
      /\ positions_id_counter' = positions_id_counter /\ UNCHANGED <<transfers, runs>>
  BY <1>3
<1> HIDE DEF LockInv
<1> QED
  BY <1>6, <1>7, <1>8, <1>9, MarketLogs

LEMMA CreatePositionLogs ==
  ASSUME LockInv, TypeOK', LogInv, NEW k \in Kind,
         NEW voided, voided \subseteq Matchees(k) \cup {positions_id_counter},
         NEW n \in Nat, NEW q, NEW sides, CreateAndMatch(k, voided, n, q, sides)
  PROVE  LogInv'
<1> USE DEF LockInv
<1> DEFINE c == positions_id_counter
<1>1. /\ UNCHANGED <<transfers, runs>> /\ positions_id_counter' = c + 1
      /\ position_logs' = Append(position_logs, OpenLog)
  BY DEF CreateAndMatch
<1>2. position_logs \in Seq(Log) /\ Len(position_logs) = c /\ c \in Nat
  BY CounterNat DEF TypeOK, LogInv
<1>11. \A j \in Kind : c \notin positions[j] \cup DOMAIN void_positions[j]
  BY CounterNat DEF BookIds
<1>3. /\ Len(position_logs') = positions_id_counter'
      /\ position_logs'[c + 1] = OpenLog
      /\ \A i \in 0 .. c - 1 : position_logs'[i + 1] = position_logs[i + 1]
  BY <1>1, <1>2
<1>4. \A j \in Kind :
        positions'[j] = (IF j = k THEN positions[j] \cup {c} ELSE positions[j]) \ voided
  BY DEF CreateAndMatch
<1>5. ASSUME NEW j \in Kind
      PROVE  /\ DOMAIN void_positions'[j] = DOMAIN void_positions[j] \cup MadeVoid(k, voided, j)
             /\ \A i \in DOMAIN void_positions[j] : void_positions'[j][i] = void_positions[j][i]
             /\ \A i \in MadeVoid(k, voided, j) :
                  /\ i \in positions[j] \/ i = c
                  /\ void_positions'[j][i] = NewVoidPosition(q[i])
  <2> DEFINE new == MadeVoid(k, voided, j)
  <2>1. /\ DOMAIN void_positions'[j] = DOMAIN void_positions[j] \cup new
        /\ \A i \in DOMAIN void_positions[j] \ new : void_positions'[j][i] = void_positions[j][i]
        /\ \A i \in new : /\ i \in positions[j] \/ i = c
                          /\ i \notin DOMAIN void_positions[j]
                          /\ void_positions'[j][i] = NewVoidPosition(q[i])
    BY NewVoids
  <2> HIDE DEF new
  <2>2. \A i \in DOMAIN void_positions[j] : void_positions'[j][i] = void_positions[j][i]
    BY <2>1
  <2> QED
    BY <2>1, <2>2 DEF new
<1>6. ASSUME NEW j \in Kind, NEW i \in positions[j], i \in voided
      PROVE  i \in MadeVoid(k, voided, j)
  <2>1. i # c
    BY <1>11, <1>6
  <2>2. PICK h \in Kind : h # k /\ i \in positions[h]
    BY <1>6, <2>1, Kinds DEF Matchees
  <2>3. j # k
    BY <1>6, <2>2 DEF LogInv, KindsApart
  <2> QED
    BY <1>6, <2>1, <2>3 DEF MadeVoid
<1>7. \A j \in Kind : positions[j] \subseteq positions'[j] \cup DOMAIN void_positions'[j]
  BY <1>4, <1>5, <1>6
<1>8. \A j \in Kind : positions'[j] \subseteq positions[j] \cup {c}
  BY <1>4
<1>9. \A j \in Kind : c \in positions'[j] \cup DOMAIN void_positions'[j] => j = k
  BY <1>4, <1>5, <1>11 DEF MadeVoid
<1>10. c \in positions'[k] \cup DOMAIN void_positions'[k]
  BY <1>4, <1>5 DEF MadeVoid
<1>12. \A j \in Kind : MarketMakes(j)
  BY <1>5, <1>7, <1>8 DEF MarketMakes
<1> HIDE DEF c
<1>13. \A i, j \in Kind : i # j =>
         \/ c \notin positions'[i] \cup DOMAIN void_positions'[i]
         \/ c \notin positions'[j] \cup DOMAIN void_positions'[j]
  BY <1>9
<1> QED
  BY <1>1, <1>3, <1>10, <1>12, <1>13, MarketLogs DEF c

LEMMA ResumeUpdates ==
  ASSUME TypeOK, RunShapes, RunShapes', NEW r \in Run, Resume(r)
  PROVE  /\ DOMAIN runs'[r].updates = {}
         /\ \A q \in Run : q # r => runs'[q] = runs[q]
<1>1. \E flushes :
        \/ runs' = [runs EXCEPT ![r] = Idle]
        \/ runs' = [runs EXCEPT ![r] = [runs[r] EXCEPT !.pc = "flushing", !.flushes = flushes]]
  BY DEF Resume, TypeOK
<1>2. RunOK(runs[r]) /\ Idle.pc # "paying"
  BY RunFields DEF Resume, Idle
<1>3. ASSUME NEW flushes,
             runs' = [runs EXCEPT ![r] = [runs[r] EXCEPT !.pc = "flushing", !.flushes = flushes]]
      PROVE  runs'[r].pc # "paying"
  BY <1>2, <1>3 DEF RunOK, TypeOK
<1>4. CASE runs' = [runs EXCEPT ![r] = Idle]
  BY <1>2, <1>4 DEF TypeOK, RunShapes, RunShape
<1> QED
  BY <1>1, <1>3, <1>4, ResumeRuns DEF RunShapes, RunShape

(* No step forgets a position before its log is final.                     *)
LEMMA NextLogs ==
  ASSUME LockInv, LockInv', RecordInv, LogInv, [Next]_vars
  PROVE  LogInv'
<1> USE DEF LockInv
<1>1. CASE UNCHANGED <<marketVars, void_positions, position_logs, transfers, runs>>
  BY <1>1, QuietLogs
<1>2. ASSUME NEW k \in Kind, Trade(k) PROVE LogInv'
  <2>1. PICK voided \in SUBSET (Matchees(k) \cup {positions_id_counter}),
             n \in 0 .. Cardinality(Matchees(k)) :
          \E q \in [voided -> VoidQuantity], sides \in [1 .. n -> [Kind -> TradeSide]] :
            CreateAndMatch(k, voided, n, q, sides)
    BY <1>2 DEF Trade, Matchees
  <2>2. n \in Nat /\ voided \subseteq Matchees(k) \cup {positions_id_counter}
    OBVIOUS
  <2> QED
    BY <2>1, <2>2, CreatePositionLogs
<1>3. ASSUME NEW r \in Run,
             TimerFires(r) \/ SelfCallFails(r) \/ \E s \in Storage : FlushStep(r, s)
      PROVE  LogInv'
  <2>1. UNCHANGED <<marketVars, position_logs>>
    BY <1>3 DEF TimerFires, SelfCallFails, FlushStep, FlushLogs, FlushEnds, FlushStops, Unlock,
                storageVars
  <2>2. /\ UNCHANGED <<transfers, owedVars>>
        /\ runs'[r].pc # "paying" /\ \A q \in Run : q # r => runs'[q] = runs[q]
    BY <1>3, QuietRuns
  <2>3. DOMAIN runs'[r].updates = {}
    BY <2>2 DEF RunShapes, RunShape
  <2> QED
    BY <2>1, <2>2, <2>3, QuietLogs DEF owedVars
<1>4. ASSUME NEW r \in Run, Resume(r) PROVE LogInv'
  <2>1. UNCHANGED <<marketVars, void_positions, position_logs, transfers>>
    BY <1>4 DEF Resume
  <2>2. DOMAIN runs'[r].updates = {} /\ \A q \in Run : q # r => runs'[q] = runs[q]
    BY <1>4, ResumeUpdates
  <2> QED
    BY <2>1, <2>2, QuietLogs
<1>5. ASSUME NEW r \in Run, Canister(r) PROVE LogInv'
  BY <1>3, <1>4, <1>5, StartRunLogs, RepliesLogs DEF Canister, FlushStep
<1>6. ASSUME NEW r \in Run, Callee(r) PROVE LogInv'
  BY <1>6, AnswerLogs, UpdateLogsStored DEF Callee
<1> QED
  BY <1>1, <1>2, <1>5, <1>6, VoidPositionLogs
     DEF Next, Market, MarketError, LedgerFeeChanges, Upgrade, vars, owedVars, storageVars

LEMMA InitLogs == Init => LogInv
<1> SUFFICES ASSUME Init PROVE LogInv
  OBVIOUS
<1>1. /\ \A k \in Kind : positions[k] = {} /\ DOMAIN void_positions[k] = {}
      /\ positions_id_counter = 0 /\ position_logs = <<>>
      /\ \A r \in Run : DOMAIN runs[r].updates = {}
  BY DEF Init, NoTasks, Idle
<1> QED
  BY <1>1 DEF LogInv, KindsApart, VoidLogs, UpdateLogs, PositionLogsFollow

----------------------------------------------------------------------------
(* The theorems *)

(* The inductive invariant of the payouts.                                 *)
PayoutsInv == LockInv /\ LocksOwned /\ RecordInv /\ LogInv

LEMMA NextPayouts ==
  ASSUME PayoutsInv, [Next]_vars
  PROVE  PayoutsInv'
<1>1. LockInv' /\ RunShapes'
  BY NextLocks DEF PayoutsInv, LockInv
<1>2. LocksOwned' /\ RecordInv'
  BY <1>1, NextOwned, NextRecords DEF PayoutsInv, LockInv
<1>3. LogInv'
  BY <1>1, NextLogs DEF PayoutsInv
<1> QED
  BY <1>1, <1>2, <1>3 DEF PayoutsInv

THEOREM RecordsKept == Spec => []PayoutsInv
BY InitLockInv, InitRecords, InitLogs, NextPayouts, PTL DEF Spec, PayoutsInv

(* The flush lock of the storage of the position logs, and that of the     *)
(* trades, is held exactly while one execution updates logs or flushes.    *)
THEOREM FlushLockIsExclusive == Spec => []FlushLockExclusive
<1>1. LockInv /\ LocksOwned => FlushLockExclusive
  BY OwnedExclusive DEF LockInv
<1> QED
  BY <1>1, RecordsKept, PTL DEF PayoutsInv

(* What the contract recorded of a payout is what the ledger did.          *)
THEOREM RecordsMatchLedger == Spec => []PayoutsMatchLedger
<1>1. LockInv /\ RecordInv => PayoutsMatchLedger
  BY RecordsMatch
<1> QED
  BY <1>1, RecordsKept, PTL DEF PayoutsInv

(* A position on the book keeps its open log, and a void position is       *)
(* forgotten only when its log is stored and says what was paid.           *)
THEOREM LogsFollowPositions == Spec => []PositionLogsFollow
<1>1. LogInv => PositionLogsFollow
  BY DEF LogInv
<1> QED
  BY <1>1, RecordsKept, PTL DEF PayoutsInv

----------------------------------------------------------------------------
(* The contract as a whole *)

(* The book holds sound positions that are worth a match; its ids are the  *)
(* positions of Payouts.                                                   *)
BookSound ==
  /\ DOMAIN book = Kind /\ positions_balance \in [Kind -> Nat]
  /\ \A k \in Kind :
       /\ positions[k] = DOMAIN book[k]
       /\ book[k] \in [DOMAIN book[k] -> PositionType]
       /\ \A id \in DOMAIN book[k] : SoundPosition(book[k][id]) /\ Worth(k, book[k][id])

(* So are the quests that wait for the ledger. *)
QuestsWorth ==
  \A c \in TradeCalls :
    /\ calls[c].rate # 0
    /\ ~BelowMinimumQuest(calls[c].kind, calls[c].quantity, calls[c].rate)

(* Every trade call has an id left, and every trade fills a position.      *)
OnBook == UNION {positions[k] : k \in Kind}
Counted ==
  /\ IsFiniteSet(Active)
  /\ \A k \in Kind : IsFiniteSet(locks[k]) /\ Cardinality(locks[k]) <= MaxLocks
  /\ positions_id_counter + Cardinality(TradeCalls) <= MaxId
  /\ trade_logs_id_counter + Cardinality(OnBook) <= positions_id_counter
  /\ Len(trade_logs) <= MaxTradeLogs

ContractInv == CallsInv /\ BookSound /\ QuestsWorth /\ Counted

(* The steps of the market, in the terms of this module. *)
LEMMA SameCardinality == \A S : M!Cardinality(S) = Cardinality(S)
BY Zenon DEF M!Cardinality, Cardinality, M!IsFiniteSet, IsFiniteSet

LEMMA TradeCallIs ==
  ASSUME NEW c \in Call, NEW user \in User, NEW k \in Kind, TradeCall(c, user, k)
  PROVE  /\ UNCHANGED vars /\ UNCHANGED <<book, positions_balance>> /\ BuffersHaveRoom
         /\ positions_id_counter + Cardinality(TradeCalls) < MaxId
         /\ \E quantity \in Quantity[k], rate \in Rate :
              /\ rate # 0 /\ ~BelowMinimumQuest(k, quantity, rate)
              /\ CallBegins(c, [op |-> "trade", user |-> user, kind |-> k,
                                quantity |-> quantity, rate |-> rate, answer |-> "none"])
<1>1. UNCHANGED vars /\ BuffersHaveRoom /\ M!TradeCall(c, user, k)
  BY DEF TradeCall
<1> QED
  BY <1>1, SameCardinality DEF M!TradeCall, M!CallBegins, CallBegins, M!bookVars, M!NoCall, NoCall,
     M!BelowMinimumQuest, BelowMinimumQuest, M!minimum_match, minimum_match, M!Opposite, Opposite, TradeCalls

LEMMA AnswersAre ==
  ASSUME NEW c \in Call, LedgerAnswers(c)
  PROVE  /\ UNCHANGED vars /\ UNCHANGED <<book, locks>>
         /\ calls[c].op # "none" /\ calls[c].answer = "none"
         /\ \/ /\ calls' = [calls EXCEPT ![c].answer = "ok"]
               /\ positions_balance' = [positions_balance EXCEPT ![calls[c].kind] = @ + calls[c].quantity]
            \/ /\ calls' = [calls EXCEPT ![c].answer = "err"]
               /\ UNCHANGED positions_balance
BY DEF LedgerAnswers, M!LedgerAccepts, M!LedgerRefuses, M!bookVars, M!paidVars

(* The match of a call that was paid for. *)
NewOf(c) == NewPosition(calls[c].user, calls[c].quantity, calls[c].rate)
MatchOf(c, limit) ==
  Matched(calls[c].kind, positions_id_counter, NewOf(c), book[Opposite(calls[c].kind)],
          Len(trade_logs), limit)
(* The books with the match done, and what the match fills. *)
AllOf(k, st) == [book EXCEPT ![k] = With(@, positions_id_counter, st.matcher), ![Opposite(k)] = st.matchees]
GoneOf(k, st) == [j \in Kind |-> IF j # k THEN st.filled
                                ELSE IF st.matcher_filled THEN {positions_id_counter} ELSE {}]

PaidTrade(c) == c \in Call /\ calls[c].op = "trade" /\ calls[c].answer = "ok"

LEMMA FiniteBook ==
  ASSUME TypeOK, BookSound, NEW k \in Kind
  PROVE  /\ positions[k] = DOMAIN book[k] /\ IsFiniteSet(DOMAIN book[k]) /\ DOMAIN book[k] \in SUBSET PositionId
         /\ PositionId \subseteq Nat /\ IsFiniteSet(PositionId)
<1>1. PositionId \subseteq Nat /\ IsFiniteSet(PositionId)
  <2>1. 0 \in Int /\ MaxId - 1 \in Int
    BY PayoutsAssumption
  <2> QED
    BY <2>1, FS_Interval DEF PositionId
<1>2. positions[k] = DOMAIN book[k] /\ positions[k] \in SUBSET PositionId
  BY DEF TypeOK, BookSound
<1> QED
  BY <1>1, <1>2, FS_Subset

LEMMA MatchReady ==
  ASSUME TypeOK, ContractInv, NEW c, PaidTrade(c)
  PROVE  /\ calls[c].kind \in Kind /\ calls[c].user \in User /\ calls[c].quantity \in Nat /\ calls[c].rate \in Nat
         /\ Matchable(calls[c].kind, NewOf(c), book[Opposite(calls[c].kind)], Len(trade_logs))
         /\ NewOf(c).mainder = calls[c].quantity
<1> DEFINE call == calls[c]
           k == call.kind
           o == Opposite(k)
           p0 == NewOf(c)
<1>1. /\ call \in CallType /\ call.op # "none" /\ c \in TradeCalls
  BY DEF PaidTrade, ContractInv, CallsInv, TradeCalls
<1>2. /\ k \in Kind /\ call.user \in User /\ call.quantity \in Nat /\ call.rate \in Nat
  BY <1>1, CallFields
<1>3. call.rate # 0 /\ ~BelowMinimumQuest(k, call.quantity, call.rate)
  BY <1>1 DEF ContractInv, QuestsWorth
<1>4. o \in Kind /\ o # k
  BY <1>2, Kinds
<1> HIDE DEF call, k, o
<1>5. /\ p0 = [positor |-> call.user, quantity |-> call.quantity, rate |-> call.rate,
               mainder |-> call.quantity, rates_sum |-> 0, fill |-> 0, fees |-> 0]
  BY DEF NewOf, NewPosition, call
<1>6. SoundPosition(p0) /\ p0.mainder = call.quantity
  BY <1>2, <1>3, <1>5 DEF SoundPosition, PositionType
<1>7. Worth(k, p0)
  BY <1>2, <1>3, QuestWorth DEF NewOf, call
<1>8. /\ DOMAIN book[o] \in SUBSET Nat /\ IsFiniteSet(DOMAIN book[o])
      /\ book[o] \in [DOMAIN book[o] -> PositionType]
      /\ \A x \in DOMAIN book[o] : SoundPosition(book[o][x]) /\ Worth(o, book[o][x])
  BY <1>4, FiniteBook DEF ContractInv, BookSound
<1>9. Len(trade_logs) \in Nat /\ Len(trade_logs) <= MaxTradeLogs
  BY DEF TypeOK, ContractInv, Counted
<1> QED
  BY <1>2, <1>6, <1>7, <1>8, <1>9 DEF Matchable, k, o, call

LEMMA MatchDone ==
  ASSUME TypeOK, ContractInv, NEW c, PaidTrade(c), NEW limit \in MatchLimits
  PROVE  LoopSound(calls[c].kind, NewOf(c), book[Opposite(calls[c].kind)], Len(trade_logs),
                   MatchOf(c, limit), Cardinality(DOMAIN book[Opposite(calls[c].kind)]))
<1>1. limit \in Nat
  BY ContractAssumption
<1>2. positions_id_counter \in Nat
  BY CounterNat
<1> QED
  BY <1>1, <1>2, MatchReady, MatchedSound DEF MatchOf

(* Which positions a match makes void, and what is on the book then.       *)
VoidedBy(k, st) == st.filled \cup (IF st.matcher_filled THEN {positions_id_counter} ELSE {})

LEMMA NewIdUnused ==
  ASSUME TypeOK, BookIds, BookSound
  PROVE  /\ positions_id_counter \in Nat
         /\ \A k \in Kind : positions_id_counter \notin DOMAIN book[k]
                            /\ positions_id_counter \notin DOMAIN void_positions[k]
BY DEF TypeOK, BookIds, BookSound

LEMMA IdLeft ==
  ASSUME TypeOK, ContractInv, NEW c, PaidTrade(c)
  PROVE  positions_id_counter < MaxId /\ positions_id_counter \in Nat
<1>1. c \in TradeCalls /\ TradeCalls \in SUBSET Active /\ IsFiniteSet(Active)
  BY DEF PaidTrade, TradeCalls, Active, ContractInv, Counted
<1>2. IsFiniteSet(TradeCalls)
  BY <1>1, FS_Subset
<1>3. Cardinality(TradeCalls) \in Nat /\ Cardinality(TradeCalls) # 0
  BY <1>1, <1>2, FS_CardinalityType, FS_EmptySet
<1> QED
  BY <1>3, PayoutsAssumption DEF TypeOK, ContractInv, Counted

LEMMA BooksAfter ==
  ASSUME TypeOK, BookIds, BookSound, NEW k \in Kind, NEW st, st \in MatchState(DOMAIN book[Opposite(k)])
  PROVE  /\ DOMAIN AllOf(k, st) = Kind
         /\ AllOf(k, st)[k] = With(book[k], positions_id_counter, st.matcher)
         /\ AllOf(k, st)[Opposite(k)] = st.matchees
         /\ \A j \in Kind : /\ j = k => GoneOf(k, st)[j] = VoidedBy(k, st) \ st.filled
                            /\ j # k => GoneOf(k, st)[j] = st.filled
                            /\ MadeVoid(k, VoidedBy(k, st), j) = GoneOf(k, st)[j]
                            /\ GoneOf(k, st)[j] \subseteq DOMAIN AllOf(k, st)[j]
         /\ DOMAIN AllOf(k, st)[k] = DOMAIN book[k] \cup {positions_id_counter}
         /\ DOMAIN AllOf(k, st)[Opposite(k)] = DOMAIN book[Opposite(k)]
         /\ st.filled \subseteq DOMAIN book[Opposite(k)]
<1> DEFINE id == positions_id_counter
           o == Opposite(k)
<1>1. o \in Kind /\ o # k /\ \A j \in Kind : j # k => j = o
  BY Kinds DEF Kind, Opposite
<1>2. st.filled \subseteq DOMAIN book[o] /\ st.matchees \in [DOMAIN book[o] -> PositionType]
  BY DEF MatchState
<1>3. DOMAIN book = Kind /\ id \notin DOMAIN book[o] /\ id \notin DOMAIN book[k]
  BY <1>1, NewIdUnused DEF BookSound
<1> HIDE DEF o
<1>4. /\ DOMAIN AllOf(k, st) = Kind
      /\ AllOf(k, st)[k] = With(book[k], id, st.matcher)
      /\ AllOf(k, st)[o] = st.matchees
  BY <1>1, <1>3 DEF AllOf, o
<1>5. DOMAIN With(book[k], id, st.matcher) = DOMAIN book[k] \cup {id}
  BY DEF With
<1>6. \A j \in Kind : GoneOf(k, st)[j] = IF j # k THEN st.filled
                                       ELSE IF st.matcher_filled THEN {id} ELSE {}
  BY DEF GoneOf
<1>7. id \notin st.filled
  BY <1>2, <1>3
<1>8. ASSUME NEW j \in Kind
      PROVE  /\ j = k => GoneOf(k, st)[j] = VoidedBy(k, st) \ st.filled
             /\ j # k => GoneOf(k, st)[j] = st.filled
             /\ MadeVoid(k, VoidedBy(k, st), j) = GoneOf(k, st)[j]
             /\ GoneOf(k, st)[j] \subseteq DOMAIN AllOf(k, st)[j]
  <2>1. CASE j = k
    <3>1. GoneOf(k, st)[j] = VoidedBy(k, st) \ st.filled
      BY <1>6, <1>7, <2>1 DEF VoidedBy
    <3>2. GoneOf(k, st)[j] = MadeVoid(k, VoidedBy(k, st), j)
      BY <1>6, <1>7, <2>1 DEF VoidedBy, MadeVoid
    <3>3. GoneOf(k, st)[j] \subseteq DOMAIN AllOf(k, st)[j]
      BY <1>4, <1>5, <1>6, <2>1
    <3> QED
      BY <2>1, <3>1, <3>2, <3>3
  <2>2. CASE j # k
    <3>1. j = o /\ GoneOf(k, st)[j] = st.filled
      BY <1>1, <1>6, <2>2
    <3>2. st.filled = MadeVoid(k, VoidedBy(k, st), j)
      BY <1>7, <2>2 DEF VoidedBy, MadeVoid
    <3>3. DOMAIN AllOf(k, st)[j] = DOMAIN book[o]
      BY <1>2, <1>4, <3>1
    <3> QED
      BY <1>2, <2>2, <3>1, <3>2, <3>3
  <2> QED
    BY <2>1, <2>2
<1> QED
  BY <1>2, <1>4, <1>5, <1>8 DEF o

(* Every trade log comes with a position that is filled.                   *)
LEMMA VoidedCount ==
  ASSUME TypeOK, BookIds, BookSound, NEW k \in Kind, NEW st, NEW queue \in Nat,
         st \in MatchState(DOMAIN book[Opposite(k)]), LoopCounts(queue, st)
  PROVE  LET n == Len(st.logs)
             voided == VoidedBy(k, st)
         IN /\ n \in Nat /\ IsFiniteSet(voided) /\ Cardinality(voided) \in Nat /\ n <= Cardinality(voided)
            /\ Cardinality(voided) <= n + 1
            /\ voided \subseteq positions[Opposite(k)] \cup {positions_id_counter}
            /\ \/ n = 0 /\ voided = {}
               \/ n > 0 /\ Cardinality(voided) = n
               \/ n > 0 /\ Cardinality(voided) = n + 1 /\ positions_id_counter \in voided
<1> DEFINE n == Len(st.logs)
           F == st.filled
           id == positions_id_counter
           o == Opposite(k)
<1>1. o \in Kind
  BY Kinds
<1>2. n \in Nat /\ F \in SUBSET DOMAIN book[o]
  BY LogsAreLogs DEF MatchState
<1>3. id \notin F /\ positions[o] = DOMAIN book[o] /\ IsFiniteSet(DOMAIN book[o])
  BY <1>1, <1>2, NewIdUnused, FiniteBook
<1>4. IsFiniteSet(F) /\ Cardinality(F) \in Nat
  BY <1>2, <1>3, FS_Subset, FS_CardinalityType
<1>5. IsFiniteSet(F \cup {id}) /\ Cardinality(F \cup {id}) = Cardinality(F) + 1
  BY <1>3, <1>4, FS_AddElement
<1>6. /\ \/ n = Cardinality(F)
         \/ st.matcher_filled /\ n = Cardinality(F) + 1
      /\ st.matcher_filled => n # 0
  <2>1. st.logs \in Seq(MatchLogType) /\ (st.matcher_filled => st.logs # <<>>)
    BY DEF LoopCounts, MatchState
  <2>2. st.matcher_filled => n # 0
    BY ONLY <2>1
  <2> QED
    BY <2>2 DEF LoopCounts
<1>7. Cardinality(F) = 0 => F = {}
  BY <1>4, FS_EmptySet
<1>8. CASE st.matcher_filled
  <2>1. VoidedBy(k, st) = F \cup {id} /\ id \in VoidedBy(k, st)
    BY <1>8 DEF VoidedBy
  <2>2. n # 0 /\ (n = Cardinality(F) \/ n = Cardinality(F) + 1)
    BY <1>6, <1>8
  <2> HIDE DEF n, F, id, o
  <2>3. VoidedBy(k, st) \subseteq positions[o] \cup {id}
    BY <1>2, <1>3, <2>1
  <2> QED
    BY <1>2, <1>4, <1>5, <2>1, <2>2, <2>3 DEF n, id, o
<1>9. CASE ~st.matcher_filled
  <2>1. VoidedBy(k, st) = F
    BY <1>9 DEF VoidedBy
  <2>2. n = Cardinality(F)
    BY <1>6, <1>9
  <2> HIDE DEF n, F, id, o
  <2>3. VoidedBy(k, st) \subseteq positions[o] \cup {id}
    BY <1>2, <1>3, <2>1
  <2>4. n = 0 => VoidedBy(k, st) = {}
    BY <1>7, <2>1, <2>2
  <2> QED
    BY <1>2, <1>4, <2>1, <2>2, <2>3, <2>4 DEF n, id, o
<1> QED
  BY <1>8, <1>9

(* There are ids left for the logs of a match.                             *)
LEMMA LogsLeft ==
  ASSUME TypeOK, BookIds, ContractInv, NEW c, PaidTrade(c), NEW k \in Kind,
         NEW n \in Nat, NEW voided, IsFiniteSet(voided), n <= Cardinality(voided),
         voided \subseteq positions[Opposite(k)] \cup {positions_id_counter}
  PROVE  trade_logs_id_counter + n <= MaxTrades
<1> DEFINE id == positions_id_counter
           T == trade_logs_id_counter
<1>1. id < MaxId /\ id \in Nat /\ T \in Nat /\ MaxId \in Nat /\ MaxTrades \in Nat /\ MaxTrades >= MaxId
  BY IdLeft, PayoutsAssumption, ContractAssumption DEF TypeOK
<1>2. IsFiniteSet(OnBook)
  <2>1. OnBook \in SUBSET PositionId
    BY DEF OnBook, TypeOK
  <2>2. IsFiniteSet(PositionId)
    BY FiniteBook, Kinds DEF ContractInv, Kind
  <2> QED
    BY <2>1, <2>2, FS_Subset
<1>3. voided \subseteq OnBook \cup {id}
  BY Kinds DEF OnBook
<1>4. IsFiniteSet(OnBook \cup {id}) /\ Cardinality(OnBook \cup {id}) <= Cardinality(OnBook) + 1
      /\ Cardinality(OnBook) \in Nat /\ Cardinality(OnBook \cup {id}) \in Nat
  <2>1. IsFiniteSet(OnBook \cup {id})
        /\ Cardinality(OnBook \cup {id}) = IF id \in OnBook THEN Cardinality(OnBook) ELSE Cardinality(OnBook) + 1
    BY <1>2, FS_AddElement
  <2> QED
    BY <1>2, <2>1, FS_CardinalityType
<1>5. Cardinality(voided) <= Cardinality(OnBook \cup {id}) /\ Cardinality(voided) \in Nat
  BY <1>3, <1>4, FS_Subset, FS_CardinalityType
<1>6. T + Cardinality(OnBook) <= id
  BY DEF ContractInv, Counted
<1> HIDE DEF id, T
<1> QED
  BY <1>1, <1>4, <1>5, <1>6 DEF T

(* Payouts chooses the amounts that the market hands over from two         *)
(* constants; the contract computes its amounts and mentions neither of    *)
(* them.  So this gives them values that rule out no behaviour of the      *)
(* contract.                                                               *)
Foreseen == VoidQuantity = Nat /\ TradeSide = [mount : Nat, cts_fee : Nat]

(* The step in the words of Payouts: a trade call that was paid for        *)
(* returns.                                                                *)

MatchMade(c, limit) ==
  LET k  == calls[c].kind
      st == MatchOf(c, limit)
  IN /\ book' = [j \in Kind |-> Without(AllOf(k, st)[j], GoneOf(k, st)[j])]
     /\ positions' = [j \in Kind |-> DOMAIN AllOf(k, st)[j] \ GoneOf(k, st)[j]]
     /\ positions_id_counter' = positions_id_counter + 1
     /\ void_positions' = [j \in Kind |->
          [i \in DOMAIN void_positions[j] \cup GoneOf(k, st)[j] |->
             IF i \in GoneOf(k, st)[j] THEN NewVoidPosition(AllOf(k, st)[j][i].mainder)
             ELSE void_positions[j][i]]]
     /\ trade_logs' = trade_logs \o
          [i \in DOMAIN st.logs |-> NewTradeLog(trade_logs_id_counter + i - 1,
             [j \in Kind |-> [mount |-> st.logs[i].mount[j], cts_fee |-> st.logs[i].cts_fee[j]]])]
     /\ trade_logs_id_counter' = trade_logs_id_counter + Len(st.logs)
     /\ position_logs' = Append(position_logs, OpenLog)

LEMMA MatchMadeIs ==
  ASSUME NEW c, NEW limit, MatchNew(c, limit)
  PROVE  MatchMade(c, limit)
BY DEF MatchNew, MatchMade, MatchOf, AllOf, GoneOf, NewOf, new_id

LEMMA MatchIsTrade ==
  ASSUME Foreseen, LockInv, KindsApart, ContractInv, NEW c, PaidTrade(c), NEW limit \in MatchLimits,
         MatchNew(c, limit), timers < MaxTimers, SetTimer, UNCHANGED payVars
  PROVE  Trade(calls[c].kind)
<1> DEFINE k == calls[c].kind
           o == Opposite(k)
           id == positions_id_counter
           st == MatchOf(c, limit)
           all == AllOf(k, st)
           gone == GoneOf(k, st)
           voided == VoidedBy(k, st)
           n == Len(st.logs)
           q == [i \in voided |-> all[IF i = id THEN k ELSE o][i].mainder]
           sides == [i \in 1 .. n |->
                       [j \in Kind |-> [mount |-> st.logs[i].mount[j], cts_fee |-> st.logs[i].cts_fee[j]]]]
<1>1. TypeOK /\ BookIds /\ BookSound
  BY DEF LockInv, ContractInv
<1>2. k \in Kind /\ o \in Kind /\ o # k /\ \A j \in Kind : j # k => j = o
  BY <1>1, MatchReady, Kinds DEF Kind, Opposite
<1>3. /\ LoopPositions(k, NewOf(c), book[o], st) /\ LoopCounts(Len(trade_logs), st)
      /\ n <= Cardinality(DOMAIN book[o])
  BY <1>1, MatchDone DEF LoopSound, Untouched
<1>4. /\ st \in MatchState(DOMAIN book[o])
      /\ st.logs \in Seq(MatchLogType) /\ st.matcher \in PositionType
      /\ st.matchees \in [DOMAIN book[o] -> PositionType]
  BY <1>3 DEF LoopPositions, MatchState
<1>5. Len(trade_logs) \in Nat
  BY <1>1 DEF TypeOK
<1> HIDE DEF k, o, st
<1>6. /\ n \in Nat /\ IsFiniteSet(voided) /\ n <= Cardinality(voided)
      /\ voided \subseteq positions[o] \cup {id}
      /\ \/ n = 0 /\ voided = {}
         \/ n > 0 /\ Cardinality(voided) = n
         \/ n > 0 /\ Cardinality(voided) = n + 1 /\ id \in voided
  BY <1>1, <1>2, <1>3, <1>4, <1>5, VoidedCount DEF o
<1>7. /\ all[k] = With(book[k], id, st.matcher) /\ all[o] = st.matchees
      /\ DOMAIN all[k] = DOMAIN book[k] \cup {id} /\ DOMAIN all[o] = DOMAIN book[o]
      /\ \A j \in Kind : gone[j] = {i \in voided : (i = id) = (j = k)}
  <2>1. st \in MatchState(DOMAIN book[Opposite(k)])
    BY <1>4 DEF o
  <2> HIDE DEF all, gone, voided
  <2>2. /\ AllOf(k, st)[k] = With(book[k], id, st.matcher) /\ AllOf(k, st)[Opposite(k)] = st.matchees
        /\ DOMAIN AllOf(k, st)[k] = DOMAIN book[k] \cup {id}
        /\ DOMAIN AllOf(k, st)[Opposite(k)] = DOMAIN book[Opposite(k)]
        /\ \A j \in Kind : GoneOf(k, st)[j] = MadeVoid(k, VoidedBy(k, st), j)
    BY ONLY <1>1, <1>2, <2>1, BooksAfter
  <2> QED
    BY <2>2 DEF all, gone, voided, o, MadeVoid
<1>8. id < MaxId /\ id \in Nat /\ trade_logs_id_counter + n <= MaxTrades
  BY <1>1, <1>2, <1>6, IdLeft, LogsLeft DEF o
<1>9. MatchMade(c, limit)
  BY MatchMadeIs
<1> HIDE DEF all, gone, voided
<1>10. positions' = [j \in Kind |-> (IF j = k THEN positions[j] \cup {id} ELSE positions[j]) \ voided]
  <2>1. positions' = [j \in Kind |-> DOMAIN all[j] \ gone[j]]
    BY <1>9 DEF MatchMade, all, gone, k, st
  <2>2. /\ positions[k] = DOMAIN book[k] /\ positions[o] = DOMAIN book[o]
        /\ positions[k] \cap positions[o] = {} /\ id \notin positions[k] /\ id \notin positions[o]
    BY <1>1, <1>2, NewIdUnused DEF BookSound, KindsApart
  <2>3. DOMAIN all[k] \ gone[k] = (positions[k] \cup {id}) \ voided
    BY <1>2, <1>6, <1>7, <2>2
  <2>4. DOMAIN all[o] \ gone[o] = positions[o] \ voided
    BY <1>2, <1>6, <1>7, <2>2
  <2>5. \A j \in Kind : DOMAIN all[j] \ gone[j]
                          = (IF j = k THEN positions[j] \cup {id} ELSE positions[j]) \ voided
    BY <1>2, <2>3, <2>4
  <2> QED
    BY <2>1, <2>5
<1>11. q \in [voided -> VoidQuantity]
  <2> SUFFICES ASSUME NEW i \in voided
               PROVE  all[IF i = id THEN k ELSE o][i].mainder \in Nat
    BY DEF Foreseen
  <2>1. \A p \in PositionType : p.mainder \in Nat
    BY DEF PositionType
  <2>2. CASE i = id
    <3>1. all[k][id] = st.matcher
      BY <1>7 DEF With
    <3> QED
      BY <1>4, <2>1, <2>2, <3>1
  <2>3. CASE i # id
    <3>1. i \in DOMAIN book[o]
      BY <1>1, <1>2, <1>6, <2>3 DEF BookSound
    <3> QED
      BY <1>4, <1>7, <2>1, <2>3, <3>1
  <2> QED
    BY <2>2, <2>3
<1>12. sides \in [1 .. n -> [Kind -> TradeSide]]
  <2> SUFFICES ASSUME NEW i \in 1 .. n, NEW j \in Kind
               PROVE  [mount |-> st.logs[i].mount[j], cts_fee |-> st.logs[i].cts_fee[j]]
                        \in [mount : Nat, cts_fee : Nat]
    BY DEF Foreseen
  <2>1. st.logs[i] \in MatchLogType
    BY <1>4, LogsAreLogs
  <2>2. st.logs[i].mount[j] \in Nat /\ st.logs[i].cts_fee[j] \in Nat
    BY <2>1 DEF MatchLogType
  <2> QED
    BY <2>2
<1>13. void_positions' = [j \in Kind |->
          LET new == {i \in voided : (i = id) = (j = k)}
          IN [i \in DOMAIN void_positions[j] \cup new |->
               IF i \in new THEN NewVoidPosition(q[i]) ELSE void_positions[j][i]]]
  <2>1. void_positions' = [j \in Kind |->
          [i \in DOMAIN void_positions[j] \cup gone[j] |->
             IF i \in gone[j] THEN NewVoidPosition(all[j][i].mainder)
             ELSE void_positions[j][i]]]
    BY <1>9 DEF MatchMade, all, gone, k, st
  <2>2. ASSUME NEW j \in Kind, NEW i \in gone[j]
        PROVE  all[j][i].mainder = q[i]
    BY <1>2, <1>7, <2>2
  <2> HIDE DEF q
  <2>3. ASSUME NEW j \in Kind
        PROVE  [i \in DOMAIN void_positions[j] \cup gone[j] |->
                 IF i \in gone[j] THEN NewVoidPosition(all[j][i].mainder)
                 ELSE void_positions[j][i]]
               = [i \in DOMAIN void_positions[j] \cup gone[j] |->
                 IF i \in gone[j] THEN NewVoidPosition(q[i]) ELSE void_positions[j][i]]
    BY <2>2
  <2>4. void_positions' = [j \in Kind |->
          [i \in DOMAIN void_positions[j] \cup gone[j] |->
             IF i \in gone[j] THEN NewVoidPosition(q[i]) ELSE void_positions[j][i]]]
    BY <2>1, <2>3
  <2> QED
    BY <1>7, <2>4
<1>14. trade_logs' = trade_logs \o
          [i \in 1 .. n |-> NewTradeLog(trade_logs_id_counter + i - 1, sides[i])]
  <2>1. DOMAIN st.logs = 1 .. n
    BY <1>4
  <2> QED
    BY <1>9, <2>1 DEF MatchMade, k, st
<1>15. /\ positions_id_counter' = id + 1 /\ trade_logs_id_counter' = trade_logs_id_counter + n
       /\ position_logs' = Append(position_logs, OpenLog) /\ timers' = timers + 1
  BY <1>9 DEF MatchMade, k, st, SetTimer
<1> HIDE DEF q, sides, n, id
<1>16. CreateAndMatch(k, voided, n, q, sides)
  BY <1>6, <1>8, <1>10, <1>13, <1>14, <1>15 DEF CreateAndMatch, payVars, id
<1>17. /\ voided \in SUBSET (positions[o] \cup {id}) /\ n \in 0 .. Cardinality(positions[o])
  <2>1. positions[o] = DOMAIN book[o] /\ Cardinality(positions[o]) \in Nat
    BY <1>1, <1>2, FiniteBook, FS_CardinalityType
  <2> QED
    BY <1>3, <1>6, <2>1
<1> QED
  BY <1>11, <1>12, <1>16, <1>17 DEF Trade, o, k, id

(* A void_position is the one of Payouts, with what is left as quantity.   *)
LEMMA VoidIsVoid ==
  ASSUME Foreseen, BookSound, NEW user \in User, NEW k \in Kind, VoidByUser(user, k)
  PROVE  \E id \in positions[k] : VoidPosition(k, id)
<1>1. PICK id \in DOMAIN book[k] :
        /\ timers < MaxTimers
        /\ positions' = [positions EXCEPT ![k] = @ \ {id}]
        /\ void_positions' = [void_positions EXCEPT
             ![k] = With(@, id, NewVoidPosition(book[k][id].mainder))]
        /\ UNCHANGED <<trade_logs, trade_logs_id_counter, positions_id_counter, position_logs, payVars>>
        /\ SetTimer
  BY DEF VoidByUser
<1>2. id \in positions[k] /\ book[k][id] \in PositionType
  BY DEF BookSound
<1>3. book[k][id].mainder \in VoidQuantity
  BY <1>2 DEF PositionType, Foreseen
<1>4. void_positions' = [void_positions EXCEPT ![k] =
         [i \in DOMAIN @ \cup {id} |-> IF i = id THEN NewVoidPosition(book[k][id].mainder) ELSE @[i]]]
  BY <1>1 DEF With
<1>5. VoidPosition(k, id)
  BY <1>1, <1>3, <1>4 DEF VoidPosition, payVars, SetTimer, storageVars
<1> QED
  BY <1>2, <1>5

(* Every step of the contract is one of Payouts, or is not seen by it.     *)
LEMMA StepIsPayoutsStep ==
  ASSUME Foreseen, PayoutsInv, ContractInv, [ContractNext]_contractVars
  PROVE  [Next]_vars
<1>1. ASSUME NEW c \in Call, NEW user \in User, NEW k \in Kind, TradeCall(c, user, k)
      PROVE  UNCHANGED vars
  BY <1>1, TradeCallIs
<1>2. ASSUME NEW c \in Call, LedgerAnswers(c) PROVE UNCHANGED vars
  BY <1>2, AnswersAre
<1>3. ASSUME NEW c \in Call, TradeReturns(c) PROVE Market
  <2>1. /\ calls[c].op = "trade" /\ timers < MaxTimers /\ SetTimer /\ UNCHANGED payVars
    BY <1>3 DEF TradeReturns
  <2>2. CASE calls[c].answer = "ok"
    <3>1. PICK limit \in MatchLimits : MatchNew(c, limit)
      BY <1>3, <2>2 DEF TradeReturns
    <3>2. PaidTrade(c) /\ LockInv /\ KindsApart /\ TypeOK
      BY <2>1, <2>2 DEF PaidTrade, PayoutsInv, LogInv, LockInv
    <3>3. Trade(calls[c].kind) /\ calls[c].kind \in Kind
      BY <2>1, <3>1, <3>2, MatchIsTrade, MatchReady
    <3> QED
      BY <3>3 DEF Market
  <2>3. CASE calls[c].answer # "ok"
    <3>1. UNCHANGED tradeVars
      BY <1>3, <2>3 DEF TradeReturns
    <3> QED
      BY <2>1, <3>1 DEF Market, MarketError, tradeVars, payVars, SetTimer, marketVars, storageVars
  <2> QED
    BY <2>2, <2>3
<1>4. ASSUME NEW user \in User, NEW k \in Kind, VoidByUser(user, k) PROVE Market
  BY <1>4, VoidIsVoid DEF ContractInv, Market
<1>5. ASSUME VoidRefused PROVE Market
  BY <1>5 DEF VoidRefused, Market, MarketError, tradeVars, payVars, SetTimer, marketVars, storageVars
<1>6. ASSUME NEW r \in Run, Apart(Canister(r)) PROVE Canister(r)
  BY <1>6 DEF Apart
<1>7. ASSUME NEW r \in Run, Answers(r) PROVE Callee(r)
  BY <1>7 DEF Answers, Apart, TransferPaid, Callee
<1>8. CASE UNCHANGED contractVars
  BY <1>8 DEF contractVars
<1>9. CASE ContractNext
  BY <1>1, <1>2, <1>3, <1>4, <1>5, <1>6, <1>7, <1>9 DEF ContractNext, Next
<1> QED
  BY <1>8, <1>9

----------------------------------------------------------------------------
(* The invariant of the contract *)

(* The calls and their locks: one call changes at a time. *)
LEMMA CallCounts ==
  ASSUME CallsInv, CallsInv', Counted, NEW c \in Call, \A d \in Call : d # c => calls'[d] = calls[d]
  PROVE  /\ IsFiniteSet(Active') /\ Cardinality(TradeCalls) \in Nat /\ Cardinality(TradeCalls') \in Nat
         /\ Cardinality(TradeCalls') = Cardinality(TradeCalls) - (IF calls[c].op = "trade" THEN 1 ELSE 0)
                                                               + (IF calls'[c].op = "trade" THEN 1 ELSE 0)
         /\ Cardinality(Active) \in Nat /\ Cardinality(Active') \in Nat
         /\ Cardinality(Active') = Cardinality(Active) - (IF calls[c].op # "none" THEN 1 ELSE 0)
                                                       + (IF calls'[c].op # "none" THEN 1 ELSE 0)
<1>1. IsFiniteSet(Active) /\ IsFiniteSet(TradeCalls)
  <2>1. TradeCalls \in SUBSET Active
    BY DEF TradeCalls, Active
  <2> QED
    BY <2>1, FS_Subset DEF Counted
<1>2. Active' \ {c} = Active \ {c} /\ TradeCalls' \ {c} = TradeCalls \ {c}
  BY DEF Active, TradeCalls
<1>3. /\ c \in Active <=> calls[c].op # "none"
      /\ c \in Active' <=> calls'[c].op # "none"
      /\ c \in TradeCalls <=> calls[c].op = "trade"
      /\ c \in TradeCalls' <=> calls'[c].op = "trade"
  BY DEF Active, TradeCalls
<1>4. /\ IsFiniteSet(Active') /\ Cardinality(Active) \in Nat /\ Cardinality(Active') \in Nat
      /\ Cardinality(Active') = Cardinality(Active) - (IF c \in Active THEN 1 ELSE 0)
                                                    + (IF c \in Active' THEN 1 ELSE 0)
  BY ONLY <1>1, <1>2, CardAt
<1>5. /\ Cardinality(TradeCalls) \in Nat /\ Cardinality(TradeCalls') \in Nat
      /\ Cardinality(TradeCalls') = Cardinality(TradeCalls) - (IF c \in TradeCalls THEN 1 ELSE 0)
                                                            + (IF c \in TradeCalls' THEN 1 ELSE 0)
  BY ONLY <1>1, <1>2, CardAt
<1> QED
  BY <1>3, <1>4, <1>5

(* A step that leaves the book and the calls alone. *)
LEMMA SameContract ==
  ASSUME ContractInv, UNCHANGED <<book, marketVars, locks, calls>>, positions_balance' \in [Kind -> Nat],
         Len(trade_logs') <= MaxTradeLogs
  PROVE  ContractInv'
<1>1. CallsInv'
  BY SameCalls DEF ContractInv
<1>2. BookSound'
  BY DEF ContractInv, BookSound, marketVars
<1>3. UNCHANGED <<Active, TradeCalls, OnBook>>
  BY DEF Active, TradeCalls, OnBook, marketVars
<1>4. QuestsWorth'
  BY <1>3 DEF ContractInv, QuestsWorth
<1>5. Counted'
  BY <1>3 DEF ContractInv, Counted, marketVars
<1> QED
  BY <1>1, <1>2, <1>4, <1>5 DEF ContractInv

LEMMA TradeCallContract ==
  ASSUME TypeOK, ContractInv, NEW c \in Call, NEW user \in User, NEW k \in Kind, TradeCall(c, user, k)
  PROVE  ContractInv'
<1>1. /\ UNCHANGED vars /\ UNCHANGED <<book, positions_balance>>
      /\ positions_id_counter + Cardinality(TradeCalls) < MaxId
  BY TradeCallIs
<1>2. PICK quantity \in Quantity[k], rate \in Rate :
        /\ rate # 0 /\ ~BelowMinimumQuest(k, quantity, rate)
        /\ CallBegins(c, [op |-> "trade", user |-> user, kind |-> k,
                          quantity |-> quantity, rate |-> rate, answer |-> "none"])
  BY TradeCallIs
<1> DEFINE call == [op |-> "trade", user |-> user, kind |-> k,
                    quantity |-> quantity, rate |-> rate, answer |-> "none"]
<1>3. /\ call \in CallType /\ call.op = "trade" /\ call.user = user /\ call.kind = k
      /\ call.quantity = quantity /\ call.rate = rate
  BY ContractAssumption DEF CallType
<1>4. CallBegins(c, call)
  BY <1>2
<1> HIDE DEF call
<1>5. /\ calls[c] = NoCall /\ user \notin locks[k] /\ Cardinality(locks[k]) < MaxLocks
      /\ locks' = [locks EXCEPT ![k] = @ \cup {user}] /\ calls' = [calls EXCEPT ![c] = call]
  BY <1>3, <1>4 DEF CallBegins
<1>6. CallsInv'
  BY <1>3, <1>5, TakeLock DEF ContractInv
<1>7. /\ calls'[c] = call /\ \A d \in Call : d # c => calls'[d] = calls[d]
      /\ calls[c].op = "none"
  BY <1>5 DEF ContractInv, CallsInv, NoCall
<1>8. /\ IsFiniteSet(Active') /\ Cardinality(TradeCalls) \in Nat
      /\ Cardinality(TradeCalls') = Cardinality(TradeCalls) + 1
  BY <1>3, <1>6, <1>7, CallCounts DEF ContractInv
<1>9. \A j \in Kind : IsFiniteSet(locks'[j]) /\ Cardinality(locks'[j]) <= MaxLocks
  <2>1. IsFiniteSet(locks[k]) /\ Cardinality(locks[k]) \in Nat
    BY FS_CardinalityType DEF ContractInv, Counted
  <2>2. IsFiniteSet(locks[k] \cup {user}) /\ Cardinality(locks[k] \cup {user}) = Cardinality(locks[k]) + 1
    BY <1>5, <2>1, FS_AddElement
  <2>3. \A j \in Kind : locks'[j] = IF j = k THEN locks[k] \cup {user} ELSE locks[j]
    BY <1>5 DEF ContractInv, CallsInv
  <2>4. MaxLocks \in Nat
    BY CallsAssumption
  <2> QED
    BY <1>5, <2>1, <2>2, <2>3, <2>4 DEF ContractInv, Counted
<1>10. QuestsWorth'
  <2> SUFFICES ASSUME NEW d \in TradeCalls'
               PROVE  /\ calls'[d].rate # 0
                      /\ ~BelowMinimumQuest(calls'[d].kind, calls'[d].quantity, calls'[d].rate)
    BY DEF QuestsWorth
  <2>1. CASE d = c
    BY <1>2, <1>3, <1>7, <2>1
  <2>2. CASE d # c
    BY <1>7, <2>2 DEF ContractInv, QuestsWorth, TradeCalls
  <2> QED
    BY <2>1, <2>2
<1>11. UNCHANGED <<marketVars, trade_logs>> /\ BookSound'
  BY <1>1 DEF vars, owedVars, ContractInv, BookSound, marketVars
<1>12. Counted'
  <2>1. UNCHANGED OnBook
    BY <1>11 DEF OnBook, marketVars
  <2>2. positions_id_counter' + Cardinality(TradeCalls') <= MaxId
    BY <1>1, <1>8, <1>11, PayoutsAssumption DEF TypeOK, marketVars
  <2> QED
    BY <1>8, <1>9, <1>11, <2>1, <2>2 DEF Counted, ContractInv, marketVars
<1> QED
  BY <1>6, <1>10, <1>11, <1>12 DEF ContractInv

(* An answer changes nothing of a call but the answer. *)
LEMMA AnswerKeeps ==
  ASSUME CallsInv, NEW c \in Call, LedgerAnswers(c)
  PROVE  /\ \A d \in Call : /\ calls'[d].op = calls[d].op /\ calls'[d].kind = calls[d].kind
                            /\ calls'[d].quantity = calls[d].quantity /\ calls'[d].rate = calls[d].rate
         /\ \A d \in Call : d # c => calls'[d] = calls[d]
         /\ UNCHANGED <<Active, TradeCalls>>
<1>1. calls[c].op # "none"
  BY AnswersAre
<1>2. PICK answer \in {"ok", "err"} : calls' = [calls EXCEPT ![c].answer = answer]
  BY AnswersAre
<1>3. calls[c] \in [op : {"trade", "transfer"}, user : User, kind : Kind,
                    quantity : Nat, rate : Nat, answer : {"none", "ok", "err"}]
  BY <1>1, CallFields DEF CallsInv
<1>4. calls \in [Call -> CallType]
  BY DEF CallsInv
<1>5. /\ \A d \in Call : /\ calls'[d].op = calls[d].op /\ calls'[d].kind = calls[d].kind
                         /\ calls'[d].quantity = calls[d].quantity /\ calls'[d].rate = calls[d].rate
      /\ \A d \in Call : d # c => calls'[d] = calls[d]
  BY ONLY <1>2, <1>3, <1>4
<1> QED
  BY <1>5 DEF Active, TradeCalls

LEMMA AnswerContract ==
  ASSUME TypeOK, ContractInv, NEW c \in Call, LedgerAnswers(c)
  PROVE  ContractInv'
<1>1. /\ UNCHANGED vars /\ UNCHANGED <<book, locks>> /\ calls[c].op # "none"
  BY AnswersAre
<1>2. PICK answer \in {"ok", "err"} :
        /\ calls' = [calls EXCEPT ![c].answer = answer]
        /\ answer = "ok" => positions_balance' = [positions_balance EXCEPT ![calls[c].kind] = @ + calls[c].quantity]
        /\ answer = "err" => UNCHANGED positions_balance
  BY AnswersAre
<1>3. CallsInv'
  BY <1>1, <1>2, AnswerCall DEF ContractInv
<1>4. positions_balance' \in [Kind -> Nat]
  <2>1. calls[c].kind \in Kind /\ calls[c].quantity \in Nat
    BY <1>1, CallFields DEF ContractInv, CallsInv
  <2> QED
    BY <1>2, <2>1 DEF ContractInv, BookSound
<1>5. \A d \in Call : /\ calls'[d].op = calls[d].op /\ calls'[d].kind = calls[d].kind
                      /\ calls'[d].quantity = calls[d].quantity /\ calls'[d].rate = calls[d].rate
  BY AnswerKeeps DEF ContractInv
<1>6. UNCHANGED <<Active, TradeCalls, OnBook, marketVars, trade_logs>>
  BY <1>1, <1>5 DEF Active, TradeCalls, OnBook, vars, marketVars, owedVars
<1>7. QuestsWorth'
  BY <1>5, <1>6 DEF ContractInv, QuestsWorth, TradeCalls
<1>8. BookSound' /\ Counted'
  BY <1>1, <1>4, <1>6 DEF ContractInv, BookSound, Counted, marketVars
<1> QED
  BY <1>3, <1>7, <1>8 DEF ContractInv

(* A call ends: its lock and its id are free. *)
LEMMA EndCounts ==
  ASSUME ContractInv, NEW c \in Call, calls[c].op = "trade", CallEnds(c)
  PROVE  /\ CallsInv' /\ QuestsWorth' /\ IsFiniteSet(Active')
         /\ \A k \in Kind : IsFiniteSet(locks'[k]) /\ Cardinality(locks'[k]) <= MaxLocks
         /\ Cardinality(TradeCalls) \in Nat /\ Cardinality(TradeCalls') = Cardinality(TradeCalls) - 1
         /\ Cardinality(Active) \in Nat /\ Cardinality(Active') = Cardinality(Active) - 1
         /\ calls'[c].op = "none" /\ \A d \in Call : d # c => calls'[d] = calls[d]
<1>1. CallsInv'
  BY ReleaseLock DEF ContractInv
<1>2. /\ calls' = [calls EXCEPT ![c] = NoCall]
      /\ locks' = [locks EXCEPT ![calls[c].kind] = @ \ {calls[c].user}]
  BY DEF CallEnds
<1>3. calls'[c].op = "none" /\ \A d \in Call : d # c => calls'[d] = calls[d]
  BY <1>2 DEF ContractInv, CallsInv, NoCall
<1>4. /\ IsFiniteSet(Active') /\ Cardinality(TradeCalls) \in Nat
      /\ Cardinality(TradeCalls') = Cardinality(TradeCalls) - 1
      /\ Cardinality(Active) \in Nat /\ Cardinality(Active') = Cardinality(Active) - 1
  BY <1>1, <1>3, CallCounts DEF ContractInv
<1>5. QuestsWorth'
  BY <1>3 DEF ContractInv, QuestsWorth, TradeCalls
<1>6. ASSUME NEW k \in Kind
      PROVE  IsFiniteSet(locks'[k]) /\ Cardinality(locks'[k]) <= MaxLocks
  <2>1. locks'[k] \in SUBSET locks[k]
    BY <1>2 DEF ContractInv, CallsInv
  <2>2. IsFiniteSet(locks[k]) /\ Cardinality(locks[k]) <= MaxLocks
    BY DEF ContractInv, Counted
  <2>3. IsFiniteSet(locks'[k]) /\ Cardinality(locks'[k]) <= Cardinality(locks[k])
    BY <2>1, <2>2, FS_Subset
  <2> QED
    BY <2>2, <2>3, FS_CardinalityType, CallsAssumption
<1> QED
  BY <1>1, <1>3, <1>4, <1>5, <1>6

(* The books after a match are sound. *)
LEMMA MatchBook ==
  ASSUME LockInv, ContractInv, NEW c, PaidTrade(c), NEW limit \in MatchLimits, MatchMade(c, limit)
  PROVE  /\ DOMAIN book' = Kind
         /\ \A k \in Kind :
              /\ positions'[k] = DOMAIN book'[k]
              /\ book'[k] \in [DOMAIN book'[k] -> PositionType]
              /\ \A id \in DOMAIN book'[k] : SoundPosition(book'[k][id]) /\ Worth(k, book'[k][id])
<1> DEFINE k == calls[c].kind
           o == Opposite(k)
           id == positions_id_counter
           st == MatchOf(c, limit)
           all == AllOf(k, st)
           gone == GoneOf(k, st)
<1>1. TypeOK /\ BookIds /\ BookSound
  BY DEF LockInv, ContractInv
<1>2. k \in Kind /\ o \in Kind /\ o # k /\ \A j \in Kind : j # k => j = o
  BY <1>1, MatchReady, Kinds DEF Kind, Opposite
<1>3. LoopPositions(k, NewOf(c), book[o], st)
  BY <1>1, MatchDone DEF LoopSound
<1>4. /\ book' = [j \in Kind |-> Without(all[j], gone[j])]
      /\ positions' = [j \in Kind |-> DOMAIN all[j] \ gone[j]]
  BY DEF MatchMade
<1> HIDE DEF k, o, st
<1>5. /\ st \in MatchState(DOMAIN book[o]) /\ st.matchees \in [DOMAIN book[o] -> PositionType]
      /\ SoundPosition(st.matcher) /\ (~st.matcher_filled => Worth(k, st.matcher))
      /\ \A x \in DOMAIN book[o] : SoundPosition(st.matchees[x])
      /\ \A x \in DOMAIN book[o] \ st.filled : Worth(o, st.matchees[x])
  BY <1>3 DEF LoopPositions, MatchState, o
<1>6. /\ all[k] = With(book[k], id, st.matcher) /\ all[o] = st.matchees
      /\ DOMAIN all[k] = DOMAIN book[k] \cup {id} /\ DOMAIN all[o] = DOMAIN book[o]
      /\ gone[o] = st.filled /\ gone[k] = IF st.matcher_filled THEN {id} ELSE {}
  <2>1. /\ gone[o] = st.filled /\ gone[k] = IF st.matcher_filled THEN {id} ELSE {}
    BY <1>2 DEF GoneOf
  <2> HIDE DEF gone, all
  <2>2. /\ AllOf(k, st)[k] = With(book[k], id, st.matcher) /\ AllOf(k, st)[o] = st.matchees
        /\ DOMAIN AllOf(k, st)[k] = DOMAIN book[k] \cup {id} /\ DOMAIN AllOf(k, st)[o] = DOMAIN book[o]
    BY <1>1, <1>2, <1>5, BooksAfter DEF o
  <2> QED
    BY <2>1, <2>2 DEF all
<1> HIDE DEF all, gone
<1>7. \A j \in Kind : /\ DOMAIN book'[j] = DOMAIN all[j] \ gone[j] /\ positions'[j] = DOMAIN all[j] \ gone[j]
                      /\ book'[j] = [x \in DOMAIN all[j] \ gone[j] |-> all[j][x]]
  BY <1>4 DEF Without
<1>8. \A x \in DOMAIN book'[o] : SoundPosition(book'[o][x]) /\ Worth(o, book'[o][x])
  <2> TAKE x \in DOMAIN book'[o]
  <2>1. x \in DOMAIN all[o] \ gone[o] /\ book'[o][x] = all[o][x]
    <3>1. /\ DOMAIN book'[o] = DOMAIN all[o] \ gone[o]
          /\ book'[o] = [y \in DOMAIN all[o] \ gone[o] |-> all[o][y]]
      BY <1>2, <1>7
    <3> QED
      BY <3>1
  <2>2. x \in DOMAIN book[o] \ st.filled /\ book'[o][x] = st.matchees[x]
    BY <1>6, <2>1
  <2> QED
    BY <1>5, <2>2
<1>9. \A x \in DOMAIN book'[k] : SoundPosition(book'[k][x]) /\ Worth(k, book'[k][x])
  <2> TAKE x \in DOMAIN book'[k]
  <2>1. x \in DOMAIN all[k] \ gone[k] /\ book'[k][x] = all[k][x]
    BY <1>2, <1>7
  <2>2. all[k][x] = IF x = id THEN st.matcher ELSE book[k][x]
    BY <1>6, <2>1 DEF With
  <2>3. CASE x = id
    BY <1>5, <1>6, <2>1, <2>2, <2>3
  <2>4. CASE x # id
    BY <1>1, <1>2, <1>6, <2>1, <2>2, <2>4 DEF BookSound
  <2> QED
    BY <2>3, <2>4
<1>10. \A j \in Kind : \A x \in DOMAIN book'[j] : SoundPosition(book'[j][x]) /\ Worth(j, book'[j][x])
  BY <1>2, <1>8, <1>9
<1>11. \A j \in Kind : book'[j] \in [DOMAIN book'[j] -> PositionType]
  BY <1>7, <1>10 DEF SoundPosition
<1>12. DOMAIN book' = Kind
  BY <1>4
<1> QED
  BY <1>7, <1>10, <1>11, <1>12

(* Positions that were filled leave the book, the new one joins it.        *)
LEMMA OnBookAfter ==
  ASSUME LockInv, KindsApart, ContractInv, NEW c, PaidTrade(c), NEW limit \in MatchLimits, MatchMade(c, limit)
  PROVE  /\ trade_logs_id_counter' + Cardinality(OnBook') <= positions_id_counter'
         /\ trade_logs' \in Seq(TradeLogType) => Len(trade_logs') <= MaxTradeLogs
         /\ Len(MatchOf(c, limit).logs) \in Nat
<1> DEFINE k == calls[c].kind
           o == Opposite(k)
           id == positions_id_counter
           st == MatchOf(c, limit)
           voided == VoidedBy(k, st)
           n == Len(st.logs)
           B == OnBook \cup {id}
<1>1. TypeOK /\ BookIds /\ BookSound
  BY DEF LockInv, ContractInv
<1>2. k \in Kind /\ o \in Kind /\ o # k /\ \A j \in Kind : j # k => j = o
  BY <1>1, MatchReady, Kinds DEF Kind, Opposite
<1>3. LoopPositions(k, NewOf(c), book[o], st) /\ LoopCounts(Len(trade_logs), st)
  BY <1>1, MatchDone DEF LoopSound
<1>4. /\ positions' = [j \in Kind |-> DOMAIN AllOf(k, st)[j] \ GoneOf(k, st)[j]]
      /\ positions_id_counter' = id + 1 /\ trade_logs_id_counter' = trade_logs_id_counter + n
  BY DEF MatchMade
<1>5. trade_logs' = trade_logs \o
          [i \in DOMAIN st.logs |-> NewTradeLog(trade_logs_id_counter + i - 1,
             [j \in Kind |-> [mount |-> st.logs[i].mount[j], cts_fee |-> st.logs[i].cts_fee[j]]])]
  BY DEF MatchMade
<1> HIDE DEF k, o, st
<1>6. st \in MatchState(DOMAIN book[Opposite(k)]) /\ Len(trade_logs) \in Nat /\ st.logs \in Seq(MatchLogType)
  BY <1>1, <1>3 DEF LoopPositions, MatchState, TypeOK, o
<1>7. /\ n \in Nat /\ IsFiniteSet(voided) /\ n <= Cardinality(voided) /\ Cardinality(voided) \in Nat
      /\ voided \subseteq positions[o] \cup {id}
  BY <1>1, <1>2, <1>3, <1>6, VoidedCount DEF o
<1>8. /\ positions'[k] = (positions[k] \cup {id}) \ MadeVoid(k, voided, k)
      /\ positions'[o] = positions[o] \ MadeVoid(k, voided, o)
  <2> HIDE DEF voided, n, B
  <2>1. /\ DOMAIN AllOf(k, st)[k] = DOMAIN book[k] \cup {id} /\ DOMAIN AllOf(k, st)[o] = DOMAIN book[o]
        /\ MadeVoid(k, VoidedBy(k, st), k) = GoneOf(k, st)[k] /\ MadeVoid(k, VoidedBy(k, st), o) = GoneOf(k, st)[o]
    BY <1>1, <1>2, <1>6, BooksAfter DEF o
  <2>2. positions[k] = DOMAIN book[k] /\ positions[o] = DOMAIN book[o]
    BY <1>1, <1>2 DEF BookSound
  <2> QED
    BY <1>2, <1>4, <2>1, <2>2 DEF voided
<1>9. OnBook = positions[k] \cup positions[o] /\ OnBook' = positions'[k] \cup positions'[o]
  BY <1>2 DEF OnBook
<1>10. positions[k] \cap positions[o] = {} /\ id \notin OnBook /\ id \in Nat
  <2>1. positions[k] \cap positions[o] = {}
    BY <1>2 DEF KindsApart
  <2>2. id \in Nat /\ id \notin positions[k] /\ id \notin positions[o]
    BY <1>1, <1>2, NewIdUnused DEF BookSound
  <2> QED
    BY <1>9, <2>1, <2>2
<1> HIDE DEF voided, n
<1>11. OnBook' = B \ voided /\ voided \subseteq B
  <2>1. MadeVoid(k, voided, k) = voided \cap {id} /\ MadeVoid(k, voided, o) = voided \ {id}
    BY <1>2 DEF MadeVoid
  <2> QED
    BY <1>7, <1>8, <1>9, <1>10, <2>1
<1>12. IsFiniteSet(OnBook) /\ Cardinality(OnBook) \in Nat
  <2>1. OnBook \in SUBSET PositionId
    BY <1>1 DEF OnBook, TypeOK
  <2> QED
    BY <1>1, <1>2, <2>1, FiniteBook, FS_Subset, FS_CardinalityType
<1>13. IsFiniteSet(B) /\ Cardinality(B) = Cardinality(OnBook) + 1
  BY <1>10, <1>12, FS_AddElement
<1>14. Cardinality(OnBook') = Cardinality(OnBook) + 1 - Cardinality(voided)
  <2>1. B \cap voided = voided
    BY <1>11
  <2> HIDE DEF B
  <2>2. Cardinality(B \ voided) = Cardinality(B) - Cardinality(B \cap voided)
    BY <1>13, FS_Difference
  <2>3. Cardinality(OnBook') = Cardinality(B \ voided) /\ Cardinality(B \cap voided) = Cardinality(voided)
    BY ONLY <1>11, <2>1
  <2> QED
    BY ONLY <1>7, <1>12, <1>13, <2>2, <2>3
<1>15. trade_logs_id_counter + Cardinality(OnBook) <= id /\ trade_logs_id_counter \in Nat
  BY <1>1 DEF ContractInv, Counted, TypeOK
<1>16. trade_logs' \in Seq(TradeLogType) => Len(trade_logs') <= MaxTradeLogs
  <2>1. Len(trade_logs) + n <= MaxTradeLogs
    BY <1>3 DEF LoopCounts, n
  <2>2. trade_logs \in Seq(TradeLogType)
    BY <1>1 DEF TypeOK
  <2>3. DOMAIN st.logs = 1 .. n
    BY <1>6 DEF n
  <2> DEFINE log(i) == NewTradeLog(trade_logs_id_counter + i - 1,
                         [j \in Kind |-> [mount |-> st.logs[i].mount[j], cts_fee |-> st.logs[i].cts_fee[j]]])
  <2>4. trade_logs' = trade_logs \o [i \in 1 .. n |-> log(i)]
    BY <1>5, <2>3
  <2> HIDE DEF log
  <2>5. Len(trade_logs \o [i \in 1 .. n |-> log(i)]) = Len(trade_logs) + n
    BY <1>7, <2>2
  <2> QED
    BY <2>1, <2>4, <2>5
<1> HIDE DEF B, id
<1> QED
  BY <1>4, <1>7, <1>10, <1>12, <1>14, <1>15, <1>16 DEF id, n, st

LEMMA ReturnContract ==
  ASSUME LockInv, KindsApart, TypeOK', ContractInv, NEW c \in Call, TradeReturns(c)
  PROVE  ContractInv'
<1>1. calls[c].op = "trade" /\ CallEnds(c) /\ UNCHANGED positions_balance
  BY DEF TradeReturns
<1>2. /\ CallsInv' /\ QuestsWorth' /\ IsFiniteSet(Active')
      /\ \A k \in Kind : IsFiniteSet(locks'[k]) /\ Cardinality(locks'[k]) <= MaxLocks
      /\ Cardinality(TradeCalls) \in Nat /\ Cardinality(TradeCalls') = Cardinality(TradeCalls) - 1
  BY <1>1, EndCounts
<1>3. /\ positions_id_counter + Cardinality(TradeCalls) <= MaxId /\ positions_id_counter \in Nat
      /\ MaxId \in Nat
  BY PayoutsAssumption DEF ContractInv, Counted, LockInv, TypeOK
<1>4. CASE calls[c].answer = "ok"
  <2>1. PICK limit \in MatchLimits : MatchNew(c, limit)
    BY <1>4 DEF TradeReturns
  <2>2. PaidTrade(c) /\ MatchMade(c, limit)
    BY <1>1, <1>4, <2>1, MatchMadeIs DEF PaidTrade
  <2>3. BookSound'
    BY <1>1, <2>2, MatchBook DEF BookSound, ContractInv
  <2>4. /\ trade_logs_id_counter' + Cardinality(OnBook') <= positions_id_counter'
        /\ Len(trade_logs') <= MaxTradeLogs
    BY <2>2, OnBookAfter DEF TypeOK
  <2>5. positions_id_counter' = positions_id_counter + 1
    BY <2>2 DEF MatchMade
  <2>6. positions_id_counter' + Cardinality(TradeCalls') <= MaxId
    BY <1>2, <1>3, <2>5
  <2> QED
    BY <1>2, <2>3, <2>4, <2>6 DEF ContractInv, Counted
<1>5. CASE calls[c].answer # "ok"
  <2>1. UNCHANGED <<book, positions, positions_id_counter, trade_logs_id_counter, trade_logs>>
    BY <1>5 DEF TradeReturns, tradeVars, owedVars
  <2>2. BookSound' /\ UNCHANGED OnBook
    BY <1>1, <2>1 DEF ContractInv, BookSound, OnBook
  <2>3. positions_id_counter' + Cardinality(TradeCalls') <= MaxId
    BY <1>2, <1>3, <2>1
  <2> QED
    BY <1>2, <2>1, <2>2, <2>3 DEF ContractInv, Counted
<1> QED
  BY <1>4, <1>5

LEMMA VoidContract ==
  ASSUME LockInv, ContractInv, NEW user \in User, NEW k \in Kind, VoidByUser(user, k)
  PROVE  ContractInv'
<1>1. PICK id \in DOMAIN book[k] :
        /\ book' = [book EXCEPT ![k] = Without(@, {id})]
        /\ positions' = [positions EXCEPT ![k] = @ \ {id}]
        /\ UNCHANGED <<locks, calls, positions_balance, trade_logs, trade_logs_id_counter,
                       positions_id_counter>>
  BY DEF VoidByUser
<1>2. TypeOK /\ BookSound
  BY DEF LockInv, ContractInv
<1>3. /\ DOMAIN book' = Kind
      /\ \A j \in Kind : /\ book'[j] = IF j = k THEN Without(book[k], {id}) ELSE book[j]
                         /\ positions'[j] = IF j = k THEN positions[k] \ {id} ELSE positions[j]
  BY <1>1, <1>2 DEF BookSound, TypeOK
<1>4. /\ DOMAIN Without(book[k], {id}) = DOMAIN book[k] \ {id}
      /\ \A x \in DOMAIN book[k] \ {id} : Without(book[k], {id})[x] = book[k][x]
      /\ Without(book[k], {id}) \in [DOMAIN book[k] \ {id} -> PositionType]
  BY <1>2 DEF Without, BookSound
<1>5. BookSound'
  <2> SUFFICES ASSUME NEW j \in Kind
               PROVE  /\ positions'[j] = DOMAIN book'[j]
                      /\ book'[j] \in [DOMAIN book'[j] -> PositionType]
                      /\ \A x \in DOMAIN book'[j] : SoundPosition(book'[j][x]) /\ Worth(j, book'[j][x])
    BY <1>1, <1>2, <1>3 DEF BookSound
  <2>1. CASE j = k
    <3> DEFINE W == Without(book[k], {id})
    <3>1. book'[j] = W /\ positions'[j] = DOMAIN W
      BY <1>2, <1>3, <1>4, <2>1 DEF BookSound
    <3>2. \A x \in DOMAIN W : SoundPosition(W[x]) /\ Worth(k, W[x])
      BY <1>2, <1>4 DEF BookSound
    <3>3. W \in [DOMAIN W -> PositionType]
      BY <1>4
    <3> HIDE DEF W
    <3> QED
      BY <2>1, <3>1, <3>2, <3>3
  <2>2. CASE j # k
    BY <1>2, <1>3, <2>2 DEF BookSound
  <2> QED
    BY <2>1, <2>2
<1>6. Cardinality(OnBook') <= Cardinality(OnBook) /\ Cardinality(OnBook) \in Nat /\ Cardinality(OnBook') \in Nat
  <2>1. OnBook' \in SUBSET OnBook /\ OnBook \in SUBSET PositionId
    <3>1. \A j \in Kind : positions'[j] \subseteq positions[j] /\ positions[j] \subseteq PositionId
      BY <1>2, <1>3 DEF TypeOK
    <3> QED
      BY ONLY <3>1 DEF OnBook
  <2>2. IsFiniteSet(OnBook)
    BY <1>2, <2>1, FiniteBook, FS_Subset
  <2> QED
    BY <2>1, <2>2, FS_Subset, FS_CardinalityType
<1>7. trade_logs_id_counter' + Cardinality(OnBook') <= positions_id_counter'
  BY <1>1, <1>2, <1>6 DEF ContractInv, Counted, TypeOK
<1>8. CallsInv' /\ QuestsWorth' /\ UNCHANGED <<Active, TradeCalls>>
  <2>1. UNCHANGED <<Active, TradeCalls>>
    BY <1>1 DEF Active, TradeCalls
  <2> QED
    BY <1>1, <2>1, SameCalls DEF ContractInv, QuestsWorth
<1>9. Counted'
  BY <1>1, <1>7, <1>8 DEF ContractInv, Counted
<1> QED
  BY <1>5, <1>8, <1>9 DEF ContractInv

(* The payouts shorten the queue, if they change it at all.                *)
LEMMA QueueShrinks ==
  ASSUME TypeOK, TypeOK', NEW r \in Run, Canister(r) \/ Callee(r)
  PROVE  Len(trade_logs') <= Len(trade_logs) /\ UNCHANGED marketVars
<1>1. CASE UNCHANGED <<trade_logs, marketVars>>
  BY <1>1 DEF TypeOK
<1>2. ASSUME NEW vps, NEW tls \in Seq(TradeLogType), NEW lock, NEW payouts, NEW updates,
             Polled(r, vps, tls, lock, payouts, updates), Len(tls) = Len(trade_logs)
      PROVE  Len(trade_logs') <= Len(trade_logs)
  <2>1. Len(SettledTrades(tls, payouts)) = Len(tls) /\ Len(tls) \in Nat
    BY DEF SettledTrades
  <2>2. trade_logs' = tls \/ trade_logs' = SettledTrades(tls, payouts)
    BY <1>2 DEF Polled
  <2> QED
    BY <1>2, <2>1, <2>2
<1>3. CASE StartRun(r)
  <2>1. LockedTrades \in Seq(TradeLogType) /\ Len(LockedTrades) = Len(trade_logs)
    BY LockedTradesType, LockedTradesFacts DEF LockedTrades, TypeOK
  <2> QED
    BY <1>2, <1>3, <2>1 DEF StartRun
<1>4. ASSUME NEW o \in DOMAIN runs[r].payouts, PayoutReply(r, o)
      PROVE  Len(trade_logs') <= Len(trade_logs) /\ UNCHANGED marketVars
  BY <1>2, <1>4 DEF PayoutReply, TypeOK
<1>5. ASSUME NEW u \in DOMAIN runs[r].updates, UpdateReply(r, u)
      PROVE  Len(trade_logs') <= Len(trade_logs) /\ UNCHANGED marketVars
  BY <1>2, <1>5 DEF UpdateReply, TypeOK
<1>6. CASE Resume(r)
  <2>1. PICK n \in 0 .. Len(trade_logs) : trade_logs' = SubSeq(trade_logs, n + 1, Len(trade_logs))
    BY <1>6 DEF Resume
  <2>2. Len(trade_logs) \in Nat /\ UNCHANGED marketVars
    BY <1>6 DEF Resume, TypeOK
  <2>3. Len(SubSeq(trade_logs, n + 1, Len(trade_logs))) = Len(trade_logs) - n
    BY <2>2 DEF TypeOK
  <2> QED
    BY <2>1, <2>2, <2>3
<1>7. ASSUME TimerFires(r) \/ SelfCallFails(r) \/ \E s \in Storage : FlushLogs(r, s) \/ FlushEnds(r, s) \/ FlushStops(r, s)
      PROVE  UNCHANGED <<trade_logs, marketVars>>
  BY <1>7 DEF TimerFires, SelfCallFails, FlushLogs, FlushEnds, FlushStops, Unlock, owedVars
<1>8. ASSUME Callee(r) PROVE UNCHANGED <<trade_logs, marketVars>>
  BY <1>8 DEF Callee, Transfer, BadFee, TransferFails, CmUpdateLog, UpdateFails, owedVars
<1> QED
  BY <1>1, <1>3, <1>4, <1>5, <1>6, <1>7, <1>8 DEF Canister

(* The ledger takes what the payout names: it has it. *)
LEMMA BalanceStays ==
  ASSUME TypeOK, BookSound, NEW r \in Run, NEW o \in DOMAIN runs[r].payouts, TransferPaid(r, o)
  PROVE  positions_balance' \in [Kind -> Nat]
<1> DEFINE st == runs[r].payouts[o]
<1>1. o \in Obligation /\ st \in PayoutStatus
  BY DEF TypeOK, RunOK, PartialFunction
<1>2. st.amount \in Nat /\ st.fee \in Nat /\ o.kind \in Kind
  BY <1>1 DEF PayoutStatus, Obligation
<1>3. /\ positions_balance[o.kind] >= st.amount + st.fee
      /\ positions_balance' = [positions_balance EXCEPT ![o.kind] = @ - st.amount - st.fee]
  BY DEF TransferPaid
<1>4. positions_balance \in [Kind -> Nat]
  BY DEF BookSound
<1> HIDE DEF st
<1>5. positions_balance[o.kind] - st.amount - st.fee \in Nat
  BY <1>2, <1>3, <1>4
<1> QED
  BY <1>3, <1>4, <1>5

LEMMA NextContract ==
  ASSUME Foreseen, PayoutsInv, PayoutsInv', ContractInv, [ContractNext]_contractVars
  PROVE  ContractInv'
<1>1. LockInv /\ KindsApart /\ TypeOK /\ TypeOK' /\ positions_balance \in [Kind -> Nat]
      /\ BookSound /\ Len(trade_logs) <= MaxTradeLogs
  BY DEF PayoutsInv, LockInv, LogInv, ContractInv, BookSound, Counted
<1>2. ASSUME NEW r \in Run, Canister(r) \/ Callee(r) PROVE Len(trade_logs') <= MaxTradeLogs /\ UNCHANGED marketVars
  <2>1. Len(trade_logs') <= Len(trade_logs) /\ UNCHANGED marketVars
    BY <1>1, <1>2, QueueShrinks
  <2>2. Len(trade_logs') \in Nat /\ Len(trade_logs) \in Nat /\ MaxTradeLogs \in Nat
    <3>1. trade_logs \in Seq(TradeLogType) /\ trade_logs' \in Seq(TradeLogType)
      BY <1>1, Zenon DEF TypeOK
    <3> QED
      BY <3>1, MatchingAssumption
  <2> QED
    BY ONLY <1>1, <2>1, <2>2
<1>3. ASSUME NEW r \in Run, Apart(Canister(r)) PROVE ContractInv'
  BY <1>1, <1>2, <1>3, SameContract DEF Apart, callVars
<1>4. ASSUME NEW r \in Run, Answers(r) PROVE ContractInv'
  <2>1. Callee(r) /\ UNCHANGED <<book, locks, calls>>
    BY <1>4 DEF Answers, Apart, TransferPaid, Callee, callVars
  <2>2. positions_balance' \in [Kind -> Nat]
    <3>1. CASE \E o \in DOMAIN runs[r].payouts : TransferPaid(r, o)
      BY <1>1, <3>1, BalanceStays
    <3>2. CASE UNCHANGED positions_balance
      BY <1>1, <3>2
    <3> QED
      BY <1>4, <3>1, <3>2 DEF Answers, Apart, callVars
  <2> QED
    BY <1>2, <2>1, <2>2, SameContract
<1>5. ASSUME VoidRefused \/ UNCHANGED contractVars PROVE ContractInv'
  <2>1. UNCHANGED <<book, marketVars, locks, calls, positions_balance, trade_logs>>
    BY <1>5 DEF VoidRefused, callVars, tradeVars, contractVars, vars, marketVars, owedVars
  <2> QED
    BY <1>1, <2>1, SameContract
<1>6. ASSUME NEW c \in Call, LedgerAnswers(c) \/ TradeReturns(c) PROVE ContractInv'
  BY <1>1, <1>6, AnswerContract, ReturnContract
<1>7. ASSUME NEW c \in Call, NEW user \in User, NEW k \in Kind, TradeCall(c, user, k) PROVE ContractInv'
  BY <1>1, <1>7, TradeCallContract
<1>8. ASSUME NEW user \in User, NEW k \in Kind, VoidByUser(user, k) PROVE ContractInv'
  BY <1>1, <1>8, VoidContract
<1> QED
  BY <1>3, <1>4, <1>5, <1>6, <1>7, <1>8 DEF ContractNext

LEMMA InitContract == ContractInit => ContractInv
<1> SUFFICES ASSUME ContractInit PROVE ContractInv
  OBVIOUS
<1>1. /\ Init /\ book = [k \in Kind |-> <<>>] /\ locks = [k \in Kind |-> {}]
      /\ calls = [c \in Call |-> NoCall] /\ positions_balance = [k \in Kind |-> 0]
  BY DEF ContractInit
<1>2. /\ \A k \in Kind : positions[k] = {}
      /\ positions_id_counter = 0 /\ trade_logs_id_counter = 0 /\ trade_logs = <<>>
  BY <1>1 DEF Init
<1>3. Active = {} /\ TradeCalls = {} /\ OnBook = {}
  BY <1>1, <1>2 DEF Active, TradeCalls, OnBook, NoCall
<1>4. CallsInv
  BY <1>1 DEF CallsInv, OneCallPerBalance, CallType, NoCall
<1>5. BookSound
  <2>1. \A k \in Kind : book[k] = <<>>
    BY <1>1, Zenon
  <2>2. \A s : s = <<>> => s \in [DOMAIN s -> PositionType] /\ DOMAIN s = {}
    OBVIOUS
  <2> QED
    BY <1>1, <1>2, <2>1, <2>2 DEF BookSound
<1>6. QuestsWorth
  BY <1>3 DEF QuestsWorth
<1>7. Counted
  <2>1. IsFiniteSet({}) /\ Cardinality({}) = 0
    BY FS_EmptySet
  <2> QED
    BY <1>1, <1>2, <1>3, <2>1, PayoutsAssumption, CallsAssumption, MatchingAssumption DEF Counted
<1> QED
  BY <1>4, <1>5, <1>6, <1>7 DEF ContractInv

(* The market hands over what Payouts says it may: with every amount       *)
(* foreseen, each step of the contract is a step of Payouts or leaves it   *)
(* alone, so everything proved of Payouts holds of the contract.           *)
THEOREM ContractImplementsPayouts == Foreseen => (ContractSpec => PayoutsImplemented)
<1> SUFFICES ASSUME Foreseen PROVE ContractSpec => PayoutsImplemented
  OBVIOUS
<1>1. ContractInit => Init /\ ContractInv /\ PayoutsInv
  BY InitContract, InitLockInv, InitRecords, InitLogs DEF ContractInit, PayoutsInv
<1>2. PayoutsInv /\ ContractInv /\ [ContractNext]_contractVars => [Next]_vars /\ (PayoutsInv /\ ContractInv)'
  BY StepIsPayoutsStep, NextPayouts, NextContract
<1> QED
  BY <1>1, <1>2, PTL DEF ContractSpec, PayoutsImplemented, Spec

(* The inductive invariant of the contract, with that of the payouts in it *)
(* (cm_tc/src/lib.rs: _trade, match_trades; payouts/mod.rs: do_payouts).   *)
THEOREM ContractInvariant ==
  Foreseen => (ContractSpec => [](PayoutsInv /\ ContractInv))
<1> SUFFICES ASSUME Foreseen PROVE ContractSpec => [](PayoutsInv /\ ContractInv)
  OBVIOUS
<1>1. ContractInit => ContractInv /\ PayoutsInv
  BY InitContract, InitLockInv, InitRecords, InitLogs DEF ContractInit, PayoutsInv
<1>2. PayoutsInv /\ ContractInv /\ [ContractNext]_contractVars => (PayoutsInv /\ ContractInv)'
  BY StepIsPayoutsStep, NextPayouts, NextContract
<1> QED
  BY <1>1, <1>2, PTL DEF ContractSpec

(* The contract keeps what its market and its payouts keep on their own:   *)
(* nothing is paid twice, records tell what the ledgers did, trades are    *)
(* stored in order, and no balance is used by two calls at once.           *)
THEOREM ContractKeeps ==
  Foreseen => (ContractSpec => [](/\ PaidAtMostOnce /\ PayoutsMatchLedger /\ TradesStoredInOrder
                                  /\ OneCallPerBalance))
<1> SUFFICES ASSUME Foreseen
             PROVE  ContractSpec => [](/\ PaidAtMostOnce /\ PayoutsMatchLedger /\ TradesStoredInOrder
                                       /\ OneCallPerBalance)
  OBVIOUS
<1>1. ContractSpec => Spec
  BY ContractImplementsPayouts DEF PayoutsImplemented
<1>2. PayoutsInv /\ ContractInv => OneCallPerBalance
  BY DEF ContractInv, CallsInv
<1> QED
  BY <1>1, <1>2, ContractInvariant, NeverPaidTwice, RecordsMatchLedger, StoredInOrder, PTL

----------------------------------------------------------------------------
(* The buffers *)

LEMMA ActiveBounded ==
  ContractInv =>
    Cardinality(Active) \in Nat /\ Cardinality(Active) <= Callers /\ Callers \in Nat
<1> SUFFICES ASSUME ContractInv
             PROVE  Cardinality(Active) \in Nat /\ Cardinality(Active) <= Callers /\ Callers \in Nat
  OBVIOUS
<1>1. CallsInv /\ IsFiniteSet(Active) /\ MaxLocks \in Nat
  BY CallsAssumption DEF ContractInv, Counted
<1>2. ASSUME NEW k \in Kind
      PROVE  IsFiniteSet(CallsAt(k)) /\ Cardinality(CallsAt(k)) \in Nat /\ Cardinality(CallsAt(k)) <= MaxLocks
  <2>1. Cardinality(locks[k]) \in Nat /\ Cardinality(CallsAt(k)) <= Cardinality(locks[k])
    BY <1>1, CallersHaveLocks
  <2>2. CallsAt(k) \subseteq Active
    BY DEF CallsAt, Active
  <2>3. Cardinality(locks[k]) <= MaxLocks
    BY DEF ContractInv, Counted
  <2>4. IsFiniteSet(CallsAt(k)) /\ Cardinality(CallsAt(k)) \in Nat
    BY <1>1, <2>2, FS_Subset, FS_CardinalityType
  <2> QED
    BY <1>1, <2>1, <2>3, <2>4
<1>3. Active = CallsAt("Cycles") \cup CallsAt("Token")
  <2>1. \A c \in Active : calls[c].kind \in Kind
    BY <1>1, CallFields DEF Active, CallsInv
  <2> QED
    BY <2>1 DEF Active, CallsAt, Kind
<1>4. Cardinality(Kind) = 2
  <2>1. IsFiniteSet({}) /\ Cardinality({}) = 0
    BY FS_EmptySet
  <2>2. IsFiniteSet({} \cup {"Cycles"}) /\ Cardinality({} \cup {"Cycles"}) = 1
    BY <2>1, FS_AddElement
  <2>3. Cardinality(({} \cup {"Cycles"}) \cup {"Token"}) = 2
    BY <2>2, FS_AddElement
  <2>4. Kind = ({} \cup {"Cycles"}) \cup {"Token"}
    BY DEF Kind
  <2> QED
    BY <2>3, <2>4
<1>5. Cardinality(Active) <= Cardinality(CallsAt("Cycles")) + Cardinality(CallsAt("Token"))
  <2>1. IsFiniteSet(CallsAt("Cycles")) /\ IsFiniteSet(CallsAt("Token"))
    BY <1>2 DEF Kind
  <2>2. Cardinality(Active) = Cardinality(CallsAt("Cycles")) + Cardinality(CallsAt("Token"))
                               - Cardinality(CallsAt("Cycles") \cap CallsAt("Token"))
    BY <1>3, <2>1, FS_Union
  <2>3. Cardinality(CallsAt("Cycles") \cap CallsAt("Token")) \in Nat
    BY <2>1, FS_Intersection, FS_CardinalityType
  <2> QED
    BY <1>2, <2>2, <2>3 DEF Kind
<1>6. Cardinality(Active) \in Nat
  BY <1>1, FS_CardinalityType
<1>7. "Cycles" \in Kind /\ "Token" \in Kind
  BY DEF Kind
<1> QED
  BY <1>1, <1>2, <1>4, <1>5, <1>6, <1>7 DEF Callers

(* What bounds the buffers, with the calls in progress counted.            *)
Stored == Len(trades_stored) + Len(trade_logs)
BufferTypes ==
  /\ Len(position_logs) \in Nat /\ Len(trades_stored) \in Nat /\ Len(trade_logs) \in Nat
  /\ flushed["positions"] \in Nat /\ flushed["trades"] \in Nat

LEMMA BufferTyped == TypeOK => BufferTypes
BY DEF TypeOK, BufferTypes, Storage

LEMMA BuffersAre ==
  /\ InProgress = Cardinality(Active)
  /\ BuffersBounded <=>
       /\ Len(position_logs) - flushed["positions"] + Cardinality(Active) <= MaxBuffer - 1 + Callers
       /\ Len(trades_stored) - flushed["trades"] + Len(trade_logs) + Cardinality(Active) * MaxTradeLogs
            <= MaxBuffer - 1 + (Callers + 1) * MaxTradeLogs
BY DEF InProgress, Active, BuffersBounded, BufferLen

(* The same of the next state. *)
LEMMA BuffersNext ==
  /\ ContractInv' => Cardinality(Active') \in Nat /\ Cardinality(Active') <= Callers
  /\ TypeOK' => BufferTypes'
  /\ BuffersBounded' <=>
       /\ Len(position_logs') - flushed'["positions"] + Cardinality(Active') <= MaxBuffer - 1 + Callers
       /\ Len(trades_stored') - flushed'["trades"] + Len(trade_logs') + Cardinality(Active') * MaxTradeLogs
            <= MaxBuffer - 1 + (Callers + 1) * MaxTradeLogs
<1>1. ContractInv' => (Cardinality(Active) \in Nat /\ Cardinality(Active) <= Callers /\ Callers \in Nat)'
  BY ActiveBounded, PTL
<1>2. TypeOK' => BufferTypes'
  BY BufferTyped, PTL
<1>3. BuffersBounded' <=>
       /\ Len(position_logs') - flushed'["positions"] + Cardinality(Active') <= MaxBuffer - 1 + Callers
       /\ Len(trades_stored') - flushed'["trades"] + Len(trade_logs') + Cardinality(Active') * MaxTradeLogs
            <= MaxBuffer - 1 + (Callers + 1) * MaxTradeLogs
  BY DEF InProgress, Active, BuffersBounded, BufferLen, Callers
<1> QED
  BY <1>1, <1>2, <1>3 DEF Callers

LEMMA OneLess ==
  ASSUME NEW a \in Nat, NEW m \in Nat
  PROVE  a * m \in Nat /\ (a - 1) * m = a * m - m
OBVIOUS

LEMMA BufferNumbers ==
  ASSUME ContractInv
  PROVE  /\ Cardinality(Active) \in Nat /\ Cardinality(Active) * MaxTradeLogs \in Nat
         /\ Callers \in Nat /\ (Callers + 1) * MaxTradeLogs \in Nat
         /\ MaxBuffer \in Nat /\ MaxBuffer > 0 /\ MaxTradeLogs \in Nat
<1>1. Cardinality(Active) \in Nat /\ Callers \in Nat /\ MaxTradeLogs \in Nat
  BY ActiveBounded, MatchingAssumption
<1>2. MaxBuffer \in Nat /\ MaxBuffer > 0
  BY ContractAssumption
<1>3. \A a \in Nat : a * MaxTradeLogs \in Nat
  BY <1>1, OneLess
<1>4. Callers + 1 \in Nat
  BY <1>1
<1> QED
  BY ONLY <1>1, <1>2, <1>3, <1>4

(* Neither the payouts nor the ledgers' answers make a buffer longer.      *)
LEMMA SameBuffers ==
  ASSUME TypeOK, TypeOK', ContractInv, BuffersBounded, UNCHANGED Active,
         Len(position_logs') = Len(position_logs), Stored' = Stored,
         \A s \in Storage : flushed'[s] >= flushed[s]
  PROVE  BuffersBounded'
<1>1. BufferTypes /\ BufferTypes'
  BY BufferTyped, BuffersNext
<1>2. flushed'["positions"] >= flushed["positions"] /\ flushed'["trades"] >= flushed["trades"]
  BY DEF Storage
<1>3. UNCHANGED <<Cardinality(Active), Callers>>
  BY DEF Callers
<1> DEFINE A == Cardinality(Active)
           P == A * MaxTradeLogs
           R == (Callers + 1) * MaxTradeLogs
<1>4. /\ Len(position_logs) - flushed["positions"] + A <= MaxBuffer - 1 + Callers
      /\ Len(trades_stored) - flushed["trades"] + Len(trade_logs) + P <= MaxBuffer - 1 + R
  BY BuffersAre
<1>5. UNCHANGED <<A, P>>
  BY <1>3
<1>6. A \in Nat /\ P \in Nat /\ R \in Nat /\ Callers \in Nat /\ MaxBuffer \in Nat
  BY BufferNumbers
<1>7. BuffersBounded' <=>
        /\ Len(position_logs') - flushed'["positions"] + A' <= MaxBuffer - 1 + Callers
        /\ Len(trades_stored') - flushed'["trades"] + Len(trade_logs') + P' <= MaxBuffer - 1 + R
  BY BuffersNext
<1> HIDE DEF A, P, R
<1>8. Len(position_logs') - flushed'["positions"] + A' <= MaxBuffer - 1 + Callers
  <2> DEFINE p == Len(position_logs)
             p2 == Len(position_logs')
             f == flushed["positions"]
             f2 == flushed'["positions"]
             A2 == A'
  <2>1. p2 = p /\ p \in Nat /\ f \in Nat /\ f2 \in Nat
    BY <1>1 DEF BufferTypes
  <2>2. f2 >= f /\ A2 = A /\ p - f + A <= MaxBuffer - 1 + Callers
    BY <1>2, <1>4, <1>5
  <2>3. p2 - f2 + A2 <= MaxBuffer - 1 + Callers
    <3> HIDE DEF p, p2, f, f2, A2
    <3> QED
      BY ONLY <1>6, <2>1, <2>2
  <2> QED
    BY ONLY <2>3
<1>9. Len(trades_stored') - flushed'["trades"] + Len(trade_logs') + P' <= MaxBuffer - 1 + R
  <2>1. Len(trades_stored') + Len(trade_logs') = Len(trades_stored) + Len(trade_logs)
    BY DEF Stored
  <2>2. BufferTypes
    BY <1>1
  <2>3. Len(trades_stored') \in Nat /\ Len(trade_logs') \in Nat /\ flushed'["trades"] \in Nat
    BY <1>1 DEF BufferTypes
  <2> DEFINE t == Len(trades_stored)
             t2 == Len(trades_stored')
             l == Len(trade_logs)
             l2 == Len(trade_logs')
             f == flushed["trades"]
             f2 == flushed'["trades"]
             P2 == P'
  <2>4. t \in Nat /\ t2 \in Nat /\ l \in Nat /\ l2 \in Nat /\ f \in Nat /\ f2 \in Nat
    BY <2>2, <2>3, <1>1 DEF BufferTypes
  <2>5. t2 + l2 = t + l /\ f2 >= f /\ P2 = P /\ t - f + l + P <= MaxBuffer - 1 + R
    BY <1>2, <1>4, <1>5, <2>1
  <2>6. t2 - f2 + l2 + P2 <= MaxBuffer - 1 + R
    <3> HIDE DEF t, t2, l, l2, f, f2, P2
    <3> QED
      BY ONLY <1>6, <2>4, <2>5
  <2> QED
    BY ONLY <2>6
<1> QED
  BY <1>7, <1>8, <1>9

(* A call begins only while both buffers have room. *)
LEMMA CallBuffers ==
  ASSUME TypeOK, TypeOK', ContractInv, ContractInv', BuffersHaveRoom, UNCHANGED vars
  PROVE  BuffersBounded'
<1> DEFINE A == Cardinality(Active')
           P == A * MaxTradeLogs
           C == Callers * MaxTradeLogs
           R == (Callers + 1) * MaxTradeLogs
<1>1. BufferTypes /\ UNCHANGED <<position_logs, trades_stored, trade_logs, flushed>>
  BY BufferTyped DEF vars, owedVars, storageVars
<1>2. A \in Nat /\ A <= Callers /\ Callers \in Nat
  BY ActiveBounded, BuffersNext
<1>3. MaxTradeLogs \in Nat /\ MaxBuffer \in Nat /\ Len(trade_logs) <= MaxTradeLogs
  BY BufferNumbers DEF ContractInv, Counted
<1>4. /\ Len(position_logs) - flushed["positions"] < MaxBuffer
      /\ Len(trades_stored) - flushed["trades"] < MaxBuffer
  BY DEF BuffersHaveRoom, BufferLen, Storage
<1>5. BuffersBounded' <=>
        /\ Len(position_logs') - flushed'["positions"] + A <= MaxBuffer - 1 + Callers
        /\ Len(trades_stored') - flushed'["trades"] + Len(trade_logs') + P <= MaxBuffer - 1 + R
  BY BuffersNext
<1>6. P <= C
  BY ONLY <1>2, <1>3, LessOf
<1>7. R = C + MaxTradeLogs /\ C \in Nat /\ P \in Nat
  <2>1. Callers + 1 \in Nat /\ (Callers + 1) - 1 = Callers
    BY <1>2
  <2>2. (Callers + 1 - 1) * MaxTradeLogs = R - MaxTradeLogs /\ R \in Nat /\ C \in Nat /\ P \in Nat
    BY <2>1, <1>2, <1>3, OneLess
  <2>3. C = R - MaxTradeLogs
    BY <2>1, <2>2
  <2> HIDE DEF C, R, P
  <2> QED
    BY ONLY <1>3, <2>2, <2>3
<1> HIDE DEF A, P, C, R
<1>8. Len(position_logs') - flushed'["positions"] + A <= MaxBuffer - 1 + Callers
  BY <1>1, <1>2, <1>3, <1>4 DEF BufferTypes
<1>9. Len(trades_stored') - flushed'["trades"] + Len(trade_logs') + P <= MaxBuffer - 1 + R
  BY <1>1, <1>3, <1>4, <1>6, <1>7 DEF BufferTypes
<1> QED
  BY <1>5, <1>8, <1>9

(* A call that returns adds at most one position log and a queue of trades *)
(* for itself.                                                             *)
LEMMA ReturnBuffers ==
  ASSUME TypeOK, TypeOK', ContractInv, ContractInv', BuffersBounded, UNCHANGED <<trades_stored, flushed>>,
         Cardinality(Active') = Cardinality(Active) - 1,
         Len(position_logs') <= Len(position_logs) + 1
  PROVE  BuffersBounded'
<1> DEFINE A == Cardinality(Active)
           P == A * MaxTradeLogs
           R == (Callers + 1) * MaxTradeLogs
<1>1. BufferTypes /\ BufferTypes'
  BY BufferTyped, BuffersNext
<1>2. Len(trade_logs') <= MaxTradeLogs
  BY DEF ContractInv, Counted
<1>3. /\ Len(position_logs) - flushed["positions"] + A <= MaxBuffer - 1 + Callers
      /\ Len(trades_stored) - flushed["trades"] + Len(trade_logs) + P <= MaxBuffer - 1 + R
  BY BuffersAre
<1>4. A \in Nat /\ P \in Nat /\ R \in Nat /\ Callers \in Nat /\ MaxBuffer \in Nat /\ MaxTradeLogs \in Nat
  BY BufferNumbers
<1>5. (A - 1) * MaxTradeLogs = P - MaxTradeLogs
  BY <1>4, OneLess
<1>6. BuffersBounded' <=>
        /\ Len(position_logs') - flushed'["positions"] + (A - 1) <= MaxBuffer - 1 + Callers
        /\ Len(trades_stored') - flushed'["trades"] + Len(trade_logs') + (P - MaxTradeLogs) <= MaxBuffer - 1 + R
  BY <1>5, BuffersNext
<1> HIDE DEF A, P, R
<1>7. Len(position_logs') - flushed'["positions"] + (A - 1) <= MaxBuffer - 1 + Callers
  <2> DEFINE p == Len(position_logs)
             p2 == Len(position_logs')
             f == flushed["positions"]
             f2 == flushed'["positions"]
  <2>1. p2 <= p + 1 /\ f2 = f /\ p - f + A <= MaxBuffer - 1 + Callers
    BY <1>3
  <2>2. p \in Nat /\ p2 \in Nat /\ f \in Nat
    BY <1>1 DEF BufferTypes
  <2>3. p2 - f2 + (A - 1) <= MaxBuffer - 1 + Callers
    <3> HIDE DEF p, p2, f, f2
    <3> QED
      BY ONLY <1>4, <2>1, <2>2
  <2> QED
    BY ONLY <2>3
<1>8. Len(trades_stored') - flushed'["trades"] + Len(trade_logs') + (P - MaxTradeLogs) <= MaxBuffer - 1 + R
  <2> DEFINE t == Len(trades_stored)
             t2 == Len(trades_stored')
             l == Len(trade_logs)
             l2 == Len(trade_logs')
             f == flushed["trades"]
             f2 == flushed'["trades"]
  <2>1. t2 = t /\ f2 = f /\ l2 <= MaxTradeLogs /\ t - f + l + P <= MaxBuffer - 1 + R
    BY <1>2, <1>3
  <2>2. t \in Nat /\ l \in Nat /\ l2 \in Nat /\ f \in Nat
    BY <1>1 DEF BufferTypes
  <2>3. t2 - f2 + l2 + (P - MaxTradeLogs) <= MaxBuffer - 1 + R
    <3> HIDE DEF t, t2, l, l2, f, f2
    <3> QED
      BY ONLY <1>4, <2>1, <2>2
  <2> QED
    BY ONLY <2>3
<1> QED
  BY <1>6, <1>7, <1>8

(* The payouts move logs from the queue to the buffer of the trades and    *)
(* from the buffers to the storage canisters.                              *)
LEMMA PayoutsBuffers ==
  ASSUME TypeOK, TypeOK', NEW r \in Run, Canister(r) \/ Callee(r)
  PROVE  /\ Len(position_logs') = Len(position_logs) /\ Stored' = Stored
         /\ \A s \in Storage : flushed'[s] >= flushed[s]
<1>1. BufferTypes /\ flushed \in [Storage -> Nat]
  BY BufferTyped DEF TypeOK
<1>2. \A s \in Storage : flushed[s] >= flushed[s]
  BY <1>1
<1>3. CASE UNCHANGED <<trade_logs, trades_stored, position_logs, flushed>>
  BY <1>2, <1>3 DEF Stored
<1>4. ASSUME NEW vps, NEW tls \in Seq(TradeLogType), NEW lock, NEW payouts, NEW updates,
             Polled(r, vps, tls, lock, payouts, updates), Len(tls) = Len(trade_logs)
      PROVE  Len(trade_logs') = Len(trade_logs)
  <2>1. Len(SettledTrades(tls, payouts)) = Len(tls) /\ Len(tls) \in Nat
    BY DEF SettledTrades
  <2>2. trade_logs' = tls \/ trade_logs' = SettledTrades(tls, payouts)
    BY <1>4 DEF Polled
  <2> QED
    BY <1>4, <2>1, <2>2
<1>5. CASE StartRun(r)
  <2>1. LockedTrades \in Seq(TradeLogType) /\ Len(LockedTrades) = Len(trade_logs)
    BY LockedTradesType
  <2>2. /\ Polled(r, LockedVoids, LockedTrades, flush_lock["positions"] \/ TakenUpdates # {},
                   [o \in TakenPayouts |-> StartPayout(o)], [u \in TakenUpdates |-> StartUpdate(u)])
        /\ position_logs' = BufferUpdated /\ UNCHANGED <<trades_stored, flushed>>
    BY <1>5 DEF StartRun
  <2>3. Len(trade_logs') = Len(trade_logs)
    BY <1>4, <2>1, <2>2
  <2>4. Len(position_logs') = Len(position_logs)
    BY <2>2, BufferUpdatedType
  <2> QED
    BY <1>2, <2>2, <2>3, <2>4 DEF Stored
<1>6. ASSUME NEW o \in DOMAIN runs[r].payouts, PayoutReply(r, o)
      PROVE  Len(position_logs') = Len(position_logs) /\ Stored' = Stored /\ UNCHANGED flushed
  BY <1>4, <1>6 DEF PayoutReply, TypeOK, storageVars, Stored
<1>7. ASSUME NEW u \in DOMAIN runs[r].updates, UpdateReply(r, u)
      PROVE  Len(position_logs') = Len(position_logs) /\ Stored' = Stored /\ UNCHANGED flushed
  BY <1>4, <1>7 DEF UpdateReply, TypeOK, storageVars, Stored
<1>8. CASE Resume(r)
  <2>1. PICK n \in 0 .. Len(trade_logs) :
          /\ trades_stored' = trades_stored \o SubSeq(trade_logs, 1, n)
          /\ trade_logs' = SubSeq(trade_logs, n + 1, Len(trade_logs))
          /\ UNCHANGED <<position_logs, flushed>>
    BY <1>8 DEF Resume
  <2>2. trade_logs \in Seq(TradeLogType) /\ trades_stored \in Seq(TradeLogType)
    BY DEF TypeOK
  <2>3. /\ SubSeq(trade_logs, 1, n) \in Seq(TradeLogType) /\ Len(SubSeq(trade_logs, 1, n)) = n
        /\ Len(SubSeq(trade_logs, n + 1, Len(trade_logs))) = Len(trade_logs) - n
    BY <2>2
  <2>4. Len(trades_stored') = Len(trades_stored) + n
    BY <2>1, <2>2, <2>3
  <2>5. Len(trades_stored') + Len(trade_logs') = Len(trades_stored) + Len(trade_logs)
    <3>1. Len(trade_logs') = Len(trade_logs) - n
      BY <2>1, <2>3
    <3>2. Len(trade_logs) \in Nat /\ Len(trades_stored) \in Nat /\ n \in Nat
      BY <1>1 DEF BufferTypes
    <3> QED
      BY ONLY <2>4, <3>1, <3>2
  <2> QED
    BY <1>2, <2>1, <2>5 DEF Stored
<1>9. ASSUME NEW s \in Storage, FlushLogs(r, s)
      PROVE  Len(position_logs') = Len(position_logs) /\ Stored' = Stored
             /\ \A t \in Storage : flushed'[t] >= flushed[t]
  <2>1. /\ flushed[s] < runs[r].flushes[s] /\ UNCHANGED <<position_logs, trades_stored, trade_logs>>
        /\ flushed' = [flushed EXCEPT ![s] = IF @ + FlushChunk <= runs[r].flushes[s]
                                             THEN @ + FlushChunk ELSE runs[r].flushes[s]]
        /\ s \in DOMAIN runs[r].flushes
    BY <1>9 DEF FlushLogs, owedVars
  <2>2. FlushChunk \in Nat /\ runs[r].flushes[s] \in Nat
    BY <2>1, PayoutsAssumption DEF TypeOK, RunOK, PartialFunction
  <2>3. flushed'[s] >= flushed[s]
    BY <1>1, <2>1, <2>2
  <2>4. \A t \in Storage : t # s => flushed'[t] = flushed[t]
    BY <1>1, <2>1
  <2> QED
    BY <1>2, <2>1, <2>3, <2>4 DEF Stored
<1>10. ASSUME TimerFires(r) \/ SelfCallFails(r) \/ \E s \in Storage : FlushEnds(r, s) \/ FlushStops(r, s)
       PROVE  UNCHANGED <<trade_logs, trades_stored, position_logs, flushed>>
  BY <1>10 DEF TimerFires, SelfCallFails, FlushEnds, FlushStops, Unlock, owedVars, storageVars
<1>11. ASSUME NEW o \in DOMAIN runs[r].payouts, Transfer(r, o) \/ BadFee(r, o) \/ TransferFails(r, o)
       PROVE  UNCHANGED <<trade_logs, trades_stored, position_logs, flushed>>
  BY <1>11 DEF Transfer, BadFee, TransferFails, owedVars, storageVars
<1>12. ASSUME NEW u \in DOMAIN runs[r].updates, CmUpdateLog(r, u) \/ UpdateFails(r, u)
       PROVE  Len(position_logs') = Len(position_logs) /\ Stored' = Stored /\ UNCHANGED flushed
  <2>1. UNCHANGED <<trade_logs, trades_stored, flushed>>
    BY <1>12 DEF CmUpdateLog, UpdateFails, owedVars, storageVars
  <2>2. \/ UNCHANGED position_logs
        \/ position_logs' = [position_logs EXCEPT ![u.id + 1] = runs[r].updates[u].log]
    BY <1>12 DEF CmUpdateLog, UpdateFails, storageVars
  <2>3. position_logs \in Seq(Log)
    BY DEF TypeOK
  <2>4. Len(position_logs') = Len(position_logs)
    BY ONLY <2>2, <2>3
  <2> QED
    BY <2>1, <2>4 DEF Stored
<1> QED
  BY <1>2, <1>3, <1>5, <1>6, <1>7, <1>8, <1>9, <1>10, <1>11, <1>12, <1>4 DEF Canister, Callee

LEMMA NextBuffers ==
  ASSUME PayoutsInv, PayoutsInv', ContractInv, ContractInv', BuffersBounded, [ContractNext]_contractVars
  PROVE  BuffersBounded'
<1>1. TypeOK /\ TypeOK' /\ CallsInv
  BY DEF PayoutsInv, LockInv, ContractInv
<1>2. ASSUME NEW r \in Run, Canister(r) \/ Callee(r), UNCHANGED calls PROVE BuffersBounded'
  BY <1>1, <1>2, PayoutsBuffers, SameBuffers DEF Active
<1>3. ASSUME NEW r \in Run, Apart(Canister(r)) \/ Answers(r) PROVE BuffersBounded'
  <2>1. Canister(r) \/ Callee(r)
    BY <1>3 DEF Apart, Answers, TransferPaid, Callee
  <2>2. UNCHANGED calls
    BY <1>3 DEF Apart, Answers, TransferPaid, callVars
  <2> QED
    BY <1>2, <2>1, <2>2
<1>4. ASSUME UNCHANGED <<trade_logs, storageVars, Active>> PROVE BuffersBounded'
  <2>1. UNCHANGED <<trade_logs, trades_stored, position_logs, flushed>>
    BY <1>4 DEF storageVars
  <2>2. \A s \in Storage : flushed'[s] >= flushed[s]
    BY <1>1, <2>1 DEF TypeOK
  <2> QED
    BY <1>1, <1>4, <2>1, <2>2, SameBuffers DEF Stored
<1>5. ASSUME VoidRefused \/ UNCHANGED contractVars PROVE BuffersBounded'
  <2>1. UNCHANGED <<calls, trade_logs, trades_stored, position_logs, flushed>>
    BY <1>5 DEF VoidRefused, callVars, tradeVars, payVars, contractVars, vars, owedVars, storageVars
  <2> QED
    BY <1>4, <2>1 DEF storageVars, Active
<1>6. ASSUME NEW user \in User, NEW k \in Kind, VoidByUser(user, k) PROVE BuffersBounded'
  <2>1. UNCHANGED <<calls, trade_logs, trades_stored, position_logs, flushed>>
    BY <1>6 DEF VoidByUser, payVars
  <2> QED
    BY <1>4, <2>1 DEF storageVars, Active
<1>7. ASSUME NEW c \in Call, LedgerAnswers(c) PROVE BuffersBounded'
  <2>1. UNCHANGED vars /\ UNCHANGED <<Active, TradeCalls>>
    BY <1>1, <1>7, AnswersAre, AnswerKeeps
  <2> QED
    BY <1>4, <2>1 DEF vars, owedVars
<1>8. ASSUME NEW c \in Call, NEW user \in User, NEW k \in Kind, TradeCall(c, user, k) PROVE BuffersBounded'
  BY <1>1, <1>8, CallBuffers, TradeCallIs
<1>9. ASSUME NEW c \in Call, TradeReturns(c) PROVE BuffersBounded'
  <2>1. calls[c].op = "trade" /\ CallEnds(c) /\ UNCHANGED <<trades_stored, flushed>>
    BY <1>9 DEF TradeReturns, payVars
  <2>2. Cardinality(Active') = Cardinality(Active) - 1
    BY <2>1, EndCounts
  <2>3. Len(position_logs) \in Nat /\ Len(Append(position_logs, OpenLog)) = Len(position_logs) + 1
    BY <1>1 DEF TypeOK, OpenLog, Log
  <2>4. position_logs' = position_logs \/ position_logs' = Append(position_logs, OpenLog)
    BY <1>9 DEF TradeReturns, MatchNew, tradeVars
  <2>5. Len(position_logs') <= Len(position_logs) + 1
    BY <2>3, <2>4
  <2> QED
    BY <1>1, <2>1, <2>2, <2>5, ReturnBuffers
<1> QED
  BY <1>3, <1>5, <1>6, <1>7, <1>8, <1>9 DEF ContractNext

(* The buffers keep their limit although it is checked before the await    *)
(* of the ledger and used after it (cm_tc/src/lib.rs, _trade).             *)
THEOREM BuffersStayBounded == Foreseen => (ContractSpec => []BuffersBounded)
<1> SUFFICES ASSUME Foreseen PROVE ContractSpec => []BuffersBounded
  OBVIOUS
<1>1. ContractInit => ContractInv /\ PayoutsInv
  BY InitContract, InitLockInv, InitRecords, InitLogs DEF ContractInit, PayoutsInv
<1>2. ContractInit => BuffersBounded
  <2> SUFFICES ASSUME ContractInit PROVE BuffersBounded
    OBVIOUS
  <2>1. ContractInv /\ Init /\ calls = [c \in Call |-> NoCall]
    BY InitContract DEF ContractInit
  <2>2. /\ position_logs = <<>> /\ trades_stored = <<>> /\ trade_logs = <<>>
        /\ flushed["positions"] = 0 /\ flushed["trades"] = 0
    BY <2>1 DEF Init, Storage
  <2>3. Active = {}
    BY <2>1 DEF Active, NoCall
  <2>4. Cardinality(Active) = 0 /\ 0 * MaxTradeLogs = 0
    BY <2>1, <2>3, FS_EmptySet, BufferNumbers
  <2>5. /\ Callers \in Nat /\ (Callers + 1) * MaxTradeLogs \in Nat /\ MaxBuffer \in Nat /\ MaxBuffer > 0
    BY <2>1, BufferNumbers
  <2> DEFINE R == (Callers + 1) * MaxTradeLogs
             P == Cardinality(Active) * MaxTradeLogs
  <2>6. P = 0
    BY <2>4
  <2>7. BuffersBounded <=>
          /\ Len(position_logs) - flushed["positions"] + Cardinality(Active) <= MaxBuffer - 1 + Callers
          /\ Len(trades_stored) - flushed["trades"] + Len(trade_logs) + P <= MaxBuffer - 1 + R
    BY BuffersAre
  <2> HIDE DEF R, P
  <2>8. R \in Nat
    BY <2>5 DEF R
  <2> QED
    BY <2>2, <2>4, <2>5, <2>6, <2>7, <2>8
<1>3. PayoutsInv /\ ContractInv /\ [ContractNext]_contractVars => (PayoutsInv /\ ContractInv)'
  BY StepIsPayoutsStep, NextPayouts, NextContract
<1>4. PayoutsInv /\ ContractInv /\ (PayoutsInv /\ ContractInv)' /\ BuffersBounded /\ [ContractNext]_contractVars
        => BuffersBounded'
  BY NextBuffers
<1> QED
  BY <1>1, <1>2, <1>3, <1>4, PTL DEF ContractSpec

----------------------------------------------------------------------------
(* What the positions-subaccount promises *)

VoidSum(k) == SumFunction([id \in UnpaidVoids(k) |-> void_positions[k][id].quantity])
TradeSum(k) ==
  SumFunction([i \in UnpaidTrades(k) |-> trade_logs[i].mount[k] - trade_logs[i].cts_fee[k]])

(* The fee of a trade is never more than what it is taken from.            *)
FeesCovered ==
  \A i \in 1 .. Len(trade_logs), k \in Kind : trade_logs[i].cts_fee[k] <= trade_logs[i].mount[k]

LEMMA OwedIs == \A k : Owed(k) = Mainder(book[k]) + PaidSum(calls, k) + VoidSum(k) + TradeSum(k)
BY PaidInIs DEF Owed, Mainder, VoidSum, TradeSum

LEMMA UnpaidTypes ==
  TypeOK /\ FeesCovered =>
    \A k \in Kind :
      /\ IsFiniteSet(UnpaidVoids(k)) /\ IsFiniteSet(UnpaidTrades(k))
      /\ UnpaidVoids(k) \subseteq DOMAIN void_positions[k]
      /\ UnpaidTrades(k) \subseteq 1 .. Len(trade_logs)
      /\ \A id \in UnpaidVoids(k) : void_positions[k][id].quantity \in Nat
      /\ \A i \in UnpaidTrades(k) : /\ trade_logs[i].mount[k] \in Nat /\ trade_logs[i].cts_fee[k] \in Nat
                                    /\ trade_logs[i].mount[k] - trade_logs[i].cts_fee[k] \in Nat
      /\ VoidSum(k) \in Nat /\ TradeSum(k) \in Nat
<1> SUFFICES ASSUME TypeOK, FeesCovered, NEW k \in Kind
             PROVE  /\ IsFiniteSet(UnpaidVoids(k)) /\ IsFiniteSet(UnpaidTrades(k))
                    /\ UnpaidVoids(k) \subseteq DOMAIN void_positions[k]
                    /\ UnpaidTrades(k) \subseteq 1 .. Len(trade_logs)
                    /\ \A id \in UnpaidVoids(k) : void_positions[k][id].quantity \in Nat
                    /\ \A i \in UnpaidTrades(k) :
                         /\ trade_logs[i].mount[k] \in Nat /\ trade_logs[i].cts_fee[k] \in Nat
                         /\ trade_logs[i].mount[k] - trade_logs[i].cts_fee[k] \in Nat
                    /\ VoidSum(k) \in Nat /\ TradeSum(k) \in Nat
  OBVIOUS
<1> DEFINE V == UnpaidVoids(k)
           T == UnpaidTrades(k)
           v == [id \in V |-> void_positions[k][id].quantity]
           t == [i \in T |-> trade_logs[i].mount[k] - trade_logs[i].cts_fee[k]]
<1>1. V \subseteq DOMAIN void_positions[k] /\ T \subseteq 1 .. Len(trade_logs)
  BY DEF UnpaidVoids, UnpaidTrades, TypeOK
<1>2. PartialFunction(void_positions[k], PositionId, VoidPositionType) /\ trade_logs \in Seq(TradeLogType)
  BY DEF TypeOK
<1>3. IsFiniteSet(PositionId) /\ IsFiniteSet(1 .. Len(trade_logs))
  <2>1. 0 \in Int /\ MaxId - 1 \in Int /\ Len(trade_logs) \in Int
    BY <1>2, PayoutsAssumption
  <2> QED
    BY <2>1, FS_Interval DEF PositionId
<1> HIDE DEF V, T
<1>4. IsFiniteSet(V) /\ IsFiniteSet(T)
  BY <1>1, <1>2, <1>3, FS_Subset DEF PartialFunction
<1>5. \A id \in V : void_positions[k][id].quantity \in Nat
  <2>1. \A vp \in VoidPositionType : vp.quantity \in Nat
    BY DEF VoidPositionType
  <2> QED
    BY <1>1, <1>2, <2>1 DEF PartialFunction
<1>6. \A i \in T : /\ trade_logs[i].mount[k] \in Nat /\ trade_logs[i].cts_fee[k] \in Nat
                   /\ trade_logs[i].mount[k] - trade_logs[i].cts_fee[k] \in Nat
  <2> TAKE i \in T
  <2>1. \A tl \in TradeLogType : tl.mount[k] \in Nat /\ tl.cts_fee[k] \in Nat
    BY DEF TradeLogType
  <2>2. trade_logs[i] \in TradeLogType /\ trade_logs[i].cts_fee[k] <= trade_logs[i].mount[k]
    BY <1>1, <1>2 DEF FeesCovered
  <2> QED
    BY <2>1, <2>2
<1>7. VoidSum(k) = SumFunction(v) /\ TradeSum(k) = SumFunction(t)
  BY DEF VoidSum, TradeSum, V, T
<1>8. /\ DOMAIN v = V /\ DOMAIN t = T
      /\ \A x \in V : v[x] \in Nat /\ v[x] \in Int
      /\ \A x \in T : t[x] \in Nat /\ t[x] \in Int
  BY <1>5, <1>6
<1> HIDE DEF v, t
<1>9. SumFunction(v) \in Nat /\ SumFunction(t) \in Nat
  BY <1>4, <1>8, SumType
<1> QED
  BY <1>1, <1>4, <1>5, <1>6, <1>7, <1>9 DEF V, T

LEMMA UnpaidNext ==
  TypeOK' /\ FeesCovered' =>
    \A k \in Kind :
      /\ IsFiniteSet(UnpaidVoids(k)') /\ IsFiniteSet(UnpaidTrades(k)')
      /\ UnpaidVoids(k)' \subseteq DOMAIN void_positions'[k]
      /\ UnpaidTrades(k)' \subseteq 1 .. Len(trade_logs')
      /\ \A id \in UnpaidVoids(k)' : void_positions'[k][id].quantity \in Nat
      /\ \A i \in UnpaidTrades(k)' : /\ trade_logs'[i].mount[k] \in Nat /\ trade_logs'[i].cts_fee[k] \in Nat
                                     /\ trade_logs'[i].mount[k] - trade_logs'[i].cts_fee[k] \in Nat
      /\ VoidSum(k)' \in Nat /\ TradeSum(k)' \in Nat
<1>1. (TypeOK /\ FeesCovered)' =>
       (\A k \in Kind :
          /\ IsFiniteSet(UnpaidVoids(k)) /\ IsFiniteSet(UnpaidTrades(k))
          /\ UnpaidVoids(k) \subseteq DOMAIN void_positions[k]
          /\ UnpaidTrades(k) \subseteq 1 .. Len(trade_logs)
          /\ \A id \in UnpaidVoids(k) : void_positions[k][id].quantity \in Nat
          /\ \A i \in UnpaidTrades(k) : /\ trade_logs[i].mount[k] \in Nat /\ trade_logs[i].cts_fee[k] \in Nat
                                        /\ trade_logs[i].mount[k] - trade_logs[i].cts_fee[k] \in Nat
          /\ VoidSum(k) \in Nat /\ TradeSum(k) \in Nat)'
  BY UnpaidTypes, PTL
<1> QED
  BY <1>1

(* What the payouts leave of the voids and of the queue.                   *)
VoidsKept ==
  \A k \in Kind :
    /\ DOMAIN void_positions'[k] \subseteq DOMAIN void_positions[k]
    /\ \A i \in DOMAIN void_positions'[k] :
         void_positions'[k][i].quantity = void_positions[k][i].quantity
SameTrade(tl, was) == tl.id = was.id /\ tl.mount = was.mount /\ tl.cts_fee = was.cts_fee
QueueKept ==
  \E n \in 0 .. Len(trade_logs) :
    /\ Len(trade_logs') = Len(trade_logs) - n
    /\ \A i \in 1 .. Len(trade_logs') : SameTrade(trade_logs'[i], trade_logs[n + i])

LEMMA LessUnpaid ==
  ASSUME TypeOK, TypeOK', FeesCovered, VoidsKept, QueueKept, UNCHANGED transfers
  PROVE  FeesCovered' /\ \A k \in Kind : VoidSum(k)' <= VoidSum(k) /\ TradeSum(k)' <= TradeSum(k)
<1>1. PICK n \in 0 .. Len(trade_logs) :
        /\ Len(trade_logs') = Len(trade_logs) - n
        /\ \A i \in 1 .. Len(trade_logs') : SameTrade(trade_logs'[i], trade_logs[n + i])
  BY DEF QueueKept
<1>2. Len(trade_logs) \in Nat /\ Len(trade_logs') \in Nat /\ n \in Nat
  BY DEF TypeOK
<1>3. \A i \in 1 .. Len(trade_logs') : n + i \in 1 .. Len(trade_logs)
  BY ONLY <1>1, <1>2
<1>4. FeesCovered'
  <2> SUFFICES ASSUME NEW i \in 1 .. Len(trade_logs'), NEW k \in Kind
               PROVE  trade_logs'[i].cts_fee[k] <= trade_logs'[i].mount[k]
    BY DEF FeesCovered
  <2>1. /\ trade_logs'[i].cts_fee = trade_logs[n + i].cts_fee
        /\ trade_logs'[i].mount = trade_logs[n + i].mount
    BY <1>1 DEF SameTrade
  <2>2. trade_logs[n + i].cts_fee[k] <= trade_logs[n + i].mount[k]
    BY <1>3 DEF FeesCovered
  <2> QED
    BY <2>1, <2>2
<1>5. ASSUME NEW k \in Kind
      PROVE  VoidSum(k)' <= VoidSum(k)
  <2> DEFINE f == [id \in UnpaidVoids(k) |-> void_positions[k][id].quantity]
             g == [id \in UnpaidVoids(k)' |-> void_positions'[k][id].quantity]
             h == [id \in UnpaidVoids(k)' |-> id]
  <2>1. \A id \in UnpaidVoids(k)' : id \in UnpaidVoids(k) /\ void_positions'[k][id].quantity = void_positions[k][id].quantity
    BY DEF UnpaidVoids, Unpaid, VoidsKept, VoidObligation
  <2>2. /\ IsFiniteSet(DOMAIN f) /\ IsFiniteSet(DOMAIN g)
        /\ \A x \in DOMAIN f : f[x] \in Nat
        /\ \A x \in DOMAIN g : g[x] \in Nat
    BY <1>4, UnpaidTypes, UnpaidNext
  <2>3. \A x \in DOMAIN g : h[x] \in DOMAIN f /\ h[x] = x /\ g[x] = f[h[x]]
    BY <2>1
  <2>4. VoidSum(k) = SumFunction(f) /\ VoidSum(k)' = SumFunction(g)
    BY DEF VoidSum
  <2> HIDE DEF f, g, h
  <2>5. \A x \in DOMAIN g : g[x] <= f[h[x]]
    BY <2>2, <2>3
  <2> QED
    BY <2>2, <2>3, <2>4, <2>5, SumInto
<1>6. ASSUME NEW k \in Kind
      PROVE  TradeSum(k)' <= TradeSum(k)
  <2> DEFINE f == [i \in UnpaidTrades(k) |-> trade_logs[i].mount[k] - trade_logs[i].cts_fee[k]]
             g == [i \in UnpaidTrades(k)' |-> trade_logs'[i].mount[k] - trade_logs'[i].cts_fee[k]]
             h == [i \in UnpaidTrades(k)' |-> n + i]
  <2>1. UnpaidTrades(k)' \subseteq 1 .. Len(trade_logs')
    BY <1>4, UnpaidNext
  <2>2. DOMAIN trade_logs = 1 .. Len(trade_logs) /\ DOMAIN trade_logs' = 1 .. Len(trade_logs')
    BY DEF TypeOK
  <2>3. ASSUME NEW i \in UnpaidTrades(k)'
        PROVE  /\ i \in Nat /\ n + i \in UnpaidTrades(k)
               /\ trade_logs'[i].mount[k] - trade_logs'[i].cts_fee[k]
                    = trade_logs[n + i].mount[k] - trade_logs[n + i].cts_fee[k]
    <3>1. i \in 1 .. Len(trade_logs') /\ n + i \in 1 .. Len(trade_logs)
      BY <1>3, <2>1
    <3>2. /\ trade_logs'[i].id = trade_logs[n + i].id /\ trade_logs'[i].mount = trade_logs[n + i].mount
          /\ trade_logs'[i].cts_fee = trade_logs[n + i].cts_fee
      BY <1>1, <3>1 DEF SameTrade
    <3>3. transfers'[TradeObligation(k, trade_logs'[i].id)] = <<>>
      BY DEF UnpaidTrades, Unpaid, TradeObligation
    <3>4. transfers[TradeObligation(k, trade_logs[n + i].id)] = <<>>
      BY <3>2, <3>3
    <3> QED
      BY <1>2, <2>2, <3>1, <3>2, <3>4 DEF UnpaidTrades, Unpaid
  <2>4. /\ IsFiniteSet(DOMAIN f) /\ IsFiniteSet(DOMAIN g)
        /\ \A x \in DOMAIN f : f[x] \in Nat
        /\ \A x \in DOMAIN g : g[x] \in Nat
    BY <1>4, UnpaidTypes, UnpaidNext
  <2>5. \A x \in DOMAIN g : x \in Nat /\ h[x] \in DOMAIN f /\ h[x] = n + x /\ g[x] = f[h[x]]
    BY <2>3
  <2>6. TradeSum(k) = SumFunction(f) /\ TradeSum(k)' = SumFunction(g)
    BY DEF TradeSum
  <2> HIDE DEF f, g, h
  <2>7. \A x \in DOMAIN g : g[x] <= f[h[x]]
    BY <2>4, <2>5
  <2>8. \A x, y \in DOMAIN g : h[x] = h[y] => x = y
    BY <1>2, <2>5
  <2>9. \A x \in DOMAIN g : h[x] \in DOMAIN f /\ g[x] \in Nat /\ g[x] <= f[h[x]]
    BY <2>4, <2>5, <2>7
  <2>10. SumFunction(g) <= SumFunction(f)
    BY ONLY <2>4, <2>8, <2>9, SumInto
  <2> QED
    BY <2>6, <2>10
<1> QED
  BY <1>4, <1>5, <1>6

LEMMA SettledVoidsKeep ==
  ASSUME NEW k \in Kind, NEW vps, PartialFunction(vps, PositionId, VoidPositionType),
         NEW payouts, NEW updates
  PROVE  LET settled == SettledVoids(k, vps, payouts, updates)
         IN /\ DOMAIN settled \subseteq DOMAIN vps
            /\ \A i \in DOMAIN settled : settled[i].quantity = vps[i].quantity
<1> DEFINE settled == SettledVoids(k, vps, payouts, updates)
<1>1. /\ DOMAIN settled \subseteq DOMAIN vps
      /\ \A i \in DOMAIN settled :
           settled[i] = SettledVoid(vps[i], VoidObligation(k, i), VoidUpdate(k, i), payouts, updates)
  BY DEF SettledVoids
<1>2. \A i \in DOMAIN vps : vps[i] \in VoidPositionType
  BY DEF PartialFunction
<1> HIDE DEF settled
<1>3. \A i \in DOMAIN settled : settled[i].quantity = vps[i].quantity
  BY <1>1, <1>2, SettledVoidQuantity
<1> QED
  BY <1>1, <1>3 DEF settled

LEMMA SettledTradesKeep ==
  ASSUME NEW tls \in Seq(TradeLogType), NEW payouts
  PROVE  /\ Len(SettledTrades(tls, payouts)) = Len(tls)
         /\ \A i \in 1 .. Len(tls) : SameTrade(SettledTrades(tls, payouts)[i], tls[i])
<1>1. /\ Len(SettledTrades(tls, payouts)) = Len(tls)
      /\ \A i \in 1 .. Len(tls) : SettledTrades(tls, payouts)[i] = SettledTrade(tls[i], payouts)
  BY DEF SettledTrades
<1>2. \A tl \in TradeLogType : SameTrade(SettledTrade(tl, payouts), tl)
  BY DEF SettledTrade, SameTrade, TradeLogType
<1>3. \A i \in 1 .. Len(tls) : tls[i] \in TradeLogType
  OBVIOUS
<1> QED
  BY <1>1, <1>2, <1>3

(* A message of the payouts records; it makes nothing new to pay.          *)
LEMMA PolledKeeps ==
  ASSUME TypeOK, NEW r, NEW vps, NEW tls \in Seq(TradeLogType), NEW lock, NEW payouts, NEW updates,
         Polled(r, vps, tls, lock, payouts, updates), DOMAIN vps = Kind,
         \A k \in Kind : /\ PartialFunction(vps[k], PositionId, VoidPositionType)
                         /\ DOMAIN vps[k] = DOMAIN void_positions[k]
                         /\ \A i \in DOMAIN vps[k] : vps[k][i].quantity = void_positions[k][i].quantity,
         Len(tls) = Len(trade_logs),
         \A i \in 1 .. Len(tls) : SameTrade(tls[i], trade_logs[i])
  PROVE  VoidsKept /\ QueueKept
<1>1. VoidsKept
  <2> SUFFICES ASSUME NEW k \in Kind
               PROVE  /\ DOMAIN void_positions'[k] \subseteq DOMAIN void_positions[k]
                      /\ \A i \in DOMAIN void_positions'[k] :
                           void_positions'[k][i].quantity = void_positions[k][i].quantity
    BY DEF VoidsKept
  <2>1. void_positions'[k] = vps[k] \/ void_positions'[k] = SettledVoids(k, vps[k], payouts, updates)
    BY DEF Polled
  <2>2. /\ DOMAIN void_positions'[k] \subseteq DOMAIN vps[k]
        /\ \A i \in DOMAIN void_positions'[k] : void_positions'[k][i].quantity = vps[k][i].quantity
    BY <2>1, SettledVoidsKeep
  <2> QED
    BY <2>2
<1>2. QueueKept
  <2>1. trade_logs' = tls \/ trade_logs' = SettledTrades(tls, payouts)
    BY DEF Polled
  <2>2. /\ Len(trade_logs') = Len(tls) /\ Len(tls) \in Nat
        /\ \A i \in 1 .. Len(tls) : SameTrade(trade_logs'[i], tls[i])
    BY <2>1, SettledTradesKeep DEF SameTrade
  <2>3. 0 \in 0 .. Len(trade_logs) /\ Len(trade_logs') = Len(trade_logs) - 0
    BY <2>2
  <2>4. \A i \in 1 .. Len(trade_logs') : 0 + i = i /\ SameTrade(trade_logs'[i], trade_logs[i])
    BY <2>2 DEF SameTrade
  <2>5. \A i \in 1 .. Len(trade_logs') : SameTrade(trade_logs'[i], trade_logs[0 + i])
    BY <2>4
  <2> QED
    BY <2>3, <2>5 DEF QueueKept
<1> QED
  BY <1>1, <1>2

LEMMA SameKept ==
  ASSUME TypeOK, UNCHANGED <<void_positions, trade_logs>>
  PROVE  VoidsKept /\ QueueKept
<1>1. VoidsKept
  BY DEF VoidsKept
<1>2. Len(trade_logs) \in Nat /\ \A i \in 1 .. Len(trade_logs) : 0 + i = i
  BY DEF TypeOK
<1>3. 0 \in 0 .. Len(trade_logs) /\ Len(trade_logs') = Len(trade_logs) - 0
  BY <1>2
<1>4. \A i \in 1 .. Len(trade_logs') : SameTrade(trade_logs'[i], trade_logs[0 + i])
  BY <1>2 DEF SameTrade
<1> QED
  BY <1>1, <1>3, <1>4 DEF QueueKept

LEMMA PayoutsKeep ==
  ASSUME TypeOK, NEW r \in Run, Canister(r) \/ Callee(r)
  PROVE  VoidsKept /\ QueueKept
<1>1. /\ DOMAIN void_positions = Kind /\ trade_logs \in Seq(TradeLogType)
      /\ \A k \in Kind : PartialFunction(void_positions[k], PositionId, VoidPositionType)
      /\ \A i \in 1 .. Len(trade_logs) : SameTrade(trade_logs[i], trade_logs[i])
  BY DEF TypeOK, SameTrade
<1>2. ASSUME NEW lock, NEW payouts, NEW updates,
             Polled(r, void_positions, trade_logs, lock, payouts, updates)
      PROVE  VoidsKept /\ QueueKept
  BY <1>1, <1>2, PolledKeeps
<1>3. CASE StartRun(r)
  <2>1. Polled(r, LockedVoids, LockedTrades, flush_lock["positions"] \/ TakenUpdates # {},
               [o \in TakenPayouts |-> StartPayout(o)], [u \in TakenUpdates |-> StartUpdate(u)])
    BY <1>3 DEF StartRun
  <2>2. LockedTrades \in Seq(TradeLogType) /\ Len(LockedTrades) = Len(trade_logs)
    BY LockedTradesType
  <2>3. \A i \in 1 .. Len(LockedTrades) : SameTrade(LockedTrades[i], trade_logs[i])
    <3>1. \A tl \in TradeLogType : \A x : SameTrade([tl EXCEPT !.payout_lock = x], tl)
      BY DEF SameTrade, TradeLogType
    <3>2. \A i \in 1 .. Len(trade_logs) : trade_logs[i] \in TradeLogType
      BY <1>1
    <3> QED
      BY <2>2, <3>1, <3>2 DEF LockedTrades
  <2>4. /\ DOMAIN LockedVoids = Kind
        /\ \A k \in Kind : /\ DOMAIN LockedVoids[k] = DOMAIN void_positions[k]
                           /\ PartialFunction(LockedVoids[k], PositionId, VoidPositionType)
    BY LockedVoidsType
  <2>5. \A k \in Kind : \A i \in DOMAIN LockedVoids[k] :
          LockedVoids[k][i].quantity = void_positions[k][i].quantity
    <3>1. \A vp \in VoidPositionType : \A x, y :
            [vp EXCEPT !.payout_lock = x, !.update_lock = y].quantity = vp.quantity
      BY DEF VoidPositionType
    <3>2. \A k \in Kind : \A i \in DOMAIN void_positions[k] : void_positions[k][i] \in VoidPositionType
      BY <1>1 DEF PartialFunction
    <3>3. \A k \in Kind : \A i \in DOMAIN void_positions[k] :
            LockedVoids[k][i].quantity = void_positions[k][i].quantity
      <4> DEFINE L(k, i) == [void_positions[k][i] EXCEPT !.payout_lock = @ \/ i \in VoidPayouts(k),
                                                        !.update_lock = @ \/ i \in VoidUpdates(k)]
      <4>1. LockedVoids = [k \in Kind |-> [i \in DOMAIN void_positions[k] |-> L(k, i)]]
        BY DEF LockedVoids
      <4>2. \A k \in Kind : \A i \in DOMAIN void_positions[k] : L(k, i).quantity = void_positions[k][i].quantity
        BY <3>1, <3>2
      <4> HIDE DEF L
      <4> QED
        BY <4>1, <4>2
    <3> QED
      BY <2>4, <3>3
  <2> QED
    BY <2>1, <2>2, <2>3, <2>4, <2>5, PolledKeeps
<1>4. ASSUME NEW o \in DOMAIN runs[r].payouts, PayoutReply(r, o)
      PROVE  VoidsKept /\ QueueKept
  BY <1>2, <1>4 DEF PayoutReply
<1>5. ASSUME NEW u \in DOMAIN runs[r].updates, UpdateReply(r, u)
      PROVE  VoidsKept /\ QueueKept
  BY <1>2, <1>5 DEF UpdateReply
<1>6. CASE Resume(r)
  <2>1. PICK n \in 0 .. Len(trade_logs) : trade_logs' = SubSeq(trade_logs, n + 1, Len(trade_logs))
    BY <1>6 DEF Resume
  <2>2. UNCHANGED void_positions
    BY <1>6 DEF Resume
  <2>3. /\ Len(trade_logs) \in Nat /\ n \in Nat
        /\ Len(SubSeq(trade_logs, n + 1, Len(trade_logs))) = Len(trade_logs) - n
        /\ \A i \in 1 .. Len(trade_logs) - n :
             SubSeq(trade_logs, n + 1, Len(trade_logs))[i] = trade_logs[n + i]
    BY <1>1
  <2>4. \A i \in 1 .. Len(trade_logs') : trade_logs'[i] = trade_logs[n + i]
    BY <2>1, <2>3
  <2>5. Len(trade_logs') = Len(trade_logs) - n
    BY <2>1, <2>3
  <2>6. QueueKept
    BY <2>4, <2>5 DEF QueueKept, SameTrade
  <2> QED
    BY <2>2, <2>6 DEF VoidsKept
<1>7. ASSUME TimerFires(r) \/ SelfCallFails(r) \/ \E s \in Storage : FlushLogs(r, s) \/ FlushEnds(r, s) \/ FlushStops(r, s)
      PROVE  UNCHANGED <<void_positions, trade_logs>>
  BY <1>7 DEF TimerFires, SelfCallFails, FlushLogs, FlushEnds, FlushStops, Unlock, owedVars
<1>8. ASSUME Callee(r) PROVE UNCHANGED <<void_positions, trade_logs>>
  BY <1>8 DEF Callee, Transfer, BadFee, TransferFails, CmUpdateLog, UpdateFails, owedVars
<1> QED
  BY <1>3, <1>4, <1>5, <1>6, <1>7, <1>8, SameKept DEF Canister

(* The logs of the queue have their numbers, each its own.                 *)
LEMMA QueueIds ==
  ASSUME TypeOK, TradesStoredInOrder
  PROVE  /\ DOMAIN trade_logs = 1 .. Len(trade_logs) /\ Len(trade_logs) \in Nat
         /\ \A i \in 1 .. Len(trade_logs) : /\ trade_logs[i].id \in PurchaseId /\ trade_logs[i].id \in Nat
                                           /\ trade_logs[i].id < trade_logs_id_counter
         /\ \A i, j \in 1 .. Len(trade_logs) : trade_logs[i].id = trade_logs[j].id => i = j
<1>1. DOMAIN trade_logs = 1 .. Len(trade_logs) /\ Len(trade_logs) \in Nat /\ Len(trades_stored) \in Nat
  BY DEF TypeOK
<1>2. \A i \in 1 .. Len(trade_logs) : trade_logs[i].id = Len(trades_stored) + i - 1
  BY DEF TradesStoredInOrder
<1>3. \A i \in 1 .. Len(trade_logs) : trade_logs[i].id \in PurchaseId
  BY PayoutsAssumption DEF TypeOK, TradesStoredInOrder, PurchaseId
<1>4. \A i \in 1 .. Len(trade_logs) : trade_logs[i].id \in Nat /\ trade_logs[i].id < trade_logs_id_counter
  BY <1>1, <1>2 DEF TradesStoredInOrder
<1> QED
  BY <1>1, <1>2, <1>3, <1>4

LEMMA FirstBlock ==
  ASSUME NEW paid, NEW O, NEW S, paid \in [O -> S], NEW o \in O, paid[o] = <<>>, NEW block, NEW paid2,
         paid2 = [paid EXCEPT ![o] = Append(@, block)]
  PROVE  paid2[o] # <<>> /\ \A p \in O \ {o} : paid2[p] = paid[p]
<1>1. Append(<<>>, block) # <<>>
  OBVIOUS
<1>2. paid2[o] = Append(<<>>, block)
  OBVIOUS
<1> QED
  BY <1>1, <1>2

(* What a transfer moves is what was owed: the net amount of an entry,     *)
(* with the fee taken from it.                                             *)
LEMMA TransferOfVoid ==
  ASSUME LockInv, RecordInv, FeesCovered, NEW r \in Run, NEW o \in DOMAIN runs[r].payouts,
         Transfer(r, o), o.op = "void"
  PROVE  LET st == runs[r].payouts[o]
         IN /\ o.id \in UnpaidVoids(o.kind)
            /\ st.amount + st.fee = void_positions[o.kind][o.id].quantity
            /\ \A k \in Kind : /\ UnpaidVoids(k)' = IF k = o.kind THEN UnpaidVoids(k) \ {o.id} ELSE UnpaidVoids(k)
                               /\ UnpaidTrades(k)' = UnpaidTrades(k)
<1> DEFINE st == runs[r].payouts[o]
<1>1. TypeOK /\ RunShapes /\ LocksConsistent
  BY DEF LockInv
<1>2. o \in Obligation /\ st \in PayoutStatus /\ st.at = "sent"
  BY <1>1 DEF TypeOK, RunOK, PartialFunction, Transfer
<1>3. o \in OwedOnes(void_positions, trade_logs) /\ transfers[o] = <<>>
  BY <1>1, TransferFirst
<1>4. /\ UNCHANGED <<void_positions, trade_logs>>
      /\ transfers' = [transfers EXCEPT ![o] = Append(@, [amount |-> st.amount, fee |-> st.fee])]
  BY DEF Transfer, owedVars
<1> HIDE DEF st
<1>5. o.kind \in Kind /\ o = VoidObligation(o.kind, o.id)
  BY <1>2, ObligationForms
<1>6. o.id \in DOMAIN void_positions[o.kind]
  BY <1>3 DEF OwedOnes
<1>7. st.amount + st.fee = void_positions[o.kind][o.id].quantity
  <2> DEFINE q == void_positions[o.kind][o.id].quantity
  <2>1. VoidEntry(void_positions[o.kind][o.id]) \in Entries(void_positions, trade_logs, o)
    BY <1>2, <1>6, VoidEntries
  <2>2. \A e \in Entries(void_positions, trade_logs, o) : TaskMatches(st, transfers[o], e.net)
    BY DEF RecordInv, BooksMatch, Pays, st
  <2>3. TaskMatches(st, transfers[o], q)
    BY <2>1, <2>2 DEF VoidEntry
  <2>4. q \in Nat
    <3>1. void_positions[o.kind][o.id] \in VoidPositionType
      BY <1>1, <1>5, <1>6 DEF TypeOK, PartialFunction
    <3> QED
      BY <3>1 DEF VoidPositionType
  <2>5. st.amount = q - st.fee /\ st.fee \in Nat
    BY <1>2, <2>3 DEF TaskMatches, PayoutStatus
  <2> HIDE DEF q
  <2>6. st.amount + st.fee = q
    BY <2>4, <2>5
  <2> QED
    BY <2>6 DEF q
<1>8. transfers'[o] # <<>> /\ \A p \in Obligation \ {o} : transfers'[p] = transfers[p]
  BY <1>1, <1>2, <1>3, <1>4, FirstBlock DEF TypeOK
<1>9. ASSUME NEW k \in Kind
      PROVE  /\ UnpaidVoids(k)' = IF k = o.kind THEN UnpaidVoids(k) \ {o.id} ELSE UnpaidVoids(k)
             /\ UnpaidTrades(k)' = UnpaidTrades(k)
  <2>1. \A id \in DOMAIN void_positions[k] :
          /\ VoidObligation(k, id) \in Obligation
          /\ VoidObligation(k, id) = o <=> k = o.kind /\ id = o.id
    <3>1. DOMAIN void_positions[k] \subseteq PositionId
      BY <1>1 DEF TypeOK, PartialFunction
    <3> QED
      BY <1>5, <3>1 DEF VoidObligation, Obligation
  <2>2. \A i \in DOMAIN trade_logs : /\ TradeObligation(k, trade_logs[i].id) # o
                                     /\ TradeObligation(k, trade_logs[i].id) \in Obligation
    <3>1. \A i \in DOMAIN trade_logs : trade_logs[i].id \in PurchaseId
      BY QueueIds DEF LockInv
    <3> QED
      BY <1>5, <3>1 DEF TradeObligation, VoidObligation, Obligation
  <2>3. UnpaidVoids(k)' = {id \in DOMAIN void_positions[k] : transfers'[VoidObligation(k, id)] = <<>>}
    BY <1>4 DEF UnpaidVoids, Unpaid, VoidObligation
  <2>4. UnpaidTrades(k)' = {i \in DOMAIN trade_logs : transfers'[TradeObligation(k, trade_logs[i].id)] = <<>>}
    BY <1>4 DEF UnpaidTrades, Unpaid, TradeObligation
  <2>5. UnpaidTrades(k)' = UnpaidTrades(k)
    BY <1>8, <2>2, <2>4 DEF UnpaidTrades, Unpaid
  <2>6. UnpaidVoids(k)' = IF k = o.kind THEN UnpaidVoids(k) \ {o.id} ELSE UnpaidVoids(k)
    BY <1>8, <2>1, <2>3 DEF UnpaidVoids, Unpaid
  <2> QED
    BY <2>5, <2>6
<1>10. o.id \in UnpaidVoids(o.kind)
  BY <1>3, <1>5, <1>6 DEF UnpaidVoids, Unpaid
<1> QED
  BY <1>7, <1>9, <1>10 DEF st

LEMMA TransferOfTrade ==
  ASSUME LockInv, RecordInv, FeesCovered, NEW r \in Run, NEW o \in DOMAIN runs[r].payouts,
         Transfer(r, o), o.op # "void"
  PROVE  LET st == runs[r].payouts[o]
         IN \E i \in UnpaidTrades(o.kind) :
              /\ st.amount + st.fee = trade_logs[i].mount[o.kind] - trade_logs[i].cts_fee[o.kind]
              /\ \A k \in Kind : /\ UnpaidTrades(k)' = IF k = o.kind THEN UnpaidTrades(k) \ {i} ELSE UnpaidTrades(k)
                                 /\ UnpaidVoids(k)' = UnpaidVoids(k)
<1> DEFINE st == runs[r].payouts[o]
<1>1. TypeOK /\ RunShapes /\ LocksConsistent
  BY DEF LockInv
<1>2. o \in Obligation /\ st \in PayoutStatus /\ st.at = "sent"
  BY <1>1 DEF TypeOK, RunOK, PartialFunction, Transfer
<1>3. o \in OwedOnes(void_positions, trade_logs) /\ transfers[o] = <<>>
  BY <1>1, TransferFirst
<1>4. /\ UNCHANGED <<void_positions, trade_logs>>
      /\ transfers' = [transfers EXCEPT ![o] = Append(@, [amount |-> st.amount, fee |-> st.fee])]
  BY DEF Transfer, owedVars
<1> HIDE DEF st
<1>5. o.kind \in Kind /\ o = TradeObligation(o.kind, o.id)
  BY <1>2, ObligationForms
<1>6. PICK i \in 1 .. Len(trade_logs) : trade_logs[i].id = o.id
  BY <1>3 DEF OwedOnes
<1>7. st.amount + st.fee = trade_logs[i].mount[o.kind] - trade_logs[i].cts_fee[o.kind]
  <2> DEFINE m == trade_logs[i].mount[o.kind]
             f == trade_logs[i].cts_fee[o.kind]
  <2>1. TradeEntry(trade_logs[i], o.kind) \in Entries(void_positions, trade_logs, o)
    BY <1>2, <1>6, TradeEntries
  <2>2. \A e \in Entries(void_positions, trade_logs, o) : TaskMatches(st, transfers[o], e.net)
    BY DEF RecordInv, BooksMatch, Pays, st
  <2>3. TaskMatches(st, transfers[o], SatSub(m, f))
    BY <2>1, <2>2 DEF TradeEntry
  <2>4. m \in Nat /\ f \in Nat /\ f <= m
    <3>1. trade_logs[i] \in TradeLogType
      BY <1>1 DEF TypeOK
    <3> QED
      BY <1>5, <3>1 DEF TradeLogType, FeesCovered
  <2> HIDE DEF m, f
  <2>5. SatSub(m, f) = m - f
    BY <2>4 DEF SatSub
  <2>6. st.amount = (m - f) - st.fee /\ st.fee \in Nat
    BY <1>2, <2>3, <2>5 DEF TaskMatches, PayoutStatus
  <2>7. st.amount + st.fee = m - f
    BY <2>4, <2>6
  <2> QED
    BY <2>7 DEF m, f
<1>8. transfers'[o] # <<>> /\ \A p \in Obligation \ {o} : transfers'[p] = transfers[p]
  BY <1>1, <1>2, <1>3, <1>4, FirstBlock DEF TypeOK
<1>9. ASSUME NEW k \in Kind
      PROVE  /\ UnpaidTrades(k)' = IF k = o.kind THEN UnpaidTrades(k) \ {i} ELSE UnpaidTrades(k)
             /\ UnpaidVoids(k)' = UnpaidVoids(k)
  <2>1. \A id \in DOMAIN void_positions[k] :
          /\ VoidObligation(k, id) \in Obligation /\ VoidObligation(k, id) # o
    <3>1. DOMAIN void_positions[k] \subseteq PositionId
      BY <1>1 DEF TypeOK, PartialFunction
    <3> QED
      BY <1>5, <3>1 DEF VoidObligation, TradeObligation, Obligation
  <2>2. \A j \in DOMAIN trade_logs : /\ TradeObligation(k, trade_logs[j].id) \in Obligation
                                     /\ TradeObligation(k, trade_logs[j].id) = o <=> k = o.kind /\ j = i
    <3>1. /\ \A j \in DOMAIN trade_logs : trade_logs[j].id \in PurchaseId
          /\ \A j \in DOMAIN trade_logs : trade_logs[j].id = trade_logs[i].id <=> j = i
      BY <1>6, QueueIds DEF LockInv
    <3>2. \A j \in DOMAIN trade_logs : trade_logs[j].id = o.id <=> j = i
      BY <1>6, <3>1
    <3> HIDE <1>6
    <3> QED
      BY <1>5, <3>1, <3>2 DEF TradeObligation, Obligation
  <2>3. UnpaidVoids(k)' = {id \in DOMAIN void_positions[k] : transfers'[VoidObligation(k, id)] = <<>>}
    BY <1>4 DEF UnpaidVoids, Unpaid, VoidObligation
  <2>4. UnpaidTrades(k)' = {j \in DOMAIN trade_logs : transfers'[TradeObligation(k, trade_logs[j].id)] = <<>>}
    BY <1>4 DEF UnpaidTrades, Unpaid, TradeObligation
  <2>5. UnpaidVoids(k)' = UnpaidVoids(k)
    BY <1>8, <2>1, <2>3 DEF UnpaidVoids, Unpaid
  <2>6. UnpaidTrades(k)' = IF k = o.kind THEN UnpaidTrades(k) \ {i} ELSE UnpaidTrades(k)
    BY <1>8, <2>2, <2>4 DEF UnpaidTrades, Unpaid
  <2> QED
    BY <2>5, <2>6
<1>10. i \in UnpaidTrades(o.kind)
  BY <1>3, <1>5, <1>6, QueueIds DEF UnpaidTrades, Unpaid, LockInv
<1> QED
  BY <1>7, <1>9, <1>10 DEF st

LEMMA TransferSums ==
  ASSUME LockInv, RecordInv, FeesCovered, TypeOK', NEW r \in Run, NEW o \in DOMAIN runs[r].payouts,
         Transfer(r, o)
  PROVE  LET st == runs[r].payouts[o]
         IN /\ FeesCovered' /\ o.kind \in Kind /\ st.amount \in Nat /\ st.fee \in Nat
            /\ \A k \in Kind : VoidSum(k) + TradeSum(k) = VoidSum(k)' + TradeSum(k)'
                                 + (IF k = o.kind THEN st.amount + st.fee ELSE 0)
<1> DEFINE st == runs[r].payouts[o]
<1>1. TypeOK /\ UNCHANGED <<void_positions, trade_logs>>
  BY DEF LockInv, Transfer, owedVars
<1>2. o.kind \in Kind /\ st.amount \in Nat /\ st.fee \in Nat
  <2>1. o \in Obligation /\ st \in PayoutStatus
    BY <1>1 DEF TypeOK, RunOK, PartialFunction
  <2> QED
    BY <2>1 DEF Obligation, PayoutStatus
<1>3. FeesCovered'
  BY <1>1 DEF FeesCovered
<1>4. \A k \in Kind : VoidSum(k) \in Nat /\ TradeSum(k) \in Nat /\ VoidSum(k)' \in Nat /\ TradeSum(k)' \in Nat
  BY <1>1, <1>3, UnpaidTypes, UnpaidNext
<1>5. \A k \in Kind : UnpaidVoids(k)' = UnpaidVoids(k) => VoidSum(k)' = VoidSum(k)
  BY <1>1 DEF VoidSum
<1>6. \A k \in Kind : UnpaidTrades(k)' = UnpaidTrades(k) => TradeSum(k)' = TradeSum(k)
  BY <1>1 DEF TradeSum
<1>7. ASSUME NEW k \in Kind, NEW id \in UnpaidVoids(k), UnpaidVoids(k)' = UnpaidVoids(k) \ {id}
      PROVE  VoidSum(k) = VoidSum(k)' + void_positions[k][id].quantity
  <2> DEFINE f == [x \in UnpaidVoids(k) |-> void_positions[k][x].quantity]
             g == [x \in UnpaidVoids(k) \ {id} |-> void_positions[k][x].quantity]
  <2>1. VoidSum(k) = SumFunction(f) /\ VoidSum(k)' = SumFunction(g)
    BY <1>1, <1>7 DEF VoidSum
  <2>2. IsFiniteSet(DOMAIN f) /\ \A x \in DOMAIN f : f[x] \in Int
    BY <1>1, UnpaidTypes
  <2>3. /\ id \in DOMAIN f /\ DOMAIN g = DOMAIN f \ {id} /\ f[id] = void_positions[k][id].quantity
        /\ \A x \in DOMAIN g : f[x] = g[x]
    OBVIOUS
  <2> HIDE DEF f, g
  <2>4. SumFunction(f) = SumFunction(g) + f[id]
    BY <2>2, <2>3, SumDrop
  <2> QED
    BY <2>1, <2>3, <2>4
<1>8. ASSUME NEW k \in Kind, NEW i \in UnpaidTrades(k), UnpaidTrades(k)' = UnpaidTrades(k) \ {i}
      PROVE  TradeSum(k) = TradeSum(k)' + (trade_logs[i].mount[k] - trade_logs[i].cts_fee[k])
  <2> DEFINE f == [x \in UnpaidTrades(k) |-> trade_logs[x].mount[k] - trade_logs[x].cts_fee[k]]
             g == [x \in UnpaidTrades(k) \ {i} |-> trade_logs[x].mount[k] - trade_logs[x].cts_fee[k]]
  <2>1. TradeSum(k) = SumFunction(f) /\ TradeSum(k)' = SumFunction(g)
    BY <1>1, <1>8 DEF TradeSum
  <2>2. IsFiniteSet(DOMAIN f) /\ \A x \in DOMAIN f : f[x] \in Int
    BY <1>1, UnpaidTypes
  <2>3. /\ i \in DOMAIN f /\ DOMAIN g = DOMAIN f \ {i}
        /\ f[i] = trade_logs[i].mount[k] - trade_logs[i].cts_fee[k]
        /\ \A x \in DOMAIN g : f[x] = g[x]
    OBVIOUS
  <2> HIDE DEF f, g
  <2>4. SumFunction(f) = SumFunction(g) + f[i]
    BY <2>2, <2>3, SumDrop
  <2> QED
    BY <2>1, <2>3, <2>4
<1> HIDE DEF st
<1>9. ASSUME NEW k \in Kind
      PROVE  VoidSum(k) + TradeSum(k) = VoidSum(k)' + TradeSum(k)' + (IF k = o.kind THEN st.amount + st.fee ELSE 0)
  <2> DEFINE v == VoidSum(k)
             w == VoidSum(k)'
             t == TradeSum(k)
             u == TradeSum(k)'
             a == st.amount + st.fee
  <2>1. v \in Nat /\ w \in Nat /\ t \in Nat /\ u \in Nat /\ a \in Nat
    BY <1>2, <1>4
  <2>2. CASE o.op = "void"
    <3>1. /\ o.id \in UnpaidVoids(o.kind) /\ a = void_positions[o.kind][o.id].quantity
          /\ UnpaidVoids(k)' = IF k = o.kind THEN UnpaidVoids(k) \ {o.id} ELSE UnpaidVoids(k)
          /\ UnpaidTrades(k)' = UnpaidTrades(k)
      BY <2>2, TransferOfVoid DEF st
    <3>2. u = t
      BY <1>6, <3>1
    <3>3. v = w + (IF k = o.kind THEN a ELSE 0)
      <4>1. CASE k = o.kind
        BY <1>7, <3>1, <4>1
      <4>2. CASE k # o.kind
        <5>1. w = v
          BY <1>5, <3>1, <4>2
        <5> QED
          BY <2>1, <4>2, <5>1
      <4> QED
        BY <4>1, <4>2
    <3>4. v + t = w + u + (IF k = o.kind THEN a ELSE 0)
      <4> HIDE DEF v, w, t, u, a
      <4> QED
        BY <2>1, <3>2, <3>3
    <3> QED
      BY <3>4
  <2>3. CASE o.op # "void"
    <3>1. PICK i \in UnpaidTrades(o.kind) :
            /\ a = trade_logs[i].mount[o.kind] - trade_logs[i].cts_fee[o.kind]
            /\ UnpaidTrades(k)' = IF k = o.kind THEN UnpaidTrades(k) \ {i} ELSE UnpaidTrades(k)
            /\ UnpaidVoids(k)' = UnpaidVoids(k)
      BY <2>3, TransferOfTrade DEF st
    <3>2. w = v
      BY <1>5, <3>1
    <3>3. t = u + (IF k = o.kind THEN a ELSE 0)
      <4>1. CASE k = o.kind
        BY <1>8, <3>1, <4>1
      <4>2. CASE k # o.kind
        <5>1. u = t
          BY <1>6, <3>1, <4>2
        <5> QED
          BY <2>1, <4>2, <5>1
      <4> QED
        BY <4>1, <4>2
    <3>4. v + t = w + u + (IF k = o.kind THEN a ELSE 0)
      <4> HIDE DEF v, w, t, u, a
      <4> QED
        BY <2>1, <3>2, <3>3
    <3> QED
      BY <3>4
  <2> QED
    BY <2>2, <2>3
<1> QED
  BY <1>2, <1>3, <1>9 DEF st

LEMMA OwedTypes ==
  TypeOK /\ ContractInv /\ FeesCovered =>
    \A k \in Kind :
      /\ Mainder(book[k]) \in Nat /\ PaidSum(calls, k) \in Nat /\ VoidSum(k) \in Nat /\ TradeSum(k) \in Nat
      /\ positions_balance[k] \in Nat
      /\ Owed(k) = Mainder(book[k]) + PaidSum(calls, k) + VoidSum(k) + TradeSum(k)
<1> SUFFICES ASSUME TypeOK, ContractInv, FeesCovered, NEW k \in Kind
             PROVE  /\ Mainder(book[k]) \in Nat /\ PaidSum(calls, k) \in Nat
                    /\ VoidSum(k) \in Nat /\ TradeSum(k) \in Nat /\ positions_balance[k] \in Nat
                    /\ Owed(k) = Mainder(book[k]) + PaidSum(calls, k) + VoidSum(k) + TradeSum(k)
  OBVIOUS
<1>1. Mainder(book[k]) \in Nat
  <2>1. IsFiniteSet(DOMAIN book[k]) /\ book[k] \in [DOMAIN book[k] -> PositionType]
    BY FiniteBook DEF ContractInv, BookSound
  <2>2. \A p \in PositionType : p.mainder \in Nat
    BY DEF PositionType
  <2> QED
    BY <2>1, <2>2, MainderType
<1>2. PaidSum(calls, k) \in Nat
  BY PaidSumType DEF ContractInv, CallsInv, Counted, Active
<1>3. VoidSum(k) \in Nat /\ TradeSum(k) \in Nat
  BY UnpaidTypes
<1>4. positions_balance[k] \in Nat
  BY DEF ContractInv, BookSound
<1> QED
  BY <1>1, <1>2, <1>3, <1>4, OwedIs

LEMMA OwedNext ==
  TypeOK' /\ ContractInv' /\ FeesCovered' =>
    \A k \in Kind :
      /\ Mainder(book'[k]) \in Nat /\ PaidSum(calls', k) \in Nat /\ VoidSum(k)' \in Nat /\ TradeSum(k)' \in Nat
      /\ positions_balance'[k] \in Nat
      /\ Owed(k)' = Mainder(book'[k]) + PaidSum(calls', k) + VoidSum(k)' + TradeSum(k)'
<1>1. (TypeOK /\ ContractInv /\ FeesCovered)' =>
       (\A k \in Kind :
         /\ Mainder(book[k]) \in Nat /\ PaidSum(calls, k) \in Nat /\ VoidSum(k) \in Nat /\ TradeSum(k) \in Nat
         /\ positions_balance[k] \in Nat
         /\ Owed(k) = Mainder(book[k]) + PaidSum(calls, k) + VoidSum(k) + TradeSum(k))'
  BY OwedTypes, PTL
<1>2. \A k : Mainder(book[k])' = Mainder(book'[k]) /\ PaidSum(calls, k)' = PaidSum(calls', k)
  BY DEF Mainder, PaidSum, PaidCallsIn
<1> QED
  BY <1>1, <1>2

(* What a step takes from the subaccount is no more than what it pays.     *)
LEMMA StillCovered ==
  ASSUME TypeOK, ContractInv, FeesCovered, PaymentsCovered, TypeOK', ContractInv', FeesCovered',
         \A k \in Kind : Mainder(book'[k]) + PaidSum(calls', k) + (VoidSum(k)' + TradeSum(k)') + positions_balance[k]
                           <= Mainder(book[k]) + PaidSum(calls, k) + (VoidSum(k) + TradeSum(k)) + positions_balance'[k]
  PROVE  PaymentsCovered'
<1> SUFFICES ASSUME NEW k \in Kind PROVE positions_balance'[k] >= Owed(k)'
  BY DEF PaymentsCovered
<1> DEFINE m == Mainder(book[k])
           m2 == Mainder(book'[k])
           p == PaidSum(calls, k)
           p2 == PaidSum(calls', k)
           v == VoidSum(k)
           v2 == VoidSum(k)'
           t == TradeSum(k)
           t2 == TradeSum(k)'
           b == positions_balance[k]
           b2 == positions_balance'[k]
           w == Owed(k)
           w2 == Owed(k)'
<1>1. /\ m \in Nat /\ p \in Nat /\ v \in Nat /\ t \in Nat /\ b \in Nat /\ w = m + p + v + t
  BY OwedTypes
<1>2. /\ m2 \in Nat /\ p2 \in Nat /\ v2 \in Nat /\ t2 \in Nat /\ b2 \in Nat /\ w2 = m2 + p2 + v2 + t2
  BY OwedNext
<1>3. m2 + p2 + (v2 + t2) + b <= m + p + (v + t) + b2
  OBVIOUS
<1>4. b >= w
  BY DEF PaymentsCovered
<1>5. b2 >= w2
  <2> HIDE DEF m, m2, p, p2, v, v2, t, t2, b, b2, w, w2
  <2> QED
    BY <1>1, <1>2, <1>3, <1>4
<1> QED
  BY <1>5

(* The payouts record, or a call begins: nothing new is owed.              *)
LEMMA QuietCovered ==
  ASSUME TypeOK, ContractInv, FeesCovered, PaymentsCovered, TypeOK', ContractInv',
         VoidsKept, QueueKept, UNCHANGED <<transfers, book, positions_balance>>,
         \A k \in Kind : PaidSum(calls', k) = PaidSum(calls, k)
  PROVE  FeesCovered' /\ PaymentsCovered'
<1>1. FeesCovered' /\ \A k \in Kind : VoidSum(k)' <= VoidSum(k) /\ TradeSum(k)' <= TradeSum(k)
  BY LessUnpaid
<1>2. ASSUME NEW k \in Kind
      PROVE  Mainder(book'[k]) + PaidSum(calls', k) + (VoidSum(k)' + TradeSum(k)') + positions_balance[k]
               <= Mainder(book[k]) + PaidSum(calls, k) + (VoidSum(k) + TradeSum(k)) + positions_balance'[k]
  <2> DEFINE m == Mainder(book[k])
             p == PaidSum(calls, k)
             v == VoidSum(k)
             v2 == VoidSum(k)'
             t == TradeSum(k)
             t2 == TradeSum(k)'
             b == positions_balance[k]
  <2>1. m \in Nat /\ p \in Nat /\ v \in Nat /\ t \in Nat /\ b \in Nat /\ v2 \in Nat /\ t2 \in Nat
    BY <1>1, OwedTypes, OwedNext
  <2>2. v2 <= v /\ t2 <= t
    BY <1>1
  <2>3. m + p + (v2 + t2) + b <= m + p + (v + t) + b
    <3> HIDE DEF m, p, v, v2, t, t2, b
    <3> QED
      BY <2>1, <2>2
  <2>4. Mainder(book'[k]) = m /\ PaidSum(calls', k) = p /\ positions_balance'[k] = b
    OBVIOUS
  <2> QED
    BY ONLY <2>3, <2>4
<1> QED
  BY <1>1, <1>2, StillCovered

LEMMA TransferCovered ==
  ASSUME LockInv, RecordInv, ContractInv, FeesCovered, PaymentsCovered, TypeOK', ContractInv',
         NEW r \in Run, NEW o \in DOMAIN runs[r].payouts, TransferPaid(r, o)
  PROVE  FeesCovered' /\ PaymentsCovered'
<1> DEFINE a == runs[r].payouts[o].amount + runs[r].payouts[o].fee
<1>1. /\ Transfer(r, o) /\ UNCHANGED <<book, locks, calls>> /\ TypeOK
      /\ positions_balance \in [Kind -> Nat]
      /\ positions_balance' = [positions_balance EXCEPT
                                 ![o.kind] = @ - runs[r].payouts[o].amount - runs[r].payouts[o].fee]
  BY DEF TransferPaid, LockInv, ContractInv, BookSound
<1>2. /\ FeesCovered' /\ o.kind \in Kind
      /\ runs[r].payouts[o].amount \in Nat /\ runs[r].payouts[o].fee \in Nat
      /\ \A k \in Kind : VoidSum(k) + TradeSum(k) = VoidSum(k)' + TradeSum(k)' + (IF k = o.kind THEN a ELSE 0)
  BY <1>1, TransferSums
<1>3. \A k \in Kind : positions_balance[k] = positions_balance'[k] + (IF k = o.kind THEN a ELSE 0)
  BY <1>1, <1>2
<1>4. ASSUME NEW k \in Kind
      PROVE  Mainder(book'[k]) + PaidSum(calls', k) + (VoidSum(k)' + TradeSum(k)') + positions_balance[k]
               <= Mainder(book[k]) + PaidSum(calls, k) + (VoidSum(k) + TradeSum(k)) + positions_balance'[k]
  <2> DEFINE m == Mainder(book[k])
             p == PaidSum(calls, k)
             s == VoidSum(k) + TradeSum(k)
             s2 == VoidSum(k)' + TradeSum(k)'
             b == positions_balance[k]
             b2 == positions_balance'[k]
             x == IF k = o.kind THEN a ELSE 0
  <2>1. m \in Nat /\ p \in Nat /\ s \in Nat /\ s2 \in Nat /\ b \in Nat /\ b2 \in Nat /\ x \in Nat
    BY <1>1, <1>2, OwedTypes, OwedNext
  <2>2. s = s2 + x /\ b = b2 + x
    BY <1>2, <1>3
  <2>3. m + p + s2 + b <= m + p + s + b2
    <3> HIDE DEF m, p, s, s2, b, b2, x
    <3> QED
      BY <2>1, <2>2
  <2>4. Mainder(book'[k]) = m /\ PaidSum(calls', k) = p
    BY <1>1
  <2> QED
    BY ONLY <2>3, <2>4
<1> QED
  BY <1>1, <1>2, <1>4, StillCovered

LEMMA AnswerCovered ==
  ASSUME LockInv, ContractInv, FeesCovered, PaymentsCovered, TypeOK', ContractInv',
         NEW c \in Call, LedgerAnswers(c)
  PROVE  FeesCovered' /\ PaymentsCovered'
<1>1. /\ UNCHANGED vars /\ UNCHANGED <<book, locks>> /\ calls[c].op # "none" /\ calls[c].answer = "none"
      /\ \/ /\ calls' = [calls EXCEPT ![c].answer = "ok"]
            /\ positions_balance' = [positions_balance EXCEPT ![calls[c].kind] = @ + calls[c].quantity]
         \/ /\ calls' = [calls EXCEPT ![c].answer = "err"]
            /\ UNCHANGED positions_balance
  BY AnswersAre
<1>2. /\ UNCHANGED <<void_positions, trade_logs, transfers>> /\ TypeOK
      /\ positions_balance \in [Kind -> Nat]
  BY <1>1 DEF vars, owedVars, LockInv, ContractInv, BookSound
<1>3. FeesCovered' /\ \A k : VoidSum(k)' = VoidSum(k) /\ TradeSum(k)' = TradeSum(k)
  BY <1>2 DEF FeesCovered, VoidSum, TradeSum, UnpaidVoids, UnpaidTrades, Unpaid, VoidObligation, TradeObligation
<1>4. /\ \A d \in Call : d # c => calls'[d] = calls[d]
      /\ calls'[c].kind = calls[c].kind /\ calls'[c].quantity = calls[c].quantity
      /\ UNCHANGED Active
  BY AnswerKeeps DEF ContractInv
<1>5. /\ calls \in [Call -> CallType] /\ calls' \in [Call -> CallType]
      /\ IsFiniteSet({d \in Call : calls[d].op # "none"}) /\ IsFiniteSet({d \in Call : calls'[d].op # "none"})
  BY <1>4 DEF ContractInv, CallsInv, Counted, Active
<1>6. calls[c].kind \in Kind /\ calls[c].quantity \in Nat
  BY <1>1, <1>5, CallFields
<1>7. ASSUME NEW k \in Kind
      PROVE  Mainder(book'[k]) + PaidSum(calls', k) + (VoidSum(k)' + TradeSum(k)') + positions_balance[k]
               <= Mainder(book[k]) + PaidSum(calls, k) + (VoidSum(k) + TradeSum(k)) + positions_balance'[k]
  <2> DEFINE m == Mainder(book[k])
             p == PaidSum(calls, k)
             p2 == PaidSum(calls', k)
             s == VoidSum(k) + TradeSum(k)
             b == positions_balance[k]
             b2 == positions_balance'[k]
             x == IF c \in PaidCallsIn(calls', k) THEN calls'[c].quantity ELSE 0
  <2>1. m \in Nat /\ p \in Nat /\ p2 \in Nat /\ s \in Nat /\ b \in Nat /\ b2 \in Nat
    BY <1>2, <1>3, OwedTypes, OwedNext
  <2>2. x \in Nat
    BY <1>4, <1>6
  <2>3. PaidSum(calls', k) = PaidSum(calls, k) - (IF c \in PaidCallsIn(calls, k) THEN calls[c].quantity ELSE 0)
                                               + (IF c \in PaidCallsIn(calls', k) THEN calls'[c].quantity ELSE 0)
    BY <1>4, <1>5, PaidSumAt
  <2>4. c \notin PaidCallsIn(calls, k)
    BY <1>1 DEF PaidCallsIn
  <2>5. p2 = p + x
    <3>1. p2 = p - 0 + x
      BY <2>3, <2>4
    <3> HIDE DEF p, p2, x
    <3> QED
      BY <2>1, <2>2, <3>1
  <2>6. b + x <= b2
    <3>1. CASE calls'[c].answer = "ok"
      <4>1. positions_balance' = [positions_balance EXCEPT ![calls[c].kind] = @ + calls[c].quantity]
        BY <1>1, <1>5, <3>1 DEF CallType, NoCall
      <4>2. x = 0 \/ (k = calls[c].kind /\ x = calls[c].quantity)
        BY <1>4 DEF PaidCallsIn
      <4>3. b2 = IF k = calls[c].kind THEN b + calls[c].quantity ELSE b
        BY <1>2, <4>1
      <4> HIDE DEF x, b, b2
      <4> QED
        BY <1>6, <2>1, <4>2, <4>3
    <3>2. CASE calls'[c].answer # "ok"
      <4>1. x = 0
        BY <3>2 DEF PaidCallsIn
      <4>2. UNCHANGED positions_balance
        BY <1>1, <1>5, <3>2 DEF CallType, NoCall
      <4> QED
        BY <2>1, <4>1, <4>2
    <3> QED
      BY <3>1, <3>2
  <2>7. m + p2 + s + b <= m + p + s + b2
    <3> HIDE DEF m, p, p2, s, b, b2, x
    <3> QED
      BY <2>1, <2>2, <2>5, <2>6
  <2>8. Mainder(book'[k]) = m /\ VoidSum(k)' + TradeSum(k)' = s
    BY <1>1, <1>3
  <2> QED
    BY ONLY <2>7, <2>8
<1> QED
  BY <1>2, <1>3, <1>7, StillCovered

(* Positions that become void are owed as before.                          *)
LEMMA VoidsGrow ==
  ASSUME TypeOK, FeesCovered, NEW k \in Kind, NEW all, NEW F \in SUBSET DOMAIN all, UNCHANGED transfers,
         IsFiniteSet(DOMAIN all), \A x \in DOMAIN all : all[x].mainder \in Nat,
         \A x \in F : x \notin DOMAIN void_positions[k] /\ transfers[VoidObligation(k, x)] = <<>>,
         DOMAIN book'[k] = DOMAIN all \ F, \A x \in DOMAIN book'[k] : book'[k][x].mainder = all[x].mainder,
         DOMAIN void_positions'[k] = DOMAIN void_positions[k] \cup F,
         \A x \in DOMAIN void_positions[k] : void_positions'[k][x].quantity = void_positions[k][x].quantity,
         \A x \in F : void_positions'[k][x].quantity = all[x].mainder
  PROVE  /\ Mainder(book'[k]) + VoidSum(k)' = Mainder(all) + VoidSum(k)
         /\ Mainder(book'[k]) \in Nat /\ VoidSum(k)' \in Nat /\ Mainder(all) \in Nat /\ VoidSum(k) \in Nat
<1> DEFINE f == [x \in DOMAIN all |-> all[x].mainder]
           g == [x \in DOMAIN book'[k] |-> book'[k][x].mainder]
           v == [x \in UnpaidVoids(k) |-> void_positions[k][x].quantity]
           w == [x \in UnpaidVoids(k)' |-> void_positions'[k][x].quantity]
<1>1. UnpaidVoids(k)' = UnpaidVoids(k) \cup F
  <2>1. UnpaidVoids(k)' = {x \in DOMAIN void_positions'[k] : transfers'[VoidObligation(k, x)] = <<>>}
    BY DEF UnpaidVoids, Unpaid, VoidObligation
  <2>2. UnpaidVoids(k)' = {x \in DOMAIN void_positions[k] \cup F : transfers[VoidObligation(k, x)] = <<>>}
    BY <2>1
  <2> QED
    BY <2>2 DEF UnpaidVoids, Unpaid
<1>2. /\ IsFiniteSet(UnpaidVoids(k)) /\ UnpaidVoids(k) \subseteq DOMAIN void_positions[k]
      /\ \A x \in UnpaidVoids(k) : void_positions[k][x].quantity \in Nat
  BY UnpaidTypes
<1>3. /\ Mainder(all) = SumFunction(f) /\ Mainder(book'[k]) = SumFunction(g)
      /\ VoidSum(k) = SumFunction(v) /\ VoidSum(k)' = SumFunction(w)
  BY DEF Mainder, VoidSum
<1>4. Moves(f, v, g, w, F)
  <2>1. /\ DOMAIN f = DOMAIN all /\ DOMAIN v = UnpaidVoids(k) /\ DOMAIN g = DOMAIN f \ F
        /\ DOMAIN w = DOMAIN v \cup F /\ F \cap DOMAIN v = {} /\ F \subseteq DOMAIN f
    BY <1>1, <1>2
  <2>2. IsFiniteSet(DOMAIN f) /\ IsFiniteSet(DOMAIN v)
    BY <1>2, <2>1
  <2>3. /\ \A x \in DOMAIN f : f[x] \in Nat
        /\ \A x \in DOMAIN v : v[x] \in Nat
    BY <1>2
  <2>4. \A x \in DOMAIN g : g[x] = f[x]
    OBVIOUS
  <2>5. \A x \in DOMAIN v : w[x] = v[x]
    BY <1>1, <1>2
  <2>6. \A x \in F : w[x] = f[x]
    BY <1>1
  <2> HIDE DEF f, g, v, w
  <2> QED
    BY <2>1, <2>2, <2>3, <2>4, <2>5, <2>6 DEF Moves
<1> HIDE DEF f, g, v, w
<1> QED
  BY <1>3, <1>4, MoveSum

LEMMA VoidCovered ==
  ASSUME LockInv, ContractInv, FeesCovered, PaymentsCovered, TypeOK', ContractInv',
         NEW user \in User, NEW k \in Kind, VoidByUser(user, k)
  PROVE  FeesCovered' /\ PaymentsCovered'
<1>1. PICK id \in DOMAIN book[k] :
        /\ book' = [book EXCEPT ![k] = Without(@, {id})]
        /\ void_positions' = [void_positions EXCEPT ![k] = With(@, id, NewVoidPosition(book[k][id].mainder))]
        /\ UNCHANGED <<calls, positions_balance, trade_logs, transfers>>
  BY DEF VoidByUser, payVars
<1>2. TypeOK /\ BookSound /\ BookIds /\ NoFreshTransfers
  BY DEF LockInv, ContractInv
<1>3. FeesCovered' /\ \A j \in Kind : TradeSum(j)' = TradeSum(j)
  BY <1>1 DEF FeesCovered, TradeSum, UnpaidTrades, Unpaid, TradeObligation
<1>4. /\ DOMAIN book' = Kind /\ DOMAIN void_positions' = Kind
      /\ \A j \in Kind : /\ book'[j] = IF j = k THEN Without(book[k], {id}) ELSE book[j]
                         /\ void_positions'[j] = IF j = k THEN With(void_positions[k], id, NewVoidPosition(book[k][id].mainder))
                                                 ELSE void_positions[j]
  BY <1>1, <1>2 DEF BookSound, TypeOK
<1>5. Mainder(book'[k]) + VoidSum(k)' = Mainder(book[k]) + VoidSum(k)
  <2>1. IsFiniteSet(DOMAIN book[k]) /\ \A x \in DOMAIN book[k] : book[k][x].mainder \in Nat
    <3>1. IsFiniteSet(DOMAIN book[k]) /\ book[k] \in [DOMAIN book[k] -> PositionType]
      BY <1>2, FiniteBook DEF BookSound
    <3>2. \A p \in PositionType : p.mainder \in Nat
      BY DEF PositionType
    <3> QED
      BY <3>1, <3>2
  <2>2. id \notin DOMAIN void_positions[k] /\ transfers[VoidObligation(k, id)] = <<>>
    <3>1. id \in positions[k] /\ id \in PositionId
      BY <1>2 DEF BookSound, TypeOK
    <3>2. VoidObligation(k, id) \in Obligation /\ Fresh(VoidObligation(k, id))
      BY <3>1 DEF VoidObligation, Obligation, Fresh
    <3> QED
      BY <1>2, <3>1, <3>2 DEF BookIds, NoFreshTransfers
  <2>3. book'[k] = Without(book[k], {id})
    BY <1>4
  <2>4. DOMAIN book'[k] = DOMAIN book[k] \ {id} /\ \A x \in DOMAIN book'[k] : book'[k][x] = book[k][x]
    BY <2>3 DEF Without
  <2>5. void_positions'[k] = With(void_positions[k], id, NewVoidPosition(book[k][id].mainder))
    BY <1>4
  <2>6. /\ DOMAIN void_positions'[k] = DOMAIN void_positions[k] \cup {id}
        /\ \A x \in DOMAIN void_positions[k] : void_positions'[k][x] = void_positions[k][x]
        /\ void_positions'[k][id].quantity = book[k][id].mainder
    BY <2>2, <2>5 DEF With, NewVoidPosition
  <2>7. /\ {id} \in SUBSET DOMAIN book[k]
        /\ \A x \in {id} : x \notin DOMAIN void_positions[k] /\ transfers[VoidObligation(k, x)] = <<>>
        /\ \A x \in {id} : void_positions'[k][x].quantity = book[k][x].mainder
    BY <2>2, <2>6
  <2>8. UNCHANGED transfers
    BY <1>1
  <2>9. /\ \A x \in DOMAIN book'[k] : book'[k][x].mainder = book[k][x].mainder
        /\ \A x \in DOMAIN void_positions[k] : void_positions'[k][x].quantity = void_positions[k][x].quantity
    BY <2>4, <2>6
  <2> QED
    BY ONLY <1>2, FeesCovered, k \in Kind, <2>1, <2>4, <2>6, <2>7, <2>8, <2>9, VoidsGrow
<1>6. \A j \in Kind : j # k => Mainder(book'[j]) = Mainder(book[j]) /\ VoidSum(j)' = VoidSum(j)
  <2>1. \A j \in Kind : j # k => book'[j] = book[j] /\ void_positions'[j] = void_positions[j]
    BY <1>4
  <2>2. \A j \in Kind : j # k => UnpaidVoids(j)' = UnpaidVoids(j)
    BY <1>1, <2>1 DEF UnpaidVoids, Unpaid, VoidObligation
  <2> QED
    BY <2>1, <2>2 DEF VoidSum
<1>7. ASSUME NEW j \in Kind
      PROVE  Mainder(book'[j]) + PaidSum(calls', j) + (VoidSum(j)' + TradeSum(j)') + positions_balance[j]
               <= Mainder(book[j]) + PaidSum(calls, j) + (VoidSum(j) + TradeSum(j)) + positions_balance'[j]
  <2> DEFINE m == Mainder(book[j])
             m2 == Mainder(book'[j])
             p == PaidSum(calls, j)
             v == VoidSum(j)
             v2 == VoidSum(j)'
             t == TradeSum(j)
             b == positions_balance[j]
  <2>1. m \in Nat /\ m2 \in Nat /\ p \in Nat /\ v \in Nat /\ v2 \in Nat /\ t \in Nat /\ b \in Nat
    BY <1>2, <1>3, OwedTypes, OwedNext
  <2>2. m2 + v2 = m + v
    BY <1>5, <1>6
  <2>3. m2 + p + (v2 + t) + b <= m + p + (v + t) + b
    <3> HIDE DEF m, m2, p, v, v2, t, b
    <3> QED
      BY <2>1, <2>2
  <2>4. PaidSum(calls', j) = p /\ TradeSum(j)' = t /\ positions_balance'[j] = b
    BY <1>1, <1>3
  <2> QED
    BY ONLY <2>3, <2>4
<1> QED
  BY <1>2, <1>3, <1>7, StillCovered

(* What a match adds to the queue of trade logs.                           *)
LEMMA MatchQueue ==
  ASSUME LockInv, ContractInv, NEW c, PaidTrade(c), NEW limit \in MatchLimits, MatchMade(c, limit)
  PROVE  LET logs == MatchOf(c, limit).logs
             L == Len(trade_logs)
         IN /\ logs \in Seq(MatchLogType) /\ Len(trade_logs') = L + Len(logs) /\ DOMAIN trade_logs' = 1 .. L + Len(logs)
            /\ \A i \in 1 .. L : trade_logs'[i] = trade_logs[i]
            /\ \A i \in 1 .. Len(logs), j \in Kind : /\ trade_logs'[L + i].mount[j] = logs[i].mount[j]
                                                     /\ trade_logs'[L + i].cts_fee[j] = logs[i].cts_fee[j]
                                                     /\ logs[i].mount[j] \in Nat /\ logs[i].cts_fee[j] \in Nat
                                                     /\ logs[i].cts_fee[j] < logs[i].mount[j]
<1> DEFINE logs == MatchOf(c, limit).logs
           L == Len(trade_logs)
           log(i) == NewTradeLog(trade_logs_id_counter + i - 1,
                         [j \in Kind |-> [mount |-> logs[i].mount[j], cts_fee |-> logs[i].cts_fee[j]]])
<1>1. TypeOK /\ trade_logs \in Seq(TradeLogType) /\ L \in Nat
  BY DEF LockInv, TypeOK
<1>2. /\ LoopPositions(calls[c].kind, NewOf(c), book[Opposite(calls[c].kind)], MatchOf(c, limit))
      /\ FeesBelow(logs)
  BY <1>1, MatchDone DEF LoopSound
<1>3. logs \in Seq(MatchLogType)
  BY <1>2 DEF LoopPositions, MatchState
<1>4. trade_logs' = trade_logs \o [i \in DOMAIN logs |-> log(i)]
  BY DEF MatchMade
<1>5. \A i : /\ \A j \in Kind : log(i).mount[j] = logs[i].mount[j] /\ log(i).cts_fee[j] = logs[i].cts_fee[j]
  BY DEF NewTradeLog
<1> HIDE DEF logs, log
<1>6. Len(logs) \in Nat /\ DOMAIN logs = 1 .. Len(logs)
  BY <1>3
<1> HIDE DEF L
<1>7. /\ Len(trade_logs') = L + Len(logs) /\ DOMAIN trade_logs' = 1 .. L + Len(logs)
      /\ \A i \in 1 .. L : trade_logs'[i] = trade_logs[i]
      /\ \A i \in 1 .. Len(logs) : trade_logs'[L + i] = log(i)
  BY <1>1, <1>4, <1>6 DEF L
<1>8. ASSUME NEW i \in 1 .. Len(logs), NEW j \in Kind
      PROVE  /\ logs[i].mount[j] \in Nat /\ logs[i].cts_fee[j] \in Nat
             /\ logs[i].cts_fee[j] < logs[i].mount[j]
  <2>1. logs[i] \in MatchLogType
    BY <1>3
  <2> QED
    BY <1>2, <2>1 DEF FeesBelow, MatchLogType
<1>9. ASSUME NEW i \in 1 .. Len(logs), NEW j \in Kind
      PROVE  trade_logs'[L + i].mount[j] = logs[i].mount[j] /\ trade_logs'[L + i].cts_fee[j] = logs[i].cts_fee[j]
  BY <1>5, <1>7
<1> QED
  BY <1>3, <1>7, <1>8, <1>9 DEF logs, L

LEMMA MatchTradeSums ==
  ASSUME LockInv, ContractInv, FeesCovered, TypeOK', NEW c, PaidTrade(c), NEW limit \in MatchLimits,
         MatchMade(c, limit), UNCHANGED transfers
  PROVE  /\ FeesCovered'
         /\ \A j \in Kind : TradeSum(j)' <= TradeSum(j) + Mounted(MatchOf(c, limit).logs, j)
<1> DEFINE logs == MatchOf(c, limit).logs
           n == Len(logs)
           L == Len(trade_logs)
<1>1. /\ logs \in Seq(MatchLogType) /\ Len(trade_logs') = L + n /\ DOMAIN trade_logs' = 1 .. L + n
      /\ \A i \in 1 .. L : trade_logs'[i] = trade_logs[i]
      /\ \A i \in 1 .. n, j \in Kind : /\ trade_logs'[L + i].mount[j] = logs[i].mount[j]
                                       /\ trade_logs'[L + i].cts_fee[j] = logs[i].cts_fee[j]
                                       /\ logs[i].mount[j] \in Nat /\ logs[i].cts_fee[j] \in Nat
                                       /\ logs[i].cts_fee[j] < logs[i].mount[j]
  BY MatchQueue
<1>2. TypeOK /\ L \in Nat /\ n \in Nat /\ DOMAIN trade_logs = 1 .. L
  <2>1. TypeOK
    BY DEF LockInv
  <2>2. trade_logs \in Seq(TradeLogType)
    BY <2>1 DEF TypeOK
  <2> HIDE DEF logs
  <2> QED
    BY <1>1, <2>1, <2>2
<1> HIDE DEF logs, n, L
<1>3. \A i \in 1 .. L + n : i \in 1 .. L \/ (i - L \in 1 .. n /\ i = L + (i - L))
  BY <1>2
<1>4. FeesCovered'
  <2> SUFFICES ASSUME NEW i \in 1 .. L + n, NEW j \in Kind
               PROVE  trade_logs'[i].cts_fee[j] <= trade_logs'[i].mount[j]
    BY <1>1 DEF FeesCovered
  <2>1. CASE i \in 1 .. L
    BY <1>1, <2>1 DEF FeesCovered, L
  <2>2. CASE i - L \in 1 .. n /\ i = L + (i - L)
    <3>1. /\ trade_logs'[i].mount[j] = logs[i - L].mount[j] /\ trade_logs'[i].cts_fee[j] = logs[i - L].cts_fee[j]
          /\ logs[i - L].mount[j] \in Nat /\ logs[i - L].cts_fee[j] \in Nat
          /\ logs[i - L].cts_fee[j] < logs[i - L].mount[j]
      BY <1>1, <2>2
    <3> QED
      BY <3>1
  <2> QED
    BY <1>3, <2>1, <2>2
<1>5. ASSUME NEW j \in Kind
      PROVE  TradeSum(j)' <= TradeSum(j) + Mounted(logs, j)
  <2> DEFINE U == UnpaidTrades(j)
             N == (1 .. L + n) \ (1 .. L)
             u == [i \in U |-> trade_logs[i].mount[j] - trade_logs[i].cts_fee[j]]
             m == [i \in 1 .. n |-> logs[i].mount[j]]
             F == [i \in U \cup N |-> trade_logs'[i].mount[j] - trade_logs'[i].cts_fee[j]]
             G == [i \in N |-> trade_logs'[i].mount[j] - trade_logs'[i].cts_fee[j]]
             g == [i \in UnpaidTrades(j)' |-> trade_logs'[i].mount[j] - trade_logs'[i].cts_fee[j]]
             e == [i \in UnpaidTrades(j)' |-> i]
             h == [i \in N |-> i - L]
  <2>1. /\ IsFiniteSet(U) /\ U \subseteq 1 .. L
        /\ \A i \in U : trade_logs[i].mount[j] - trade_logs[i].cts_fee[j] \in Nat
    BY <1>2, UnpaidTypes DEF L
  <2>2. /\ UnpaidTrades(j)' \subseteq 1 .. L + n /\ IsFiniteSet(UnpaidTrades(j)')
        /\ \A i \in UnpaidTrades(j)' : trade_logs'[i].mount[j] - trade_logs'[i].cts_fee[j] \in Nat
    BY <1>1, <1>4, UnpaidNext
  <2>3. \A i \in N : i - L \in 1 .. n /\ i = L + (i - L) /\ i \in Nat
    BY <1>2, <1>3
  <2>4. U \cap N = {} /\ IsFiniteSet(N) /\ IsFiniteSet(1 .. n)
    <3>1. IsFiniteSet(1 .. L + n) /\ N \in SUBSET (1 .. L + n) /\ IsFiniteSet(1 .. n)
      BY <1>2, FS_Interval
    <3>2. U \cap N = {}
      BY <2>1
    <3> QED
      BY <3>1, <3>2, FS_Subset
  <2>5. UnpaidTrades(j)' \subseteq U \cup N
    <3> SUFFICES ASSUME NEW i \in UnpaidTrades(j)', i \in 1 .. L PROVE i \in U
      BY <2>2
    <3>1. transfers'[TradeObligation(j, trade_logs'[i].id)] = <<>>
      BY DEF UnpaidTrades, Unpaid, TradeObligation
    <3>2. transfers[TradeObligation(j, trade_logs[i].id)] = <<>>
      BY <1>1, <3>1
    <3> QED
      BY <1>2, <3>2 DEF UnpaidTrades, Unpaid
  <2>6. \A i \in U : trade_logs'[i] = trade_logs[i]
    BY <1>1, <2>1
  <2>7. \A i \in N : /\ trade_logs'[i].mount[j] - trade_logs'[i].cts_fee[j] \in Nat
                     /\ logs[i - L].mount[j] \in Nat
                     /\ trade_logs'[i].mount[j] - trade_logs'[i].cts_fee[j] <= logs[i - L].mount[j]
    <3> TAKE i \in N
    <3>1. /\ trade_logs'[i].mount[j] = logs[i - L].mount[j] /\ trade_logs'[i].cts_fee[j] = logs[i - L].cts_fee[j]
          /\ logs[i - L].mount[j] \in Nat /\ logs[i - L].cts_fee[j] \in Nat
          /\ logs[i - L].cts_fee[j] < logs[i - L].mount[j]
      BY <1>1, <2>3
    <3> QED
      BY <3>1
  <2>8. \A i \in 1 .. n : logs[i].mount[j] \in Nat
    BY <1>1
  <2> HIDE DEF U, N
  <2>9. /\ DOMAIN u = U /\ DOMAIN m = 1 .. n /\ DOMAIN F = U \cup N /\ DOMAIN G = N
        /\ DOMAIN g = UnpaidTrades(j)'
        /\ \A i \in U : u[i] \in Nat /\ F[i] = u[i]
        /\ \A i \in N : F[i] = G[i] /\ G[i] \in Nat /\ h[i] \in 1 .. n /\ G[i] <= m[h[i]]
        /\ \A i \in 1 .. n : m[i] \in Nat
        /\ \A i \in N : i \in Nat /\ h[i] = i - L
        /\ \A i \in DOMAIN g : e[i] = i /\ i \in U \cup N /\ g[i] \in Nat /\ g[i] = F[i]
    BY <2>1, <2>2, <2>3, <2>5, <2>6, <2>7, <2>8
  <2>10. /\ TradeSum(j) = SumFunction(u) /\ TradeSum(j)' = SumFunction(g)
         /\ Mounted(logs, j) = SumFunction(m)
    BY DEF TradeSum, Mounted, U, n
  <2> HIDE DEF u, m, F, G, g, e, h
  <2>11. IsFiniteSet(U \cup N) /\ \A i \in U \cup N : F[i] \in Nat /\ F[i] \in Int
    <3>1. IsFiniteSet(U) /\ IsFiniteSet(N)
      BY <2>1, <2>4
    <3>2. /\ \A i \in U : F[i] \in Nat
          /\ \A i \in N : F[i] \in Nat
      BY <2>9
    <3>3. IsFiniteSet(U \cup N)
      BY ONLY <3>1, FS_Union
    <3> QED
      BY ONLY <3>2, <3>3
  <2>12. SumFunction(g) <= SumFunction(F) /\ SumFunction(g) \in Nat /\ SumFunction(F) \in Nat
    <3>1. /\ IsFiniteSet(DOMAIN F) /\ IsFiniteSet(DOMAIN g) /\ \A x \in DOMAIN F : F[x] \in Nat
          /\ \A x, y \in DOMAIN g : e[x] = e[y] => x = y
      BY <2>2, <2>9, <2>11
    <3>2. \A x \in DOMAIN g : e[x] \in DOMAIN F /\ g[x] \in Nat /\ g[x] <= F[e[x]]
      BY <2>9, <2>11
    <3> QED
      BY ONLY <3>1, <3>2, SumInto
  <2>13. SumFunction(G) <= SumFunction(m) /\ SumFunction(G) \in Nat /\ SumFunction(m) \in Nat
    <3>1. /\ IsFiniteSet(DOMAIN m) /\ IsFiniteSet(DOMAIN G) /\ \A x \in DOMAIN m : m[x] \in Nat
          /\ \A x, y \in DOMAIN G : h[x] = h[y] => x = y
      BY <1>2, <2>4, <2>9
    <3>2. \A x \in DOMAIN G : h[x] \in DOMAIN m /\ G[x] \in Nat /\ G[x] <= m[h[x]]
      BY <2>9
    <3> QED
      BY ONLY <3>1, <3>2, SumInto
  <2>14. SumFunction(F) = SumFunction(u) + SumFunction(G)
    <3>1. SumFunctionOnSet(F, U \cup N) = SumFunctionOnSet(F, U) + SumFunctionOnSet(F, N)
      BY <2>1, <2>4, <2>11, SumUnion
    <3>2. SumFunctionOnSet(F, U) = SumFunctionOnSet(u, U)
      <4>1. IsFiniteSet(U) /\ \A i \in U : F[i] = u[i]
        BY <2>1, <2>9
      <4> QED
        BY ONLY <4>1, SumSame
    <3>3. SumFunctionOnSet(F, N) = SumFunctionOnSet(G, N)
      <4>1. IsFiniteSet(N) /\ \A i \in N : F[i] = G[i]
        BY <2>4, <2>9
      <4> QED
        BY ONLY <4>1, SumSame
    <3> QED
      BY <2>9, <3>1, <3>2, <3>3 DEF SumFunction
  <2>15. SumFunction(u) \in Nat
    <3>1. IsFiniteSet(U) /\ DOMAIN u = U /\ \A i \in U : u[i] \in Nat
      BY <2>1, <2>9
    <3>2. IsFiniteSet(DOMAIN u) /\ \A i \in DOMAIN u : u[i] \in Nat /\ u[i] \in Int
      BY ONLY <3>1
    <3> QED
      BY ONLY <3>2, SumType
  <2>16. SumFunction(g) <= SumFunction(u) + SumFunction(m)
    BY ONLY <2>12, <2>13, <2>14, <2>15
  <2> QED
    BY <2>10, <2>16
<1> QED
  BY <1>4, <1>5 DEF logs

(* What a match takes of the positions is in the new trade logs, and what  *)
(* is left of them is on the book or void.                                 *)
LEMMA MatchVoidSums ==
  ASSUME LockInv, ContractInv, FeesCovered, NEW c, PaidTrade(c), NEW limit \in MatchLimits,
         MatchMade(c, limit), UNCHANGED transfers, NEW j \in Kind
  PROVE  LET logs == MatchOf(c, limit).logs
         IN /\ Mainder(book'[j]) + VoidSum(j)' + Mounted(logs, j)
                 = Mainder(book[j]) + VoidSum(j) + (IF j = calls[c].kind THEN calls[c].quantity ELSE 0)
            /\ Mounted(logs, j) \in Nat
<1> DEFINE k == calls[c].kind
           o == Opposite(k)
           id == positions_id_counter
           st == MatchOf(c, limit)
           all == AllOf(k, st)
           gone == GoneOf(k, st)
<1>1. TypeOK /\ BookIds /\ BookSound /\ NoFreshTransfers
  BY DEF LockInv, ContractInv
<1>2. k \in Kind /\ o \in Kind /\ o # k /\ (\A i \in Kind : i # k => i = o)
      /\ calls[c].quantity \in Nat /\ NewOf(c).mainder = calls[c].quantity
  BY <1>1, MatchReady, Kinds DEF Kind, Opposite
<1>3. LoopPositions(k, NewOf(c), book[o], st) /\ LoopSums(k, NewOf(c), book[o], st)
  BY <1>1, MatchDone DEF LoopSound
<1>4. /\ book' = [i \in Kind |-> Without(all[i], gone[i])]
      /\ void_positions' = [i \in Kind |->
          [x \in DOMAIN void_positions[i] \cup gone[i] |->
             IF x \in gone[i] THEN NewVoidPosition(all[i][x].mainder) ELSE void_positions[i][x]]]
  BY DEF MatchMade
<1> HIDE DEF k, o, st
<1>5. /\ st \in MatchState(DOMAIN book[o]) /\ st.matchees \in [DOMAIN book[o] -> PositionType]
      /\ st.matcher \in PositionType /\ st.logs \in Seq(MatchLogType)
  BY <1>3 DEF LoopPositions, MatchState
<1>6. /\ all[k] = With(book[k], id, st.matcher) /\ all[o] = st.matchees
      /\ DOMAIN all[k] = DOMAIN book[k] \cup {id} /\ DOMAIN all[o] = DOMAIN book[o]
      /\ gone[o] = st.filled /\ st.filled \subseteq DOMAIN book[o]
      /\ gone[k] = IF st.matcher_filled THEN {id} ELSE {}
  <2>1. gone[o] = st.filled /\ gone[k] = IF st.matcher_filled THEN {id} ELSE {}
    BY <1>2 DEF GoneOf
  <2>2. st \in MatchState(DOMAIN book[Opposite(k)])
    BY <1>5 DEF o
  <2> HIDE DEF gone, all
  <2>3. /\ AllOf(k, st)[k] = With(book[k], id, st.matcher) /\ AllOf(k, st)[Opposite(k)] = st.matchees
        /\ DOMAIN AllOf(k, st)[k] = DOMAIN book[k] \cup {id}
        /\ DOMAIN AllOf(k, st)[Opposite(k)] = DOMAIN book[Opposite(k)]
        /\ st.filled \subseteq DOMAIN book[Opposite(k)]
    BY ONLY <1>1, <1>2, <2>2, BooksAfter
  <2> QED
    BY <2>1, <2>3 DEF all, o
<1> HIDE DEF all, gone
<1>7. /\ IsFiniteSet(DOMAIN book[k]) /\ IsFiniteSet(DOMAIN book[o]) /\ id \notin DOMAIN book[k]
      /\ \A x \in DOMAIN book[k] : book[k][x].mainder \in Nat
      /\ \A x \in DOMAIN book[o] : book[o][x].mainder \in Nat
      /\ \A x \in DOMAIN book[o] : st.matchees[x].mainder \in Nat
      /\ st.matcher.mainder \in Nat
  <2>1. \A p \in PositionType : p.mainder \in Nat
    BY DEF PositionType
  <2>2. /\ IsFiniteSet(DOMAIN book[k]) /\ IsFiniteSet(DOMAIN book[o]) /\ id \notin DOMAIN book[k]
        /\ book[k] \in [DOMAIN book[k] -> PositionType] /\ book[o] \in [DOMAIN book[o] -> PositionType]
    BY <1>1, <1>2, FiniteBook, NewIdUnused DEF BookSound
  <2> QED
    BY <1>5, <2>1, <2>2
<1>8. /\ \A i \in Kind : IsFiniteSet(DOMAIN all[i])
      /\ \A i \in Kind : \A x \in DOMAIN all[i] : all[i][x].mainder \in Nat
      /\ all[k][id] = st.matcher /\ \A x \in DOMAIN book[k] : all[k][x] = book[k][x]
  <2>1. all[k][id] = st.matcher /\ \A x \in DOMAIN book[k] : all[k][x] = book[k][x]
    BY <1>6, <1>7 DEF With
  <2>2. IsFiniteSet(DOMAIN all[k]) /\ IsFiniteSet(DOMAIN all[o])
    BY <1>6, <1>7, FS_AddElement
  <2>3. \A x \in DOMAIN all[k] : all[k][x].mainder \in Nat
    BY <1>6, <1>7, <2>1
  <2>4. \A x \in DOMAIN all[o] : all[o][x].mainder \in Nat
    BY <1>6, <1>7
  <2> QED
    BY <1>2, <2>1, <2>2, <2>3, <2>4
<1>9. \A i \in Kind : /\ gone[i] \in SUBSET DOMAIN all[i]
                      /\ \A x \in gone[i] : /\ x \notin DOMAIN void_positions[i]
                                            /\ transfers[VoidObligation(i, x)] = <<>>
  <2> SUFFICES ASSUME NEW i \in Kind, NEW x \in gone[i]
               PROVE  x \in DOMAIN all[i] /\ x \notin DOMAIN void_positions[i] /\ transfers[VoidObligation(i, x)] = <<>>
    OBVIOUS
  <2>1. x \in DOMAIN all[i] /\ (x \in DOMAIN book[i] \/ x = id)
    BY <1>2, <1>6
  <2>2. /\ \A y \in DOMAIN book[i] : y \in positions[i] /\ y \in PositionId /\ y \notin DOMAIN void_positions[i]
        /\ id \notin DOMAIN void_positions[i] /\ id \in PositionId
    <3>1. id \in PositionId
      BY <1>1, IdLeft, PayoutsAssumption DEF PositionId
    <3>2. \A y \in DOMAIN book[i] : y \in positions[i] /\ y \in PositionId /\ y \notin DOMAIN void_positions[i]
      BY <1>1 DEF BookSound, TypeOK, BookIds
    <3> QED
      BY <1>1, <3>1, <3>2, NewIdUnused
  <2>3. VoidObligation(i, x) \in Obligation /\ Fresh(VoidObligation(i, x))
    <3>1. id >= positions_id_counter
      BY <1>1, CounterNat
    <3> QED
      BY <2>1, <2>2, <3>1 DEF VoidObligation, Obligation, Fresh
  <2> QED
    BY <1>1, <2>1, <2>2, <2>3 DEF NoFreshTransfers
<1>10. \A i \in Kind :
         /\ DOMAIN book'[i] = DOMAIN all[i] \ gone[i]
         /\ \A x \in DOMAIN book'[i] : book'[i][x].mainder = all[i][x].mainder
         /\ DOMAIN void_positions'[i] = DOMAIN void_positions[i] \cup gone[i]
         /\ \A x \in DOMAIN void_positions[i] : void_positions'[i][x].quantity = void_positions[i][x].quantity
         /\ \A x \in gone[i] : void_positions'[i][x].quantity = all[i][x].mainder
  <2> TAKE i \in Kind
  <2>1. book'[i] = Without(all[i], gone[i])
    BY <1>4
  <2>2. void_positions'[i] = [x \in DOMAIN void_positions[i] \cup gone[i] |->
             IF x \in gone[i] THEN NewVoidPosition(all[i][x].mainder) ELSE void_positions[i][x]]
    BY <1>4
  <2>3. \A x \in DOMAIN void_positions[i] : x \notin gone[i]
    BY <1>9
  <2>4. \A x \in gone[i] : void_positions'[i][x].quantity = all[i][x].mainder
    BY <2>2 DEF NewVoidPosition
  <2> QED
    BY <2>1, <2>2, <2>3, <2>4 DEF Without
<1>11. /\ Mainder(book'[j]) + VoidSum(j)' = Mainder(all[j]) + VoidSum(j)
       /\ Mainder(book'[j]) \in Nat /\ VoidSum(j)' \in Nat /\ Mainder(all[j]) \in Nat /\ VoidSum(j) \in Nat
  <2>1. /\ gone[j] \in SUBSET DOMAIN all[j] /\ IsFiniteSet(DOMAIN all[j])
        /\ \A x \in DOMAIN all[j] : all[j][x].mainder \in Nat
        /\ \A x \in gone[j] : x \notin DOMAIN void_positions[j] /\ transfers[VoidObligation(j, x)] = <<>>
    BY <1>8, <1>9
  <2>2. /\ DOMAIN book'[j] = DOMAIN all[j] \ gone[j]
        /\ \A x \in DOMAIN book'[j] : book'[j][x].mainder = all[j][x].mainder
        /\ DOMAIN void_positions'[j] = DOMAIN void_positions[j] \cup gone[j]
        /\ \A x \in DOMAIN void_positions[j] : void_positions'[j][x].quantity = void_positions[j][x].quantity
        /\ \A x \in gone[j] : void_positions'[j][x].quantity = all[j][x].mainder
    BY <1>10
  <2> QED
    BY ONLY <1>1, FeesCovered, j \in Kind, UNCHANGED transfers, <2>1, <2>2, VoidsGrow
<1>12. Mainder(all[k]) = Mainder(book[k]) + st.matcher.mainder
  <2>1. /\ DOMAIN all[k] = DOMAIN book[k] \cup {id} /\ \A x \in DOMAIN all[k] : all[k][x].mainder \in Nat
        /\ \A x \in DOMAIN book[k] : all[k][x] = book[k][x]
    BY <1>2, <1>6, <1>8
  <2>2. Mainder(all[k]) = Mainder(book[k]) + all[k][id].mainder
    BY <1>7, <2>1, MainderPut
  <2> QED
    BY <1>8, <2>2
<1>13. /\ Mainder(book[k]) \in Nat /\ Mainder(book[o]) \in Nat /\ Mainder(st.matchees) \in Nat
       /\ Mounted(st.logs, k) \in Nat /\ Mounted(st.logs, o) \in Nat
  <2>1. DOMAIN st.matchees = DOMAIN book[o]
    BY <1>5
  <2> QED
    BY <1>2, <1>5, <1>7, <2>1, MainderType, MountedType
<1>14. /\ calls[c].quantity = st.matcher.mainder + Mounted(st.logs, k)
       /\ Mainder(book[o]) = Mainder(st.matchees) + Mounted(st.logs, o)
  BY <1>2, <1>3 DEF LoopSums, o
<1>15. Mainder(all[j]) + Mounted(st.logs, j) = Mainder(book[j]) + (IF j = k THEN calls[c].quantity ELSE 0)
  <2>1. CASE j = k
    <3>1. Mainder(all[k]) + Mounted(st.logs, k) = Mainder(book[k]) + calls[c].quantity
      BY <1>7, <1>12, <1>13, <1>14
    <3> QED
      BY <2>1, <3>1
  <2>2. CASE j = o
    <3>1. Mainder(all[o]) + Mounted(st.logs, o) = Mainder(book[o]) + 0
      BY <1>6, <1>13, <1>14
    <3> QED
      BY <1>2, <2>2, <3>1
  <2> QED
    BY <1>2, <2>1, <2>2
<1>16. Mounted(st.logs, j) \in Nat /\ Mainder(book[j]) \in Nat
  BY <1>2, <1>13
<1>17. Mainder(book'[j]) + VoidSum(j)' + Mounted(st.logs, j)
         = Mainder(book[j]) + VoidSum(j) + (IF j = k THEN calls[c].quantity ELSE 0)
  <2> DEFINE b == Mainder(book[j])
             b2 == Mainder(book'[j])
             a == Mainder(all[j])
             v == VoidSum(j)
             v2 == VoidSum(j)'
             m == Mounted(st.logs, j)
             q == IF j = k THEN calls[c].quantity ELSE 0
  <2>1. /\ b \in Nat /\ b2 \in Nat /\ a \in Nat /\ v \in Nat /\ v2 \in Nat /\ m \in Nat /\ q \in Nat
    BY <1>2, <1>11, <1>16
  <2>2. b2 + v2 = a + v /\ a + m = b + q
    BY <1>11, <1>15
  <2>3. b2 + v2 + m = b + v + q
    <3> HIDE DEF b, b2, a, v, v2, m, q
    <3> QED
      BY <2>1, <2>2
  <2> QED
    BY ONLY <2>3
<1> QED
  BY <1>16, <1>17 DEF k, st

(* A match moves what was paid for, and what it leaves of the positions,   *)
(* to the void positions and to the queue of trade logs.                   *)
LEMMA MatchCovered ==
  ASSUME LockInv, ContractInv, FeesCovered, PaymentsCovered, TypeOK', ContractInv',
         NEW c \in Call, PaidTrade(c), NEW limit \in MatchLimits, MatchMade(c, limit), CallEnds(c),
         UNCHANGED <<positions_balance, transfers>>
  PROVE  FeesCovered' /\ PaymentsCovered'
<1>1. /\ FeesCovered'
      /\ \A j \in Kind : TradeSum(j)' <= TradeSum(j) + Mounted(MatchOf(c, limit).logs, j)
  BY MatchTradeSums
<1>2. TypeOK
  BY DEF LockInv
<1>3. /\ calls \in [Call -> CallType] /\ calls' \in [Call -> CallType]
      /\ IsFiniteSet({d \in Call : calls[d].op # "none"}) /\ IsFiniteSet({d \in Call : calls'[d].op # "none"})
      /\ calls'[c].op = "none" /\ \A d \in Call : d # c => calls'[d] = calls[d]
  BY EndCounts DEF ContractInv, CallsInv, Counted, Active, PaidTrade
<1>4. calls[c].kind \in Kind /\ calls[c].quantity \in Nat
  BY <1>3, CallFields DEF PaidTrade
<1>5. ASSUME NEW j \in Kind
      PROVE  /\ Mainder(book'[j]) + VoidSum(j)' + Mounted(MatchOf(c, limit).logs, j)
                  = Mainder(book[j]) + VoidSum(j) + (IF j = calls[c].kind THEN calls[c].quantity ELSE 0)
             /\ Mounted(MatchOf(c, limit).logs, j) \in Nat
  BY MatchVoidSums
<1>6. ASSUME NEW j \in Kind
      PROVE  PaidSum(calls', j) = PaidSum(calls, j) - (IF j = calls[c].kind THEN calls[c].quantity ELSE 0) + 0
  <2>1. PaidSum(calls', j) = PaidSum(calls, j) - (IF c \in PaidCallsIn(calls, j) THEN calls[c].quantity ELSE 0)
                                               + (IF c \in PaidCallsIn(calls', j) THEN calls'[c].quantity ELSE 0)
    BY <1>3, PaidSumAt
  <2>2. c \in PaidCallsIn(calls, j) <=> j = calls[c].kind
    BY DEF PaidCallsIn, PaidTrade
  <2>3. c \notin PaidCallsIn(calls', j)
    BY <1>3 DEF PaidCallsIn
  <2> QED
    BY <2>1, <2>2, <2>3
<1>7. ASSUME NEW j \in Kind
      PROVE  Mainder(book'[j]) + PaidSum(calls', j) + (VoidSum(j)' + TradeSum(j)') + positions_balance[j]
               <= Mainder(book[j]) + PaidSum(calls, j) + (VoidSum(j) + TradeSum(j)) + positions_balance'[j]
  <2> DEFINE m == Mainder(book[j])
             m2 == Mainder(book'[j])
             p == PaidSum(calls, j)
             p2 == PaidSum(calls', j)
             v == VoidSum(j)
             v2 == VoidSum(j)'
             t == TradeSum(j)
             t2 == TradeSum(j)'
             n == Mounted(MatchOf(c, limit).logs, j)
             q == IF j = calls[c].kind THEN calls[c].quantity ELSE 0
             b == positions_balance[j]
  <2>1. /\ m \in Nat /\ p \in Nat /\ v \in Nat /\ t \in Nat /\ b \in Nat
        /\ m2 \in Nat /\ p2 \in Nat /\ v2 \in Nat /\ t2 \in Nat
    BY <1>1, <1>2, OwedTypes, OwedNext
  <2>2. n \in Nat /\ q \in Nat
    BY <1>4, <1>5
  <2>3. m2 + v2 + n = m + v + q
    BY <1>5
  <2>4. p2 = p - q + 0
    BY <1>6
  <2>5. t2 <= t + n
    BY <1>1
  <2>6. m2 + p2 + (v2 + t2) + b <= m + p + (v + t) + b
    <3> HIDE DEF m, m2, p, p2, v, v2, t, t2, n, q, b
    <3> QED
      BY <2>1, <2>2, <2>3, <2>4, <2>5
  <2>7. positions_balance'[j] = b
    OBVIOUS
  <2> QED
    BY ONLY <2>6, <2>7
<1> QED
  BY <1>1, <1>2, <1>7, StillCovered

(* A call that has not paid, before or after, changes nothing paid in.     *)
LEMMA SamePaid ==
  ASSUME NEW c \in Call, \A d \in Call : d # c => calls'[d] = calls[d],
         calls[c].op # "trade" \/ calls[c].answer # "ok",
         calls'[c].op # "trade" \/ calls'[c].answer # "ok"
  PROVE  \A k : PaidSum(calls', k) = PaidSum(calls, k)
<1> SUFFICES ASSUME NEW k PROVE PaidSum(calls', k) = PaidSum(calls, k)
  OBVIOUS
<1>1. PaidCallsIn(calls', k) = PaidCallsIn(calls, k) /\ c \notin PaidCallsIn(calls, k)
  BY DEF PaidCallsIn
<1>2. \A d \in PaidCallsIn(calls, k) : calls'[d].quantity = calls[d].quantity
  BY <1>1 DEF PaidCallsIn
<1> QED
  BY <1>1, <1>2 DEF PaidSum

LEMMA ReturnCovered ==
  ASSUME LockInv, ContractInv, FeesCovered, PaymentsCovered, TypeOK', ContractInv',
         NEW c \in Call, TradeReturns(c)
  PROVE  FeesCovered' /\ PaymentsCovered'
<1>1. /\ calls[c].op = "trade" /\ CallEnds(c) /\ UNCHANGED <<positions_balance, transfers>> /\ TypeOK
  BY DEF TradeReturns, payVars, LockInv
<1>2. CASE calls[c].answer = "ok"
  <2>1. PICK limit \in MatchLimits : MatchNew(c, limit)
    BY <1>2 DEF TradeReturns
  <2>2. PaidTrade(c) /\ MatchMade(c, limit)
    BY <1>1, <1>2, <2>1, MatchMadeIs DEF PaidTrade
  <2> QED
    BY <1>1, <2>2, MatchCovered
<1>3. CASE calls[c].answer # "ok"
  <2>1. UNCHANGED <<book, void_positions, trade_logs>>
    BY <1>3 DEF TradeReturns, tradeVars, owedVars
  <2>2. VoidsKept /\ QueueKept
    BY <1>1, <2>1, SameKept
  <2>3. calls'[c].op = "none" /\ \A d \in Call : d # c => calls'[d] = calls[d]
    BY <1>1, EndCounts
  <2>4. \A k \in Kind : PaidSum(calls', k) = PaidSum(calls, k)
    BY <1>3, <2>3, SamePaid
  <2> QED
    BY <1>1, <2>1, <2>2, <2>4, QuietCovered
<1> QED
  BY <1>2, <1>3

LEMMA CallCovered ==
  ASSUME LockInv, ContractInv, FeesCovered, PaymentsCovered, TypeOK', ContractInv',
         NEW c \in Call, NEW user \in User, NEW k \in Kind, TradeCall(c, user, k)
  PROVE  FeesCovered' /\ PaymentsCovered'
<1>1. /\ UNCHANGED vars /\ UNCHANGED <<book, positions_balance>> /\ TypeOK
  BY TradeCallIs DEF LockInv
<1>2. PICK quantity \in Quantity[k], rate \in Rate :
        CallBegins(c, [op |-> "trade", user |-> user, kind |-> k,
                       quantity |-> quantity, rate |-> rate, answer |-> "none"])
  BY TradeCallIs
<1>3. /\ calls[c].op = "none" /\ calls'[c].answer = "none" /\ \A d \in Call : d # c => calls'[d] = calls[d]
  BY <1>2 DEF CallBegins, NoCall, ContractInv, CallsInv
<1>4. \A j \in Kind : PaidSum(calls', j) = PaidSum(calls, j)
  BY <1>3, SamePaid
<1>5. UNCHANGED <<void_positions, trade_logs, transfers>>
  BY <1>1 DEF vars, owedVars
<1>6. VoidsKept /\ QueueKept
  BY <1>1, <1>5, SameKept
<1> QED
  BY <1>1, <1>4, <1>5, <1>6, QuietCovered

(* Of the payouts' steps only a transfer of the ledger is a transfer.      *)
LEMMA PayoutsCovered ==
  ASSUME LockInv, ContractInv, FeesCovered, PaymentsCovered, TypeOK', ContractInv',
         NEW r \in Run, Canister(r) \/ Callee(r), UNCHANGED <<callVars, transfers>>
  PROVE  FeesCovered' /\ PaymentsCovered'
<1>1. VoidsKept /\ QueueKept /\ TypeOK
  BY PayoutsKeep DEF LockInv
<1>2. UNCHANGED <<transfers, book, calls, positions_balance>>
  BY DEF callVars
<1>3. \A k \in Kind : PaidSum(calls', k) = PaidSum(calls, k)
  BY <1>2
<1> QED
  BY <1>1, <1>2, <1>3, QuietCovered

LEMMA NextCovered ==
  ASSUME PayoutsInv, PayoutsInv', ContractInv, ContractInv', FeesCovered, PaymentsCovered,
         [ContractNext]_contractVars
  PROVE  FeesCovered' /\ PaymentsCovered'
<1>1. LockInv /\ RecordInv /\ TypeOK /\ TypeOK'
  BY DEF PayoutsInv, LockInv
<1>2. ASSUME NEW r \in Run, Apart(Canister(r)) PROVE FeesCovered' /\ PaymentsCovered'
  <2>1. Canister(r) /\ UNCHANGED callVars
    BY <1>2 DEF Apart
  <2>2. UNCHANGED transfers
    BY <2>1 DEF Canister, TimerFires, SelfCallFails, StartRun, PayoutReply, UpdateReply, Polled, Resume,
       FlushLogs, FlushEnds, FlushStops, Unlock
  <2> QED
    BY <1>1, <2>1, <2>2, PayoutsCovered
<1>3. ASSUME NEW r \in Run, Answers(r) PROVE FeesCovered' /\ PaymentsCovered'
  <2>1. CASE \E o \in DOMAIN runs[r].payouts : TransferPaid(r, o)
    BY <1>1, <2>1, TransferCovered
  <2>2. ASSUME NEW o \in DOMAIN runs[r].payouts, Apart(TransferFails(r, o))
        PROVE  FeesCovered' /\ PaymentsCovered'
    <3>1. Callee(r) /\ UNCHANGED callVars
      BY <2>2 DEF Apart, Callee
    <3>2. UNCHANGED transfers
      BY <2>2 DEF Apart, TransferFails
    <3> QED
      BY <1>1, <3>1, <3>2, PayoutsCovered
  <2>3. ASSUME NEW u \in DOMAIN runs[r].updates, Apart(CmUpdateLog(r, u) \/ UpdateFails(r, u))
        PROVE  FeesCovered' /\ PaymentsCovered'
    <3>1. Callee(r) /\ UNCHANGED callVars
      BY <2>3 DEF Apart, Callee
    <3>2. UNCHANGED transfers
      BY <2>3 DEF Apart, CmUpdateLog, UpdateFails
    <3> QED
      BY <1>1, <3>1, <3>2, PayoutsCovered
  <2> QED
    BY <1>3, <2>1, <2>2, <2>3 DEF Answers
<1>4. ASSUME VoidRefused \/ UNCHANGED contractVars PROVE FeesCovered' /\ PaymentsCovered'
  <2>1. UNCHANGED <<book, calls, positions_balance, void_positions, trade_logs, transfers>>
    BY <1>4 DEF VoidRefused, callVars, tradeVars, payVars, contractVars, vars, owedVars
  <2>2. VoidsKept /\ QueueKept
    BY <1>1, <2>1, SameKept
  <2>3. \A k \in Kind : PaidSum(calls', k) = PaidSum(calls, k)
    BY <2>1
  <2> QED
    BY <1>1, <2>1, <2>2, <2>3, QuietCovered
<1>5. ASSUME NEW c \in Call, LedgerAnswers(c) \/ TradeReturns(c) PROVE FeesCovered' /\ PaymentsCovered'
  BY <1>1, <1>5, AnswerCovered, ReturnCovered
<1>6. ASSUME NEW c \in Call, NEW user \in User, NEW k \in Kind, TradeCall(c, user, k)
      PROVE  FeesCovered' /\ PaymentsCovered'
  BY <1>1, <1>6, CallCovered
<1>7. ASSUME NEW user \in User, NEW k \in Kind, VoidByUser(user, k) PROVE FeesCovered' /\ PaymentsCovered'
  BY <1>1, <1>7, VoidCovered
<1> QED
  BY <1>2, <1>3, <1>4, <1>5, <1>6, <1>7 DEF ContractNext

LEMMA InitCovered == ContractInit => FeesCovered /\ PaymentsCovered
<1> SUFFICES ASSUME ContractInit PROVE FeesCovered /\ PaymentsCovered
  OBVIOUS
<1>1. /\ ContractInv /\ Init /\ TypeOK
  BY InitContract, InitLockInv DEF ContractInit, LockInv
<1>2. trade_logs = <<>> /\ \A k \in Kind : void_positions[k] = NoTasks
  <2>1. trade_logs = <<>> /\ void_positions = [k \in Kind |-> NoTasks]
    BY <1>1 DEF Init
  <2> QED
    BY <2>1, Zenon
<1>3. FeesCovered
  <2>1. Len(trade_logs) = 0 /\ 1 .. 0 = {}
    BY <1>2
  <2> QED
    BY <2>1 DEF FeesCovered
<1>4. ASSUME NEW k \in Kind PROVE positions_balance[k] >= Owed(k)
  <2>1. Owed(k) = Mainder(book[k]) + PaidSum(calls, k) + VoidSum(k) + TradeSum(k) /\ positions_balance[k] \in Nat
    BY <1>1, <1>3, OwedTypes
  <2>2. \A f : DOMAIN f = {} => SumFunction(f) = 0
    BY SumNothing
  <2>3. DOMAIN [id \in DOMAIN book[k] |-> book[k][id].mainder] = {}
    BY DEF ContractInit
  <2>4. PaidCallsIn(calls, k) = {}
    BY DEF ContractInit, PaidCallsIn, NoCall
  <2>5. UnpaidVoids(k) = {} /\ UnpaidTrades(k) = {}
    BY <1>2 DEF UnpaidVoids, UnpaidTrades, NoTasks
  <2>6. Mainder(book[k]) = 0 /\ PaidSum(calls, k) = 0 /\ VoidSum(k) = 0 /\ TradeSum(k) = 0
    BY <2>2, <2>3, <2>4, <2>5 DEF Mainder, PaidSum, VoidSum, TradeSum
  <2> QED
    BY <2>1, <2>6
<1> QED
  BY <1>3, <1>4 DEF PaymentsCovered

(* At every moment the positions-subaccount covers the rest of the         *)
(* positions, what was paid in for positions that are not made yet, and    *)
(* every void position and side of a trade that is not transferred yet     *)
(* (cm_tc/src/lib.rs, _trade and do_payouts).                              *)
THEOREM PaymentsStayCovered == Foreseen => (ContractSpec => []PaymentsCovered)
<1> SUFFICES ASSUME Foreseen PROVE ContractSpec => []PaymentsCovered
  OBVIOUS
<1>1. ContractInit => ContractInv /\ PayoutsInv /\ FeesCovered /\ PaymentsCovered
  BY InitContract, InitLockInv, InitRecords, InitLogs, InitCovered DEF ContractInit, PayoutsInv
<1>2. PayoutsInv /\ ContractInv /\ [ContractNext]_contractVars => (PayoutsInv /\ ContractInv)'
  BY StepIsPayoutsStep, NextPayouts, NextContract
<1>3. PayoutsInv /\ ContractInv /\ (PayoutsInv /\ ContractInv)' /\ FeesCovered /\ PaymentsCovered
        /\ [ContractNext]_contractVars => (FeesCovered /\ PaymentsCovered)'
  BY NextCovered
<1> QED
  BY <1>1, <1>2, <1>3, PTL DEF ContractSpec
=============================================================================
