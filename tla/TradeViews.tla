----------------------------- MODULE TradeViews -----------------------------
(***************************************************************************)
(* What readers see of the trades: view_latest_trades,                     *)
(* view_position_pending_trades and view_storage_logs_ of cm_tc,           *)
(* view_latest_trades and map_logs_rchunks of the storage canisters, and   *)
(* the candles of candle_counter.rs.                                       *)
(*                                                                         *)
(* A trade goes from the queue of the trades with payouts to do into the   *)
(* buffer, and from there, in chunks, to the last storage canister.  Each  *)
(* view gives a chunk of what one of these places has; a reader asks for   *)
(* the chunk before the one it has until there is no more.  The moves are  *)
(* those of Payouts and LogStorage, where the calls are that may fail.     *)
(***************************************************************************)
EXTENDS LogBytes

CONSTANTS
  Position,     \* positions that trade, the matcher after the matchee
  PositionKind, \* what each of them has to trade: "Cycles" or "Token"
  Rate,
  Tokens,
  MaxTrades,    \* bound of the trades
  MaxTime,      \* bound of the time
  Minute,       \* length of a candle
  Timeframe,    \* the timeframes of create_view_volume_stats
  ChunkSize,    \* MAX_LATEST_TRADE_LOGS_SPONSE_TRADE_DATA and the readers' chunks
  CandlesChunk, \* MAX_CANDLES_SPONSE
  Capacity,     \* of a storage canister, in logs
  Fees,         \* what each trade costs: tokens_payout_fee, cycles_payout_fee
  Payouts       \* how each trade is paid out in the end

Payout == [did_transfer : BOOLEAN, ledger_transfer_fee : Nat]

ASSUME TradeViewsAssumption ==
  /\ Position \subseteq Nat /\ Rate \subseteq Nat /\ Tokens \subseteq Nat
  /\ PositionKind \in [Position -> {"Cycles", "Token"}]
  /\ MaxTrades \in Nat /\ MaxTime \in Nat /\ Timeframe \subseteq Nat
  /\ Minute \in Nat \ {0} /\ ChunkSize \in Nat \ {0} /\ CandlesChunk \in Nat \ {0}
  /\ Capacity \in Nat \ {0}
  /\ Fees \in [0 .. MaxTrades - 1 -> [tokens : Nat, cycles : Nat]]
  /\ Payouts \in [0 .. MaxTrades - 1 -> [Cycles : Payout, Token : Payout]]
  /\ None \notin Nat \cup Payout

VARIABLES
  trades,             \* ghost: every trade as it was made; their number is the next id
  trade_logs,         \* the queue
  storage_buffer,
  storage_canisters,  \* of each the first_log_id, the logs and the index
  in_flush,           \* how many logs of the buffer a canister has already
  segments_1_minute,
  volume,             \* volume_cycles and volume_tokens of the candle counter
  now

storageVars == <<storage_canisters, in_flush>>
candleVars == <<segments_1_minute, volume>>
viewsVars == <<trades, trade_logs, storage_buffer, storageVars, candleVars, now>>

ViewsInit ==
  /\ trades = <<>>
  /\ trade_logs = <<>>
  /\ storage_buffer = <<>>
  /\ storage_canisters = <<>>
  /\ in_flush = 0
  /\ segments_1_minute = <<>>
  /\ volume = [cycles |-> 0, tokens |-> 0]
  /\ now = 0

Larger(a, b)  == IF a >= b THEN a ELSE b
Smaller(a, b) == IF a <= b THEN a ELSE b

----------------------------------------------------------------------------
(* candle_counter.rs *)

segment_start(time) == time - (time % Minute)

NewCandle(tl) ==
  [time |-> segment_start(tl.time), cycles |-> tl.cycles, tokens |-> tl.tokens,
   open |-> tl.rate, high |-> tl.rate, low |-> tl.rate, close |-> tl.rate]

(* Mutant: the rate of a candle's first trade is its close. *)
InCandleKeepsClose(c, tl) ==
  [c EXCEPT !.cycles = @ + tl.cycles, !.tokens = @ + tl.tokens,
            !.high = Larger(@, tl.rate), !.low = Smaller(@, tl.rate)]
InCandle(c, tl) ==
  [c EXCEPT !.cycles = @ + tl.cycles, !.tokens = @ + tl.tokens,
            !.high = Larger(@, tl.rate), !.low = Smaller(@, tl.rate), !.close = tl.rate]

count_trade(tl) ==
  LET s == segments_1_minute
  IN /\ segments_1_minute' =
          IF s = <<>> \/ Last(s).time < segment_start(tl.time) THEN Append(s, NewCandle(tl))
          ELSE [s EXCEPT ![Len(s)] = InCandle(@, tl)]
     /\ volume' = [cycles |-> volume.cycles + tl.cycles, tokens |-> volume.tokens + tl.tokens]

(* One match of match_trades. *)
Trade(matchee, matcher, rate, tokens) ==
  LET tl == [id |-> Len(trades), matchee |-> matchee, matcher |-> matcher, rate |-> rate,
             kind |-> PositionKind[matchee], tokens |-> tokens, cycles |-> tokens * rate, time |-> now,
             tokens_payout_fee |-> Fees[Len(trades)].tokens,
             cycles_payout_fee |-> Fees[Len(trades)].cycles,
             payouts |-> [Cycles |-> None, Token |-> None]]
  IN /\ Len(trades) < MaxTrades
     /\ PositionKind[matcher] # PositionKind[matchee]
     /\ trades' = Append(trades, tl)
     /\ trade_logs' = Append(trade_logs, tl)
     /\ count_trade(tl)
     /\ UNCHANGED <<storage_buffer, storageVars, now>>

Tick ==
  /\ now < MaxTime
  /\ now' = now + 1
  /\ UNCHANGED <<trades, trade_logs, storage_buffer, storageVars, candleVars>>

Paid(tl) == [tl EXCEPT !.payouts = Payouts[tl.id]]

(* The payouts of the first trade are done. *)
MoveToBuffer ==
  /\ trade_logs # <<>>
  /\ storage_buffer' = Append(storage_buffer, Paid(Head(trade_logs)))
  /\ trade_logs' = Tail(trade_logs)
  /\ UNCHANGED <<trades, storageVars, candleVars, now>>

(* Mutant: a log is found under its matchee only. *)
KeysMatchee(tl) == {tl.matchee}
(* index_keys_of_the_log_serialization *)
Keys(tl) == {tl.matchee, tl.matcher}

(* Of the first n of a sequence, those at the places S. *)
At(ls, n, S) ==
  LET at[i \in 0 .. Len(ls)] ==
        IF i = 0 THEN <<>> ELSE IF i \in S THEN Append(at[i - 1], ls[i]) ELSE at[i - 1]
  IN at[n]
(* Of the first n logs, those with a key. *)
WithKey(ls, n, key) == At(ls, n, {i \in DOMAIN ls : key = None \/ key \in Keys(ls[i])})

IdsOf(ls, k) ==
  LET with == WithKey(ls, Len(ls), k)
  IN [i \in DOMAIN with |-> with[i].id]

NewCanister == [first_log_id |-> Head(storage_buffer).id, logs |-> <<>>,
                index |-> [k \in Position |-> <<>>]]

(* A canister stores more logs (flush). *)
Grown(sc, chunk) ==
  [first_log_id |-> sc.first_log_id, logs |-> sc.logs \o chunk,
   index |-> [k \in Position |-> sc.index[k] \o IdsOf(chunk, k)]]

(* A chunk of n logs is stored by the last storage canister, or by a new   *)
(* one when there is no room; it leaves the buffer when the answer comes.  *)
FlushChunk(n) ==
  LET full == storage_canisters = <<>> \/ Len(Last(storage_canisters).logs) + n > Capacity
      scs  == IF full THEN Append(storage_canisters, NewCanister) ELSE storage_canisters
  IN /\ in_flush = 0
     /\ storage_canisters' =
          [scs EXCEPT ![Len(scs)] = Grown(scs[Len(scs)], SubSeq(storage_buffer, 1, n))]
     /\ in_flush' = n
     /\ UNCHANGED <<trades, trade_logs, storage_buffer, candleVars, now>>

FlushReturns ==
  /\ in_flush > 0
  /\ storage_buffer' = SubSeq(storage_buffer, in_flush + 1, Len(storage_buffer))
  /\ in_flush' = 0
  /\ UNCHANGED <<trades, trade_logs, storage_canisters, candleVars, now>>

ViewsNext ==
  \/ \E a, b \in Position, r \in Rate, t \in Tokens : a < b /\ Trade(a, b, r, t)
  \/ Tick
  \/ MoveToBuffer
  \/ \E n \in 1 .. Smaller(Capacity, Len(storage_buffer)) : FlushChunk(n)
  \/ FlushReturns

ViewsSpec == ViewsInit /\ [][ViewsNext]_viewsVars
----------------------------------------------------------------------------
(* The views of the trade contract *)

(* The last n of a sequence (rchunks(n).next()). *)
LastOf(s, n) == SubSeq(s, Larger(1, Len(s) - n + 1), Len(s))

(* How many logs come before an id in logs with ascending ids              *)
(* (binary_search_by_key).                                                 *)
CountBefore(ls, before) ==
  IF before = None THEN Len(ls) ELSE Cardinality({i \in DOMAIN ls : ls[i].id < before})

(* Mutant: the logs of the buffer are not counted from its first log on. *)
TillInBufferAbsolute(before) ==
  IF before = None THEN Len(storage_buffer) ELSE Smaller(before, Len(storage_buffer))
(* How much of the buffer is before an id, counted from its first log. *)
TillInBuffer(before) ==
  IF before = None THEN Len(storage_buffer)
  ELSE Smaller(Larger(0, before - Head(storage_buffer).id), Len(storage_buffer))

view_storage_logs_(before, key, max_logs) ==
  IF storage_buffer = <<>> THEN <<>>
  ELSE LastOf(WithKey(storage_buffer, TillInBuffer(before), key), max_logs)

(* First the queue, then the buffer for what room is left. *)
view_latest_trades(before) ==
  LET queued == LastOf(SubSeq(trade_logs, 1, CountBefore(trade_logs, before)), ChunkSize)
      data   == IF Len(queued) < ChunkSize
                THEN view_storage_logs_(before, None, ChunkSize - Len(queued)) \o queued
                ELSE queued
      first  == IF storage_buffer # <<>> THEN Head(storage_buffer).id ELSE Head(trade_logs).id
  IN [trades_data |-> data, is_last_chunk |-> data = <<>> \/ Head(data).id = first]

view_position_pending_trades(before, key, max_logs) ==
  LastOf(WithKey(trade_logs, CountBefore(trade_logs, before), key), max_logs)

(* The views of a storage canister *)

(* The latest first; the flag looks at the latest of the chunk. *)
storage_view_latest_trades(sc, before) ==
  LET till == IF before = None THEN Len(sc.logs)
              ELSE Smaller(Larger(0, before - sc.first_log_id), Len(sc.logs))
      data == Reverse(LastOf(SubSeq(sc.logs, 1, till), ChunkSize))
  IN [trades_data |-> data,
      is_last_chunk |-> data = <<>> \/ Head(data).id = sc.first_log_id]

map_logs_rchunks(sc, key, before, chunk_size) ==
  LET ids  == sc.index[key]
      till == IF before = None THEN Len(ids)
              ELSE Cardinality({i \in DOMAIN ids : ids[i] < before})
      part == LastOf(SubSeq(ids, 1, till), chunk_size)
  IN [i \in DOMAIN part |-> sc.logs[part[i] - sc.first_log_id + 1]]

(* The candles *)

create_candles(before) ==
  LET start == segment_start(before)
      count == IF before = None THEN Len(segments_1_minute)
               ELSE Cardinality({i \in DOMAIN segments_1_minute :
                                   segments_1_minute[i].time < start})
  IN [candles |-> LastOf(SubSeq(segments_1_minute, 1, count), CandlesChunk),
      is_earliest_chunk |-> count <= CandlesChunk]

(* The cycles and the tokens of the trades, or the candles, at the places S. *)
VolumeOf(s, S) ==
  [cycles |-> SumFunctionOnSet([i \in DOMAIN s |-> s[i].cycles], S),
   tokens |-> SumFunctionOnSet([i \in DOMAIN s |-> s[i].tokens], S)]
(* The candles that began in the timeframe. *)
volume_stats(timeframe) ==
  VolumeOf(segments_1_minute, {i \in DOMAIN segments_1_minute :
                                 segments_1_minute[i].time >= Larger(0, now - timeframe)})
----------------------------------------------------------------------------
(* Properties *)

Starts == {None} \cup 0 .. MaxTrades

Here(ls, before) == SubSeq(ls, 1, CountBefore(ls, before))

(* A reader of the latest trades misses none and sees none twice, however  *)
(* they are spread over queue, buffer and canisters: each chunk is the     *)
(* latest trades before the id, and is called the last only if it reaches  *)
(* the first trade there.  At the trade contract it is called the last     *)
(* exactly then; a storage canister needs one more, empty chunk for it.    *)
LatestTradesPaged ==
  \A before \in Starts :
    /\ LET here == Here(storage_buffer \o trade_logs, before)
       IN view_latest_trades(before) =
            [trades_data |-> LastOf(here, ChunkSize), is_last_chunk |-> Len(here) <= ChunkSize]
    /\ \A i \in DOMAIN storage_canisters :
         LET here == Here(storage_canisters[i].logs, before)
             view == storage_view_latest_trades(storage_canisters[i], before)
         IN /\ Reverse(view.trades_data) = LastOf(here, ChunkSize)
            /\ view.is_last_chunk => Len(here) <= ChunkSize

(* Following the chunks before one another, what a view gives in the end;  *)
(* it gives pages[b] of the logs before b.                                 *)
AllChunks(pages) ==
  LET got[n \in 0 .. MaxTrades] ==
        IF n = 0 THEN pages[None]
        ELSE IF got[n - 1] = <<>> THEN <<>>
        ELSE pages[Head(got[n - 1]).id] \o got[n - 1]
  IN got[MaxTrades]

(* What the storage canisters give, one after another. *)
AllStored(k) ==
  LET all[i \in 0 .. Len(storage_canisters)] ==
        IF i = 0 THEN <<>>
        ELSE all[i - 1] \o AllChunks([b \in Starts |->
               map_logs_rchunks(storage_canisters[i], k, b, ChunkSize)])
  IN all[Len(storage_canisters)]

(* Every trade, paid out when it has left the queue. *)
TradesNow ==
  [i \in DOMAIN trades |->
     IF i <= Len(trades) - Len(trade_logs) THEN Paid(trades[i]) ELSE trades[i]]

(* The trades of a position, read in chunks from every storage canister    *)
(* and from the buffer and the queue, are all of its trades, as matchee    *)
(* and as matcher, in their order; only those of a chunk whose flush has   *)
(* not returned are seen twice.                                            *)
PositionTradesFound ==
  \A k \in Position :
    LET Of(ls, n) == At(ls, n, {i \in DOMAIN ls : k \in {ls[i].matchee, ls[i].matcher}})
        stored == AllStored(k)
        here   == AllChunks([b \in Starts |-> view_storage_logs_(b, k, ChunkSize)])
                    \o AllChunks([b \in Starts |-> view_position_pending_trades(b, k, ChunkSize)])
        twice  == Len(Of(storage_buffer, in_flush))
    IN /\ stored \o SubSeq(here, twice + 1, Len(here)) = Of(TradesNow, Len(trades))
       /\ SubSeq(here, 1, twice) = SubSeq(stored, Len(stored) - twice + 1, Len(stored))

(* A payout as a reader gets it from the bytes.  The ledger's fee is cast  *)
(* to eight bytes: one that they hold comes back as it was, of a larger    *)
(* one what they hold; and if that is zero, the payout is lost.            *)
ReadBack(payout) ==
  LET fee == payout.ledger_transfer_fee
  IN CASE fee \in 1 .. U64 - 1 -> payout
       [] fee % U64 = 0         -> None
       [] OTHER                 -> [payout EXCEPT !.ledger_transfer_fee = fee % U64]

(* A trade log reads back from its bytes as it was written, but for the    *)
(* payouts whose ledger fee is zero or does not fit into eight bytes; and  *)
(* what the views take from the bytes alone is what the log says.          *)
LogsReadBack ==
  \A n \in DOMAIN storage_buffer :
    LET tl == storage_buffer[n]
        b  == stable_memory_serialize(tl)
    IN /\ stable_memory_serialize_backwards(b) =
            [tl EXCEPT !.payouts = [k \in {"Cycles", "Token"} |-> ReadBack(tl.payouts[k])]]
       /\ log_id_of_the_log_serialization(b) = tl.id
       /\ index_keys_of_the_log_serialization(b) = Keys(tl)
       /\ <<tokens_quantity_of_the_log_serialization(b), rate_of_the_log_serialization(b),
            timestamp_nanos_of_the_log_serialization(b)>> = <<tl.tokens, tl.rate, tl.time>>

(* The candle of the minute from t on: its volumes and its first, highest, *)
(* lowest and last rate.                                                   *)
CandleOf(t) ==
  LET S     == {i \in DOMAIN trades : segment_start(trades[i].time) = t}
      rates == {trades[i].rate : i \in S}
      sum   == VolumeOf(trades, S)
  IN [time |-> t, cycles |-> sum.cycles, tokens |-> sum.tokens, open |-> trades[Min(S)].rate,
      high |-> Max(rates), low |-> Min(rates), close |-> trades[Max(S)].rate]

(* The candles tell what the trades were: one for each minute with trades, *)
(* in their order; the chunks of candles leave none out, and the volume of *)
(* a timeframe is that of the minutes that began in it.                    *)
CandlesFollowTrades ==
  LET s == segments_1_minute
  IN /\ ToSet(s) = {CandleOf(segment_start(trades[i].time)) : i \in DOMAIN trades}
     /\ \A i, j \in DOMAIN s : i < j => s[i].time < s[j].time
     /\ volume = VolumeOf(trades, DOMAIN trades)
     /\ \A before \in {None} \cup 0 .. MaxTime :
          \E n \in 0 .. Len(s) :
            /\ \A i \in DOMAIN s : i <= n <=> before = None \/ s[i].time + Minute <= before
            /\ create_candles(before) = [candles |-> LastOf(SubSeq(s, 1, n), CandlesChunk),
                                         is_earliest_chunk |-> n <= CandlesChunk]
     /\ \A f \in Timeframe :
          volume_stats(f) = VolumeOf(trades, {i \in DOMAIN trades :
                                                segment_start(trades[i].time) >= now - f})
=============================================================================
