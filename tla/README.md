# The cycles-transfer-station in TLA+

The repository holds the canisters of the *CYCLES-TRANSFER-STATION* on the Internet Computer: a
market where tokens are traded for cycles, a bank whose token is cycles, and the canisters around
them. This directory models the parts where messages interleave, calls fail and money moves, checks
them with TLC on small instances, and proves with TLAPS, for every instance, the safety of the payouts,
the market, the log storage, the bank, the upgrades of trade contracts and the file server.
Paths below are relative to `src/rust/`.

On the Internet Computer a canister runs one message at a time. What runs between two `await`s is
atomic; everything else interleaves. A call may be rejected, and its answer always arrives, once. A
trap undoes only the current message. Every module follows this: **an action is one message
execution**, and where the code awaits, the model has a state in which other messages run.


## 1. Inventory

| Component | Source | State | Operations | Talks to |
|---|---|---|---|---|
| Market of a trade contract | `canisters/market/cm_tc/src/{lib,types,trade_quest}.rs` | positions, void positions, trade logs, id counters, balance locks | `trade_cycles`, `trade_tokens`, `void_position`, `transfer_*_balance` | the token ledger and the bank (await); sets timers for the payouts |
| Payouts of a trade contract | `cm_tc/src/payouts/`, `ledger_transfer.rs` | payout and update locks and results in void positions and trade logs; cached ledger fees; timers | `do_payouts`, `do_payouts_public_method` | itself, the ledgers, the storage canisters; moves trade logs to the storage buffer; `flush_logs` |
| Trade fees | `cm_tc/src/trade_fee.rs` | none | `calculate_trade_fee` | called by the matching |
| Log storage | `cm_tc/src/flush_logs/`, `canisters/market/cm_storage_lib` | storage buffer, flush lock, list of storage canisters; in these the logs and an index | `flush_logs`, `create_storage_canister`; `flush`, `cm_update_log`, `controller_mark_full` | the management canister and storage canisters |
| Bank | `canisters/bank`, `cts_lib/src/cmc.rs` | balances, supply, logs, pointers, mints in progress | `icrc1_transfer`, `cycles_in`, `cycles_out`, `mint_cycles`, `complete_mint_cycles`, `get_logs_backwards` | the management canister, the ICP ledger, the CMC |
| Candles, views | `cm_tc/src/{candle_counter,lib}.rs` | candle segments | `count_trade`; queries | called by the matching; readers |
| Views of the book | `cm_tc/src/lib.rs` | none | `view_position_book`, current and void positions | readers |
| Storage views | `cm_positions_storage`, `cm_trades_storage`, `cm_storage_lib` | an index | queries | readers |
| Serialisation | `cts_lib/src/types/cm/tc/storage_logs` | none | logs to bytes and back | storage, readers |
| CM-main | `canisters/market/cm_main`, `cts_lib/src/tools.rs` | codes, trade contracts, a creation in progress | create, continue, upgrade | the management canister, trade contracts |
| CTS | `canisters/cts` | files, the tree of their hashes, its certified root, a batch of uploads | uploads, commit, clear, `http_request`, its stream callback | the controller's proposals; browsers |

What makes them hard, and correct:

* **Payouts.** Executions of `_do_payouts` overlap: each timer starts one, and so may anybody. Each
  takes a chunk of what is owed, locks it, awaits *all* the calls and then records *all* the answers.
  A transfer has no `created_at_time`, so the ledger would pay a duplicate. Correct: nothing is paid
  twice, what is recorded is what happened, locks end, everything is paid in the end, trades reach the
  storage in order.
* **Market.** A check before an await is used after it (room in the maps, a user's balance). Integer
  rounding happens in both directions of the conversion between tokens and cycles. Correct: funds are
  conserved and covered, limits respected, locks released, nothing compatible left on the book.
* **Log storage.** Several calls per flush, each of which may fail; a copy of the buffer is on its way
  while the buffer changes; ids are computed from counters. Correct: it is one append-only log.
* **Bank.** Debit before an await and refund after; mints in two calls with retries by anybody.
  Correct: cycles are accounted for, the logs explain the balances, a block of ICP is credited once.
* **CM-main.** A creation in two calls and an upgrade in three, of many canisters at once, while codes
  are uploaded. Correct: no canister is lost, no ledger has two contracts, the recorded hashes tell what
  runs, code is replaced only in a stopped canister.
* **Views.** A trade moves from the queue to the buffer to a storage canister, and each is paged in its
  own way. Correct: a reader who follows the chunks finds everything, in order; candles tell the trades;
  what is written to a storage canister reads back as it was, as far as its bytes can hold it.
* **CTS.** Several creators upload into one batch, also after the controller has looked at it; hashes of
  files are kept beside the files; an answer is served in several calls. Correct: what is served is
  certified, what is live is what the controller saw, a stream is whole.

The full list of hazards, each with its line and the properties for it, is in `PROJECT.json`.


## 2. Modules

| Module | Models | Notes |
|---|---|---|
| `Payouts` | the payouts, with the ledgers and storage canisters as callees | the market is reduced to what it hands over |
| `MCPayouts` | - | symmetry and amounts for TLC |
| `TradeFee` | `calculate_trade_fee` as a recursive function | |
| `Sides`, `Matching` | the two sides, and `match_trades` on positions and books, without state | uses `TradeFee` |
| `Calls` | the users' calls that await a ledger, and their locks | what `Market` and `TradeContract` share |
| `Market` | trades, matching, voiding, transfers of balances | payouts are one step each |
| `PositionViews`, `MCMarket` | the views of the book and of the positions, as operators on the state of `Market` | |
| `TradeContract`, `MCTradeContract` | the market and the payouts on one state, and the limit of the storage buffers | has the state of `Payouts` and `Calls`, takes the calls' steps from `Market`; implements `Payouts` |
| `StoredLog` | what the log storage promises | an abstract specification |
| `LogStorage` | the log storage | implements `StoredLog` |
| `Option` | `None`, of an `Option` in the code | |
| `LogBytes` | the bytes of a trade log | used by `TradeViews` |
| `TradeViews`, `MCTradeViews` | what readers see of the trades, and the candles | trades are made at any rate; payouts and flushes are the moves only |
| `Bank`, `MCBank` | the bank, the ICP ledger and the CMC | |
| `CMMain`, `MCCMMain` | CM-main, its trade contracts as canisters, and the management canister | |
| `Frontcode`, `MCFrontcode` | the file server of CTS, its controller and its readers | |
| `Sums`, `TradingProofs`, `MarketProofs`, `TradeContractProofs`, `LogStorageProofs`, `BankProofs`, `CMMainProofs`, `ReaderProofs` | - | the proofs (section 5); `ReaderProofs` is about `Frontcode` and `TradeViews` |

The sections of a module follow the code: an operation that awaits is an action up to the await,
actions of the callee, and an action that goes on with the answer.

* `Payouts`: `TimerFires`, `SelfCallFails` and `Resume` are the three pieces of `do_payouts`;
  `StartRun` is the first message of `_do_payouts`; `PayoutReply` and `UpdateReply` poll the joined
  futures, and the one that finds all of them ready goes on, in the same message, to record every
  answer (`Polled`). `runs` holds the executions in progress, each with the status of its calls. The
  time between an execution at a ledger (`Transfer`, `BadFee`, `TransferFails`) and the arrival of its
  answer is a state of its own. `flush_logs` is reduced to its lock and its chunks, as `LogStorage`
  has it in full. `Upgrade` requires that no call is in progress, because the canister is stopped first.
* `Market`: `TradeCall` / `TradeReturns` are `_trade`; `Matched` is the loop of `match_trades`, as a
  recursive function over the matchees in the order of their ids, with `MatchStep` as its body. The
  instruction limit is a number of matches, chosen freely for every call. Kept per position: its quest,
  what is left, and the sums its log reports.
* `TradeContract`: extends `Payouts` and `Calls`, so their variables are those of the contract, and adds
  the book and the balance of the positions-subaccount. The steps of a call up to its answer are
  `Market`'s (`M == INSTANCE Market`). `MatchNew` makes of `Matched` the obligations of `Payouts`;
  `TransferPaid`, a transfer of `Payouts`, takes its amount and fee from the positions-subaccount, and
  happens only if they are there. That `Payouts` is implemented (`PayoutsImplemented`) means that what it
  assumes of the market is what the market does.
* `PositionViews`: one operator per query; a reader pages by asking again behind the last item.
* `LogStorage`: `flush` is the execution of `flush_logs` in progress (its lock allows one), `updates`
  the calls of `do_update_storage_position` in progress. Bytes are counted in logs. It models the
  position log; the trade log is the same without updates.
* `Bank`: `minting` is the execution of `mint_cycles_` for a user, `users_mint_cycles` what the code
  keeps of it. `CmcProcesses` is the CMC on its own (anybody may notify it), `CmcAnswers` what it tells
  the bank.
* `CMMain`: `creation` is the execution of `controller_create_icrc1token_trade_contract_` in progress
  (its lock allows one), `upgrades` those of `controller_upgrade_tcs`, with the step of
  `upgrade_canister_` each canister is at. A code is its module and its hash at once. `raced` is a ghost:
  the canisters that two calls in progress install code on.
* `TradeViews`: `trade_logs`, `storage_buffer` and `storage_canisters` as in the code, with `in_flush`
  logs both in the buffer and on a canister until the flush returns; the ghost `trades` has every trade as
  it was made, and `Payouts` how each is paid out in the end. The views are operators on the
  state, with ids that may be before or behind what a canister has. `LogBytes` says of each byte of a
  log which field, if any, it was written for: the version, the ids, the amounts, `matchee_position_kind`,
  the time, the fees and the payouts. The amounts have the sixteen bytes of their `u128`; the ledger's fee of
  a payout is cast to a `u64` (`AsU64`), and `U64` is how many values that has. What a position has to trade
  (`PositionKind`) is the matchee's kind in its trades, and a matcher has the other kind.
* `Frontcode`: one action per method; none awaits. A hash is what it tells apart: that of a file is the
  bytes of its chunks in a row, that of a batch the set of names with hashes, that of the tree its entries and its
  `shape`, as the root hash of a search tree depends on how it came about. `proposal` is what the
  controller saw and proposed; the ghost `reviewed` is what it saw of what is live now. `readers` are
  requests between two chunks, with a ghost `changed` when a commit has touched their file.

Definitions keep the names of the code where they can. A definition whose comment says *Mutant* is the
definition that follows it with a plausible mistake; no specification uses it. Every checked property
has a mutant in `PROJECT.json` that it must catch.


## 3. Runs

All runs are exhaustive on their instance. Amounts are small because the code only compares, adds and
divides them; the instances are chosen so that every comparison goes both ways.

| Run | Shows | Bounds |
|---|---|---|
| `payouts_overlap` | nothing is paid twice, locks are held by exactly one execution, trades are stored in order | 2 overlapping executions, 2 positions, 1 trade with both sides, chunks of 1, one upgrade |
| `payouts_fees` | recorded payouts are what the ledger did; the final log is stored before a void position goes; one flush lock | 2 executions, 2 void positions, a fee of 1 or 5 and a quantity of 5 (dust on the boundary), a change of fee |
| `payouts_settle_overlap` | every void position is paid, logged and removed | 2 slots, a quantity of 0 or 5, a change of fee |
| `payouts_upgrade` | *violated on purpose*: after an upgrade nothing drives the payouts | 1 slot, 2 positions, 1 trade with both sides, an upgrade |
| `market_match` | conservation, limits, solvency, fees as the sum over the tiers, also when a position is filled by many trades; the book is crossed only behind a stopped matching | 3 positions of two sizes (cycles 62, 187; tokens 20, 50) and three rates (2, 3, 5), 3 tiers of which two are crossed, matching with 0 or 10 matches, a queue of 2 trade logs, voids and payouts in between |
| `market_locks` | room reserved across awaits, one call per balance; paging through the book and the positions misses nothing | 2 users with 2 calls, at most 3 positions and 4 with the void ones (1 in reserve), 2 locks, 2 rates, pages of 1 |
| `trade_contract` | the market implements what `Payouts` expects; the subaccount covers what is not paid at every moment between a transfer and its record; the buffers stay bounded; every trade is paid and stored | 2 calls, 3 positions (60 cycles, 40 tokens, rate 3), 1 execution slot, 1 timer, chunks of 1, a buffer that is full with 1 log, flushed from 2 |
| `log_storage` | implements `StoredLog`; records match the canisters; none is lost; the lock is released | 3 logs, chunks of 2, canisters of 2 logs (so that a flush spans two), 2 canisters, one mark |
| `bank` | cycles accounted for; logs replay to balances; blocks credited once or kept; paging complete | 3 users, 1 `cycles_out`, 2 mints at once of 2 allowed, 3 logs, pages of 2 |
| `cm_main` | creations, continued creations and upgrades keep track of canisters, codes and hashes | 2 ledgers, canisters and codes, 2 upgrades at once of 1 outdated canister or any named, 4 calls of the controller (5 calls, 4.7 million states, hold too) |
| `trade_views` | paging finds all trades of queue, buffer and canisters; their bytes read back; candles and volumes are those of the trades | 3 trades of 2 rates among 4 positions, two of each kind, 2 minutes, canisters of 2 logs, chunks of 2 logs and of 1 candle, every id to start before; eight bytes hold 4 values, and the fees of the payouts are 0, 1, 2, 3, 4 and 5 |
| `frontcode` | served files are certified, live files are the reviewed ones, streams are whole | 2 names, 1 creator, 1 reader, chunks of up to 1 byte of 2 values, 2 chunks per file, 4 uploads, 3 commits, clears and upgrades, 2 shapes |

Some invariants are conjunctions of named parts, each with its own comment: `RoomInv` (`TypeOK`,
`RoomReserved`), `StorageInv` (`TypeOK`, `RecordsMatchCanisters`, `LogsIndexed`, `CanistersTracked`),
`AccountsInv` (`TypeOK`, `CyclesAccounted`), `MintsInv` (`BlocksKept`, `MintsLocked`), `CreationInv` (`TypeOK`,
`ContractsTracked`), `FilesInv` (`TypeOK`, `CertifiedFilesServed`).

Why these bounds are enough: two executions give every order of two holders of a lock and of their
answers; a third adds no new pair. Chunks of one make an execution leave something for the next.
Trade logs are independent but for the queue's order, which the proofs cover for any length.

`CHECK_DEADLOCK FALSE` is in four runs, in which the bounds stop the system: `log_storage` and `bank` (the
number of logs), `cm_main` (the controller's calls) and
`trade_views` (trades and time). Symmetry is used for the execution slots, the calls, the users,
canisters, ledgers and codes, which nothing orders; never in a run with a liveness property.

### Fairness

The Internet Computer delivers every message and fires every timer, so the steps of an execution, the
callees' answers and their arrival are weakly fair. `TimerFires` is strongly fair only because the
model has few slots for executions, which callers of the public method may keep occupied for a while;
the canister has no such limit. Failures are not restricted in number: `Failure` says which steps are
failures, and the assumption `<>[][~Failure]_vars` says that they stop at some time. Without it a ledger that always
refuses would leave the money unpaid, rightly. `TradeContract` assumes the same. In `LogStorage`, answers and returns are weakly fair;
what is answered is free, so that `LockReleased` also holds when everything always fails.

### A disagreement with the documentation

`ARCHITECTURE.md:39` says that the trades *are then payed out in the background*. Only timers do that
(`cm_tc/src/lib.rs:307`, `:505`, `payouts/mod.rs:65`). Timers do not survive an upgrade, and
`post_upgrade` (`lib.rs:216`) does not set one, so after an upgrade the payouts wait until somebody
trades, voids a position or calls `do_payouts_public_method`. The run `payouts_upgrade` shows it; the
other liveness runs have no upgrade.

### Observed while modelling

What the code does without a document that says otherwise; the models have it, no property forbids it.

* A storage canister lists its latest trades newest first, and its `is_last_chunk_on_this_canister` looks
  at the newest of the chunk (`cm_trades_storage/src/lib.rs:155`). It is thus false for a chunk that
  reaches the first log, unless the chunk is that one log: a reader gets one more, empty chunk. The
  trade contract lists oldest first, and its flag is exact. `LatestTradesPaged` states both.
* Two upgrades of one canister at a time can leave a recorded hash that is not that of the running code
  (`cm_main/src/lib.rs:426`), whichever returns last. `HashesRecorded` leaves such canisters out.
* A stop that is rejected for taking too long stays in force, and `upgrade_canister_` returns without a
  start (`cts_lib/src/tools.rs:254`).
* `1*MiB+512*KiB / SIZE` (`cm_tc/src/lib.rs:902`, `:918`) divides only the second term, so these two views
  take up to a million logs where about 1.5 MiB of logs seems meant (compare `:835`).
* The view of pending void positions keeps one log more than each map gives (`cm_tc/src/lib.rs:835`, the
  `+ 1`). A reader who goes on before the first log of a full page may miss one; one who goes on before the
  latest logs of each page does not. `PositionsPaged` states the latter.
* A payout at a ledger fee of zero is written like one that was not made (`trade_log.rs:89`) and reads
  back as `None`. The fee is cast to a `u64` (`:66`, `:70`), so one of 2^64 or more, if a ledger ever asks for
  it (`cm_tc/src/ledger_transfer.rs:18`), reads back as what is left of it modulo 2^64, and a multiple of
  2^64 as `None` too. `LogsReadBack` says so.
* No hash covers the headers of a file: a creator can change them after the controller has looked.
* A stream whose file a commit replaces between two chunks goes on with the new file's chunks; the
  callback compares nothing with the token's hash. `StreamsWhole` excludes such files.


## 4. Abstraction

Left out everywhere: subaccounts, memos and timestamps, error texts, SNS validation, formatting, and
serialisation but for the trade logs. Per module:

* `Payouts`: the amounts that the matching produces are any of a small set; how many trade logs and
  void positions it produces is what `match_trades` can produce. `do_payouts_errors` is not kept.
* `Market`: the early return for a full storage buffer (`lib.rs:273`; `TradeContract` has it), and candles
  (`TradeViews`). Payouts succeed or do not happen: `Payouts` and `TradeContract` say why that is right.
* `TradeContract`: no fee of a ledger changes and the canister is not upgraded; `Payouts` has both.
  `flush_logs` is reduced as in `Payouts`. Transfers of users' balances touch only the locks.
* `PositionViews`: pages are counted in logs, not in bytes.
* `LogStorage`: too few cycles for a new canister is a flush that ends at once, without a change.
  The answer of a storage canister always decodes. That a canister's memory cannot grow is a free
  choice of `StorageIsFull`.
* `Bank`: cycles burnt by executing are not counted, so `CyclesAccounted` is an equality that the real
  balance approaches from below. The CMC gives at least the bank's fee. Growing the stable memory of
  the logs always works (the code notes the problem itself, `bank/src/lib.rs:532`). A block that the
  CMC refuses for ever keeps its entry for ever, in the code and in the model.
* `CMMain`: the codes of the storage canisters, the cycles a creation needs (too few are an error that
  changes nothing), methods that only forward a call, and the upgrade of CM-main itself, which waits for
  the calls in progress. The controller names canisters that exist.
* `TradeViews`: calls of a flush that fail change nothing (`LogStorage`). Sizes of replies are chunk sizes
  in logs. Of `CandleCounter` the sums do not saturate.
* `LogBytes`: the positors (bytes 34 to 94) are left out. That the sixteen bytes of a `u128` are its value is
  taken from Rust's conversions. The version (bytes 0 and 1) is written and, as in the code, not read.
* The ledger's fee of a void position's payout is cast to a `u64` in its position log
  (`payouts/mod.rs:233`): position logs have only what the updates change, and not the fee. Fees
  that do not fit into a `u128`, for which the code takes 0 (`ledger_transfer.rs:18`), do not occur.
* `Frontcode`: headers, gzip and MIME types, the witness of a certificate and its encoding, and SNS
  validation. That a witness proves its entry is what `hash_tree` gives; what is modelled is that the tree,
  its root and the files belong together.

Not modelled, and why:

* The bytes of position logs (as those of trade logs, which `LogBytes` has), and the layout of stable
  memories.
* The upgrade of log storage canisters (`controller_upgrade_log_storage_canisters`), and of the storage
  canisters and CM-main themselves: the first is the algorithm of `CMMain` with storage canisters for trade
  contracts; the others save one record and read it back while no call is in progress.
* Methods of the controller that forward a call, as `controller_call_canister`: they change no state.
* Scripts, build, tests.


## 5. Proofs

All theorems hold for **any** values of the constants: any number of execution slots, positions, trades,
users, canisters, files, calls in progress, any chunk sizes, fees, tiers and limits. The assumptions are
the named ones of the modules; they are in the module that declares the constants, and TLC evaluates
them in every run. Most say what type a constant has and that `None` is not one of the values. The others:

* the tiers of the trade fee have growing bounds and falling rates below 100% (`trade_fee.rs:12`);
* the room kept in reserve in the maps of the market is positive and not above their limits (they are
  constants of `cm_tc/src/lib.rs:84`), and so is the limit of the storage buffers (`MAX_STORAGE_BUFFER_SIZE`);
* in `TradeContract` the bound of the trades' ids is not below that of the positions' (`MaxTrades >= MaxId`),
  so that it never binds: each trade fills a position;
* the bank has finitely many users, as its map of balances has;
* the CMC gives at least the bank's fee for a block;
* the chunks of a file are sequences of bytes.

| Module | Theorem | States |
|---|---|---|
| `TradeContractProofs` | `TypeCorrect` | `Spec => []TypeOK`, of `Payouts` |
| | `LocksProtect` | `Spec => []LockInv`, the inductive invariant of the payouts |
| | `NeverPaidTwice` | `Spec => []PaidAtMostOnce` |
| | `LocksAreHeld` | `Spec => []PayoutLocksHeld` |
| | `StoredInOrder` | `Spec => []TradesStoredInOrder` |
| | `RecordsKept` | `Spec => []PayoutsInv` (`LockInv`, `LocksOwned`, `RecordInv` and `LogInv`) |
| | `FlushLockIsExclusive` | `Spec => []FlushLockExclusive` |
| | `RecordsMatchLedger` | `Spec => []PayoutsMatchLedger` |
| | `LogsFollowPositions` | `Spec => []PositionLogsFollow` |
| | `ContractInvariant` | `ContractSpec => [](PayoutsInv /\ ContractInv)`, the inductive invariant of the contract |
| | `ContractImplementsPayouts` | `ContractSpec => PayoutsImplemented`: the contract implements `Payouts` |
| | `ContractKeeps` | `ContractSpec => []` of `PaidAtMostOnce`, `PayoutsMatchLedger`, `TradesStoredInOrder`, `OneCallPerBalance` |
| | `PaymentsStayCovered` | `ContractSpec => []PaymentsCovered` |
| | `BuffersStayBounded` | `ContractSpec => []BuffersBounded` |
| `LogStorageProofs` | `LogStorageInvariant` | `Spec => []IInv`, the inductive invariant of the log storage |
| | `StorageIsALog` | `Spec => LogsKept`: `LogStorage` implements `StoredLog` |
| | `UpdatesAreKept` | `Spec => []UpdatesKept` |
| | `CanistersAreTracked`, `RecordsAreTrue` | `Spec => []CanistersTracked`; `Spec => []RecordsMatchCanisters` |
| | `StorageInvariant` | `Spec => []StorageInv`: these, the types, and the index by key of every canister |
| `MarketProofs` | `CallsInvariant`, `OneCall` | `Spec => []CallsInv`; `Spec => []OneCallPerBalance` |
| | `MarketInvariant` | `Spec => []MarketInv`, the inductive invariant of the market |
| | `RoomIsReserved` | `Spec => []RoomInv` |
| | `Conserved`, `SolventAlways` | `Spec => []PositionsConserved`; `Spec => []Solvent` |
| | `WithinLimits`, `Uncrossed` | `Spec => []TradesWithinLimits`; `Spec => []BookUncrossed` |
| | `FeesFollow` | `Spec => []FeesFollowVolume` |
| | `PositionsArePaged`, `BookIsPaged` | `Spec => []PositionsPaged`; `Spec => []BookPaged` |
| `BankProofs` | `MintInvariant` | `Spec => []MintInv`, the inductive invariant of the mints |
| | `CreditedOncePerBlock` | `Spec => []MintedOncePerBlock` |
| | `NoBlockLost` | `Spec => []MintsInv` |
| | `AccountsInvariant` | `Spec => []AccountsKept`, the inductive invariant of the accounts |
| | `CyclesAreAccounted`, `LogsTellBalances` | `Spec => []AccountsInv`; `Spec => []LogsReplayToBalances` |
| | `PagesFindLogs` | `Spec => []PagesFindAllLogs` |
| `CMMainProofs` | `UpgradeInvariant` | `Spec => []UpgradeInv`, the inductive invariant of creations and upgrades |
| | `CreationsTracked` | `Spec => []CreationInv` |
| | `HashesAreRecorded` | `Spec => []HashesRecorded` |
| | `CodeReplacedWhileStopped` | `Spec => ReplacedWhileStopped`, an action property |
| `ReaderProofs` | `LiveInvariant`, `Certified` | `Spec => []LiveInv`; `Spec => []CertifiedFilesServed` |
| | `Reviewed` | `Spec => []LiveAsReviewed` |
| | `ServerInvariant` | `Spec => []ServerInv`, the inductive invariant of the store and its readers |
| | `FilesBelongTogether`, `StreamsAreWhole` | `Spec => []FilesInv`; `Spec => []StreamsWhole` |
| | `LogsInvariant`, `CandlesInvariant` | `ViewsSpec => []LogsInv`; `ViewsSpec => []CandlesOK`, the inductive invariants of `TradeViews` |
| | `TradesArePaged`, `PositionTradesAreFound` | `ViewsSpec => []LatestTradesPaged`; `ViewsSpec => []PositionTradesFound` |
| | `LogsAreReadBack`, `CandlesFollow` | `ViewsSpec => []LogsReadBack`; `ViewsSpec => []CandlesFollowTrades` |

### Loops and sums

The code has loops: over the tiers of a fee, over the matchees of a trade, over the chunks of a file,
over the logs of a canister. In the model each is a recursive function, and TLAPS does not even know
that such a function exists. The library's theorems of induction take an operator, which the provers
cannot instantiate. So each loop has four lemmas, always in the same order:

1. *one more*: a function that has the loop's results up to `n` extends to one for `n + 1`
   (`TierRunOneMore`, `MatchRunOneMore`, `JoinedOneMore`, `IdsOneMore`);
2. *exists*: else there is a least `n` without one (`LeastNat`), and 1 contradicts it;
3. *step*: one turn of the loop keeps an invariant of the loop;
4. *result*: the result has it, else there is a first turn after which it fails, and 3 contradicts it.

`Sums` has `LeastNat` and its counterpart for finite sets (`MinimalSubset`, from the well-foundedness of
the strict subsets), and with these what the properties need of sums over functions: a sum changes by
what one term changes, with one more term, over a union of disjoint sets, and is not above another whose
terms are not below.

### Payouts

`PaidAtMostOnce` is not inductive: nothing in it stops an execution from sending a transfer that was
made already. `LockInv` adds the reason. Let *locked* be the obligations whose lock is set and *owed*
the ones not recorded as paid. Then (`Consistent`)

1. what an execution pays is locked and owed,
2. two executions never pay the same,
3. whatever is locked is being paid by some execution, and
4. something owed that has been transferred is held by the execution that knows the answer.

A new execution takes only what is owed and *not* locked; by 4 and 1 that was never transferred. When
it ends it records all of its answers and unlocks, which re-establishes 3 and 4. The lemmas `Take`,
`Settle`, `Keep` and `Learn` prove this on sets alone; the rest of the module shows that each action
changes *locked*, *owed* and the executions in one of these four ways. `RunShapes` (only an execution
that waits has tasks, a call on its way has no result), `BookIds` and `NoFreshTransfers` (nothing is
transferred for an id not given out) are what new obligations need, and `TradesStoredInOrder` makes the
ids of the trade logs unique.

Three more invariants build on `LockInv`:

* `LocksOwned`: a flush lock is set exactly while one execution holds it, where an execution holds the lock
  of the storages it flushes, and that of the positions while it has updates. `OwnerStep` proves it
  for one execution that takes free locks and releases its own.
* `RecordInv`: what is recorded of an obligation is what the ledger has of it, which alone is not
  inductive. A payout in progress must ask for the net amount less a fee below it, and what it knows
  must be what the ledger did (`TaskMatches`). The net amount of an entry never changes, and by `LockInv`
  no other execution transfers it meanwhile.
* `LogInv`: a position forgotten has a final log. For this, the log a void position waits to store is
  terminated and has the payout the position has (`VoidLogOK`), an update in progress carries a log that is
  final already, although its position may have changed since it was copied (`UpdateOK`), and one that
  comes late is thus harmless. As the payouts do not say of which kind a position was, each is of one kind
  only (`KindsApart`).

### The log storage

`LogsKept` refines the storage to one sequence, read by id with `LogAt`. The proof has two halves.

* *Reading.* `Readable` says that the ranges of ids of the canisters neither overlap nor leave a gap
  (`Ordered`), and that a canister and the buffer have at each place the log of that id. `FoundStep` then
  shows once that a step which leaves logs in place, or moves them from the buffer to a canister, leaves
  what is read as it was, but for those made final (`LogsMarked`). Each action is shown to be such a step.
* *Flushing.* That the chunk drained from the buffer is the one the canister took needs the lock:
  `FlushInv` says that the chunk sent is still the head of the buffer when its answer comes, and `LockInv`
  that no update runs meanwhile. `TrackInv` says where each created canister is: on the list, in the
  temporary holder, or in the flush. `ChunksSplit` is the arithmetic of the chunks, for any sizes.

From the same invariant: with the logs found (`FinalInv`), no update is lost (`UpdatesKept`).

The index of a canister has for each key the ids of the logs with that key, in order. `cm_update_log`
leaves the keys of a log, and a flush appends the ids of the new logs to what the index has.
`IdsJoin` says that this is what the loop over all of the logs would give, and `AllSame` that the loop
looks at the keys only.

### The market

`OneCallPerBalance` says that the locks of a ledger are the users of its calls in progress, one each. With
the types (`CallsInv`) it is inductive: as no two calls share a lock, releasing one never releases another's.

The other properties relate all the trades ever made to the positions, and are not inductive. In
`MarketInv`, `BookInv` says of *each* position what `PositionsConserved` and `TradesWithinLimits` say of all
of them: what is left and what its trades took make up its quantity, the sums its log reports are
those of its trades, each within its limit (`PositionOK`, and `VoidOK` once it is void). To this it adds
what the next match needs: that what is on the book is `Worth` a match, so that no match is of zero tokens,
that no position is its own matchee, and that trades name positions with ids given out (`LogsReal`).
`QuestsOK` has what a call checked before its await. `ShapeInv` counts an id for each call in progress.

A trade is one step of the model that runs the loop of `match_trades`. `LoopInv` is `MarketInv` inside
of the loop, for the matcher, the matchees and the trades so far: `LoopData` (the positions),
`LoopBook` (the trades), `LoopSolvent` (what was filled is left over or traded) and `LoopUncrossed`
(the matchees passed are filled or not compatible, or the matcher is filled, or the loop was cut).
`StepIs` says what one turn does: nothing, the end by a limit, or a match of what the smaller of the two can
trade, which `TokensOf` shows to be more than nothing and to leave that one below the minimum, for any
rounding of the conversions. `LoopStep` shows that a turn keeps `LoopInv`, `CreateStep` that the message
does `MarketInv`. The only nonlinear arithmetic is in `Quotient`, `TokensOf`, `Subtracted` and `FeeOfPosition`.

`FeesInv` is a second invariant on top of `MarketInv`: each trade was charged for the volume its positions
had *before* it (`LogsCharged`), and a position is on one side of all of its trades (`SidesKept`). The fee
is what each tier takes of its part of the volume (`FeeIsTierSum`). As the parts of two
volumes in a row add up, and rounding in pieces only loses (`TierSumGrows`), the fees of all trades of a position
are not above the fee of its whole volume (`PiecesCostLess`), for any tiers.

The pages that readers see are functions of the positions, so that no action matters, only `ShapeInv` and
`BookInv` (ids are below the counter, rates and mainders are numbers). A page of positions leaves nothing out
behind its first log, which is what a reader who goes on before it needs; of void positions
this holds of the latest `MaxLogs` of a page. For the book there are three loops.

* `SortedIs`: sorting has a result, and it has each position once.
* `ChunkOK`, the invariant of the loop that fills a chunk: the rates ascend, each has what the positions so
  far offer at it, and no rate so far is missing unless the chunk is full and the rate is behind its
  last. It needs that the positions come by rate, else a rate would be cut.
* `NextChunk`: behind the last rate of a chunk there are fewer rates than behind its start, so that the reader
  ends, and what he has and what is behind it are all the rates (`BookWhole`).

### The trade contract

The theorems of the contract have a hypothesis, `Foreseen`: the two constants from which `Payouts` picks
the amounts it is handed are all of `Nat`. `ContractSpec` mentions neither of them, so they may have any
value without a behaviour more or less; with these, `Payouts` allows for every amount that the matching
computes. The run `trade_contract` gives them the amounts of its instance.

A step of the contract implements one of `Payouts` if the match behaves: it fills one position at most
once, and each match fills one of its two sides, so that there are no more trades than positions and the
queue has room. `LoopPositions` and `LoopCounts` say so of the loop of `match_trades`, and `LogsLeft` counts
with them. In `ContractInv`, `BookSound` ties the positions of `Payouts` to the ids of the book,
`QuestsWorth` has what a call checked before its await, and `Counted` has an id and room for every call in
progress: a call that passed the check and returns after others have taken their ids finds one.

For the subaccount, `StillCovered` asks of a step one inequality: what is owed afterwards, with what was
taken from the subaccount, is no more than before. The cases are few:

* a transfer pays what one void position or one side of a trade is owed, amount and fee (`TransferSums`).
  That it is still owed, and that amount, is `LockInv` and `RecordInv` of the payouts;
* a match moves what was paid in, and what it takes of the positions, to the trade logs and the void
  positions (`MatchTradeSums`, `MatchVoidSums`); `LoopSums` is the invariant of the loop for it;
* a void position takes what was left of one on the book;
* everything else of the payouts only forgets what is paid (`VoidsKept`, `QueueKept`).

`BuffersBounded` is inductive with the invariants above: each call in progress stands for what it may add,
and a call begins only while the buffers have room.

### The bank

* *Mints.* `MintInv` says which block of ICP a user has in work (`InWork`), in an execution or in an entry
  that waits for a retry, and what each stage of an execution knows of it (`MintShape`). No two users work
  on one block, a block that a log credits was minted and is in no work any more, and one that is in no
  work is credited or was sent back (`BlocksInv`). `MintedOncePerBlock` and `MintsInv` follow. Four lemmas
  cover the ways in which a step changes the blocks in work.
* *Accounts.* `AccountsKept` adds that the balances make up the supply, that the cycles of the canister are
  the supply, the fees of the logs and what calls in progress keep or have paid, and that the logs replay
  to the balances. Each step is one of few: nothing moves, one log, a call that begins or ends.
* *Pages.* `LogsNoted` says that the pointers kept per user are the places of that user's logs since the
  last clearing, once each and in order. The reader's loop has a closed form (after `n` pages, all but the
  first `Rest(p, n)` pointers), which `ReadUnique` shows to be the one that the loop computes.

### The others

* **CM-main.** `UpgradeInv` ties the three places a canister under creation can be in (`TrackInv`), and says
  at which step each target of each upgrade can be, given the canister's status and code and whether another
  upgrade has it too (`RacesKnown`, `StepsOK`). `HashesRecorded` and `ReplacedWhileStopped` are about
  canisters that are not raced, for which a step determines the status.
* **CTS.** `LiveInv` adds to what is checked that a proposal's hash is the hash of the files the controller
  saw (`SawWhatItProposed`). The lemma `HashTellsFiles` is the reason: the hash of a batch is the set of
  its names with hashes, so equal hashes are equal files. Here `sha256_hash` stays unexpanded, so what it
  computes does not matter. For `StreamsWhole` it does: a reader has the bytes of the chunks up to its
  token (`Follows`, with the loop `Joined`), for as long as nobody touched its file.

### The views of the trades

The views compute what they give from where the trades are, so their theorems are consequences of one
invariant of the places. `LogsInv` says that

* the trades have the numbers from 0 on and come in the order of time (`MadeOK`);
* the queue has the latest of them, the buffer those before, as they were paid out (`PlacesOK`);
* each canister has a range of them, the next begins where it ends, the last ends behind what is in
  flight, and the index of each has the ids of its logs under their keys (`InRow`).

A view is then a chunk of a sequence with numbers in a row, and the id that a reader passes is a place in
it, before, in or behind it (`BeforeIs`). `LastInBoth` is the seam of the queue and the buffer: the last
*n* of two sequences in a row are those of the second and, for what room is left, of the first.

For the trades of a position three loops are one inside of the other: over the logs that have the key
(`At`), over the chunks before one another (`AllChunks`), and over the canisters (`AllStored`). Here the
lemmas of loops are stated for all of them: `StepByStep` (what holds of 0 and goes on, holds up to *n*),
`LoopExists` and `SameLoop`. `PagesGiveAll` says that following the chunks of any sequence gives
all of it; `KeyPagesGiveAll` that the chunks before the id of a log are the chunks before its place among
those with the key; `AtThen` that the logs with a key of two sequences in a row are those of the one and
then those of the other; `OverlapSeen` that with a chunk in flight the reader has it twice, and nothing else.

`LogsReadBack` needs that the ranges of the fields do not overlap (`Disjoint`, of the constants
of the code), so that each byte was written for one field only; and that a fee in 1 .. `U64` - 1 is left as it
is by the cast (`FeeReads`). It is proved for every positive `U64`, that of the code included. What it says of
the other fees is what is lost: it does not promise that they read back.

The candles have `CandlesOK`: each candle tells the trades of its minute (`Tells`), every trade has
its candle, and from any time on the candles and the trades have the same volume. A trade is the first of
its minute (`FirstOfMinute`) or one more (`MoreOfMinute`), because the minutes of the trades so far are
not later (`MinutesThen`). That *begins before the minute of `before`* and *is over by `before`* are
the same of a candle is the arithmetic of `StartIs`, for any length of the candles.

### Only model-checked

Liveness, which is beyond TLAPS (fairness, and ENABLED): `VoidsSettle`, `TradesSettle`, `LockReleased`.


## 6. Plan

Done: all components but those under *Not modelled*, the composition of the market and the payouts, and
the proofs of section 5.

Left, in this order:

1. `LogStorage` in `TradeContract`, so that the reduced flush of `Payouts` becomes a refinement as well.
2. An abstract `PaymentPromise` (each obligation is paid once, or is dust) that `Payouts` implements, as
   `LogStorage` does `StoredLog`; and an abstract ledger for `Bank`.
3. The bytes of position logs, when their layout changes next.
