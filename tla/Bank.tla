--------------------------------- MODULE Bank ---------------------------------
(***************************************************************************)
(* The cycles bank (canisters/bank): a ledger whose token is the cycles    *)
(* that it holds.  Cycles come in with a call (cycles_in) or are minted    *)
(* from ICP through the cycles minting canister (mint_cycles), and go out  *)
(* to a canister (cycles_out).                                             *)
(*                                                                         *)
(* cycles_out awaits the management canister; mint_cycles awaits the ICP   *)
(* ledger and then the CMC, and what it was doing when that failed is kept *)
(* so that complete_mint_cycles can go on.  An action is one message       *)
(* execution at the bank or at one of these.  Accounts have no subaccounts *)
(* here, and the cycles that the bank burns to execute are not counted.    *)
(***************************************************************************)
EXTENDS Integers, Sequences, FiniteSets, Functions

CONSTANTS
  User,
  Call,       \* slots for the calls of cycles_out in progress
  Amount,     \* amounts that users ask for
  CmcCycles,  \* what the CMC gives for the ICP of one mint_cycles
  Fee,        \* BANK_TRANSFER_FEE
  MaxMints,   \* MAX_USERS_MINT_CYCLES
  ChunkSize,  \* LOGS_CHUNK_SIZE
  MaxLogs,    \* bound of the logs
  MaxBlocks,  \* bound of the ICP transfers
  None        \* Rust's None

(* MintCyclesMidCallData *)
MidCallType == [lock : BOOLEAN, to : User, block : Nat \cup {None}]
(* A call of cycles_out in progress. *)
OutType == [from : User, amount : Nat, answer : {None, "ok", "err"}]

(* Principals are strings of at most 29 bytes, so there are finitely many. *)
ASSUME BankAssumption ==
  /\ IsFiniteSet(User)
  /\ Amount \subseteq Nat /\ Fee \in Nat /\ CmcCycles \in Nat /\ CmcCycles >= Fee
  /\ MaxMints \in Nat /\ MaxLogs \in Nat /\ MaxBlocks \in Nat
  /\ ChunkSize \in Nat \ {0}
  /\ None \notin User /\ None \notin Nat /\ None \notin MidCallType \cup OutType
  /\ None \notin {"ok", "err", "minted", "refunded"}

VARIABLES
  balances,          \* [User -> CYCLES_BALANCES]
  total_supply,
  logs,
  pointers,          \* [User -> USER_LOGS_POINTERS]: block heights
  users_mint_cycles, \* [User -> MintCyclesMidCallData, or None]
  minting,           \* [User -> the execution of mint_cycles_ for that user]
  outs,              \* [Call -> a cycles_out in progress]
  canister_cycles,   \* canister_balance128
  icp_blocks,        \* [ICP block -> what the CMC did with it]
  cleared            \* how many logs there were when the pointers were cleared

ledgerVars == <<balances, total_supply, logs, pointers, cleared>>
mintVars   == <<users_mint_cycles, minting, icp_blocks>>
vars == <<ledgerVars, mintVars, outs, canister_cycles>>

NotMinting == [pc |-> "idle", to |-> None, block |-> None, answer |-> None]

Init ==
  /\ balances = [u \in User |-> 0]
  /\ total_supply = 0
  /\ logs = <<>>
  /\ pointers = [u \in User |-> <<>>]
  /\ users_mint_cycles = [u \in User |-> None]
  /\ minting = [u \in User |-> NotMinting]
  /\ outs = [c \in Call |-> None]
  /\ canister_cycles = 0
  /\ icp_blocks = <<>>
  /\ cleared = 0

----------------------------------------------------------------------------
(* Balances and logs *)

SatSub(a, b) == IF a >= b THEN a - b ELSE 0

Add(bs, u, n)      == [bs EXCEPT ![u] = @ + n]
Subtract(bs, u, n) == [bs EXCEPT ![u] = SatSub(@, n)]

(* Mutant: the sender of a transfer to himself is noted twice. *)
NotedForBoth(log, u) ==
  IF log.from = u /\ log.to = u THEN <<Len(logs), Len(logs)>>
  ELSE IF u \in {log.from, log.to} THEN <<Len(logs)>> ELSE <<>>
(* The pointers that a new log adds for a user. *)
Noted(log, u) == IF u \in {log.from, log.to} THEN <<Len(logs)>> ELSE <<>>

PushLog(log) ==
  /\ logs' = Append(logs, log)
  /\ pointers' = [u \in User |-> pointers[u] \o Noted(log, u)]

HasFunds(u, n) == balances[u] >= n + Fee

(* The bound of the logs, with the ones that calls in progress will make. *)
Room == Len(logs) + Cardinality({c \in Call : outs[c] # None})
          + Cardinality({u \in User : minting[u].pc # "idle"}) < MaxLogs

----------------------------------------------------------------------------
icrc1_transfer(from, to, amount) ==
  /\ Room
  /\ HasFunds(from, amount)
  /\ balances' = Add(Subtract(balances, from, amount + Fee), to, amount)
  /\ total_supply' = SatSub(total_supply, amount + Fee) + amount
  /\ PushLog([op |-> "xfer", from |-> from, to |-> to, amt |-> amount, block |-> None])
  /\ UNCHANGED <<mintVars, outs, canister_cycles, cleared>>

(* The caller attached enough cycles: the amount and the fee are accepted. *)
cycles_in(to, amount) ==
  /\ Room
  /\ canister_cycles' = canister_cycles + amount + Fee
  /\ balances' = Add(balances, to, amount)
  /\ total_supply' = total_supply + amount
  /\ PushLog([op |-> "mint", from |-> None, to |-> to, amt |-> amount, block |-> None])
  /\ UNCHANGED <<mintVars, outs, cleared>>

controller_clear_user_logs_pointers_cache ==
  /\ cleared < Len(logs)
  /\ pointers' = [u \in User |-> <<>>]
  /\ cleared' = Len(logs)
  /\ UNCHANGED <<balances, total_supply, logs, mintVars, outs, canister_cycles>>

----------------------------------------------------------------------------
(* cycles_out *)

(* Up to its await: the balance is taken first; the cycles leave with the  *)
(* call of deposit_cycles.                                                 *)
CyclesOut(c, from, amount) ==
  /\ Room
  /\ outs[c] = None
  /\ HasFunds(from, amount)
  /\ balances' = Subtract(balances, from, amount + Fee)
  /\ total_supply' = SatSub(total_supply, amount + Fee)
  /\ canister_cycles' = canister_cycles - amount
  /\ outs' = [outs EXCEPT ![c] = [from |-> from, amount |-> amount, answer |-> None]]
  /\ UNCHANGED <<logs, pointers, cleared, mintVars>>

DepositCycles(c) ==
  /\ outs[c] # None /\ outs[c].answer = None
  /\ outs' = [outs EXCEPT ![c].answer = "ok"]
  /\ UNCHANGED <<ledgerVars, mintVars, canister_cycles>>

(* A rejected call gives its cycles back. *)
DepositFails(c) ==
  /\ outs[c] # None /\ outs[c].answer = None
  /\ outs' = [outs EXCEPT ![c].answer = "err"]
  /\ canister_cycles' = canister_cycles + outs[c].amount
  /\ UNCHANGED <<ledgerVars, mintVars>>

(* Mutant: the fee is not given back. *)
RefundAmount(out) == out.amount
Refund(out) == out.amount + Fee

(* Mutant: the log of a burn does not have the fee. *)
BurnAmountNet(out) == out.amount
(* The amount of a burn's log includes the fee. *)
BurnAmount(out) == out.amount + Fee

CyclesOutReturns(c) ==
  /\ outs[c] # None /\ outs[c].answer # None
  /\ IF outs[c].answer = "ok"
     THEN /\ PushLog([op |-> "burn", from |-> outs[c].from, to |-> None,
                      amt |-> BurnAmount(outs[c]), block |-> None])
          /\ UNCHANGED <<balances, total_supply>>
     ELSE /\ balances' = Add(balances, outs[c].from, Refund(outs[c]))
          /\ total_supply' = total_supply + Refund(outs[c])
          /\ UNCHANGED <<logs, pointers>>
  /\ outs' = [outs EXCEPT ![c] = None]
  /\ UNCHANGED <<cleared, mintVars, canister_cycles>>

----------------------------------------------------------------------------
(* mint_cycles, complete_mint_cycles and their mint_cycles_ *)

MidCall(lock, to, block) == [lock |-> lock, to |-> to, block |-> block]

MintCycles(u, to) ==
  /\ Room /\ Len(icp_blocks) + Cardinality({v \in User : minting[v].pc = "transfer"}) < MaxBlocks
  /\ users_mint_cycles[u] = None
  /\ Cardinality({v \in User : users_mint_cycles[v] # None}) < MaxMints
  /\ users_mint_cycles' = [users_mint_cycles EXCEPT ![u] = MidCall(TRUE, to, None)]
  /\ minting' = [minting EXCEPT ![u] = [NotMinting EXCEPT !.pc = "transfer", !.to = to]]
  /\ UNCHANGED <<ledgerVars, icp_blocks, outs, canister_cycles>>

(* The ICP ledger transfers the user's ICP to the bank's account at the    *)
(* CMC, or it does not.                                                    *)
IcpTransfer(u) ==
  /\ minting[u].pc = "transfer" /\ minting[u].answer = None
  /\ icp_blocks' = Append(icp_blocks, "new")
  /\ minting' = [minting EXCEPT ![u].answer = "ok", ![u].block = Len(icp_blocks) + 1]
  /\ UNCHANGED <<ledgerVars, users_mint_cycles, outs, canister_cycles>>

IcpTransferFails(u) ==
  /\ minting[u].pc = "transfer" /\ minting[u].answer = None
  /\ minting' = [minting EXCEPT ![u].answer = "err"]
  /\ UNCHANGED <<ledgerVars, users_mint_cycles, icp_blocks, outs, canister_cycles>>

(* The mint can be completed later: its block is kept. *)
Kept(u) == MidCall(FALSE, minting[u].to, minting[u].block)
StopHere(u) ==
  /\ users_mint_cycles' = [users_mint_cycles EXCEPT ![u] = Kept(u)]
  /\ minting' = [minting EXCEPT ![u] = NotMinting]
GiveUp(u) ==
  /\ users_mint_cycles' = [users_mint_cycles EXCEPT ![u] = None]
  /\ minting' = [minting EXCEPT ![u] = NotMinting]

(* With too few cycles for the call of the CMC the mint stops here. *)
IcpTransferReturns(u) ==
  /\ minting[u].pc = "transfer" /\ minting[u].answer # None
  /\ IF minting[u].answer = "err" THEN GiveUp(u)
     ELSE \/ StopHere(u)
          \/ /\ minting' = [minting EXCEPT ![u].pc = "notify", ![u].answer = None]
             /\ UNCHANGED users_mint_cycles
  /\ UNCHANGED <<ledgerVars, icp_blocks, outs, canister_cycles>>

(* The CMC is notified of a block, by the bank or by anybody: it mints     *)
(* cycles for the bank, sends the ICP back, or will never do either.       *)
CmcProcesses(b) ==
  /\ icp_blocks[b] = "new"
  /\ \E what \in {"minted", "refunded", "refused"} : icp_blocks' = [icp_blocks EXCEPT ![b] = what]
  /\ canister_cycles' = IF icp_blocks'[b] = "minted" THEN canister_cycles + CmcCycles
                        ELSE canister_cycles
  /\ UNCHANGED <<ledgerVars, users_mint_cycles, minting, outs>>

(* What the CMC answers to the bank: a block that it has processed gets    *)
(* the same answer every time; the call may also fail.                     *)
CmcAnswers(u) ==
  /\ minting[u].pc = "notify" /\ minting[u].answer = None
  /\ \E answer \in {"err"} \cup ({icp_blocks[minting[u].block]} \cap {"minted", "refunded"}) :
       minting' = [minting EXCEPT ![u].answer = answer]
  /\ UNCHANGED <<ledgerVars, users_mint_cycles, icp_blocks, outs, canister_cycles>>

Minted == SatSub(CmcCycles, Fee)

(* Mutant: the entry stays after the mint. *)
StopAfterMint(u) == StopHere(u)
(* The mint is done: its entry is removed with the credit. *)
Done(u) == GiveUp(u)

CmcNotifyReturns(u) ==
  /\ minting[u].pc = "notify" /\ minting[u].answer # None
  /\ \/ /\ minting[u].answer = "minted"
        /\ balances' = Add(balances, minting[u].to, Minted)
        /\ total_supply' = total_supply + Minted
        /\ PushLog([op |-> "mint", from |-> None, to |-> minting[u].to, amt |-> Minted,
                    block |-> minting[u].block])
        /\ Done(u)
     \/ /\ minting[u].answer = "refunded"
        /\ GiveUp(u)
        /\ UNCHANGED <<balances, total_supply, logs, pointers>>
     \/ /\ minting[u].answer = "err"
        /\ StopHere(u)
        /\ UNCHANGED <<balances, total_supply, logs, pointers>>
  /\ UNCHANGED <<cleared, icp_blocks, outs, canister_cycles>>

(* Mutant: the lock is not looked at. *)
MayCompleteAnytime(mint) == mint # None
MayComplete(mint) == mint # None /\ ~mint.lock

(* Anybody may complete the mint of a user.  When the cycles are too few   *)
(* again, the entry stays as it is.                                        *)
CompleteMintCycles(u) ==
  LET mint == users_mint_cycles[u]
  IN /\ Room
     /\ MayComplete(mint)
     /\ users_mint_cycles' = [users_mint_cycles EXCEPT ![u].lock = TRUE]
     /\ minting' = [minting EXCEPT ![u] =
          [pc |-> IF mint.block = None THEN "transfer" ELSE "notify",
           to |-> mint.to, block |-> mint.block, answer |-> None]]
     /\ UNCHANGED <<ledgerVars, icp_blocks, outs, canister_cycles>>

----------------------------------------------------------------------------
(* get_logs_backwards: the last chunk of a user's logs before a block. *)
GetLogsBackwards(u, before) ==
  LET list  == pointers[u]
      end   == IF before = None THEN Len(list)
               ELSE Cardinality({i \in 1 .. Len(list) : list[i] < before})
      start == SatSub(end, ChunkSize)
  IN [logs |-> SubSeq(list, start + 1, end), is_last_chunk |-> start = 0]

----------------------------------------------------------------------------
Users ==
  \/ \E u, v \in User, n \in Amount : icrc1_transfer(u, v, n)
  \/ \E u \in User, n \in Amount : cycles_in(u, n) \/ \E c \in Call : CyclesOut(c, u, n)
  \/ \E u, v \in User : MintCycles(u, v)
  \/ \E u \in User : CompleteMintCycles(u)
  \/ controller_clear_user_logs_pointers_cache

Callees ==
  \/ \E c \in Call : DepositCycles(c) \/ DepositFails(c)
  \/ \E u \in User : IcpTransfer(u) \/ IcpTransferFails(u) \/ CmcAnswers(u)
  \/ \E b \in 1 .. Len(icp_blocks) : CmcProcesses(b)

Returns ==
  \/ \E c \in Call : CyclesOutReturns(c)
  \/ \E u \in User : IcpTransferReturns(u) \/ CmcNotifyReturns(u)

Next == Users \/ Callees \/ Returns

Spec == Init /\ [][Next]_vars
----------------------------------------------------------------------------
(* Type invariant *)

LogType ==
  [op : {"xfer", "mint", "burn"}, from : User \cup {None}, to : User \cup {None}, amt : Nat,
   block : Nat \cup {None}]
MintingType ==
  [pc : {"idle", "transfer", "notify"}, to : User \cup {None}, block : Nat \cup {None},
   answer : {None, "ok", "err", "minted", "refunded"}]

(* The contents of the state variables have the types of the code's data,  *)
(* and the bank never gives cycles that it does not have.                  *)
TypeOK ==
  /\ balances \in [User -> Nat]
  /\ total_supply \in Nat
  /\ logs \in Seq(LogType)
  /\ pointers \in [User -> Seq(Nat)]
  /\ users_mint_cycles \in [User -> MidCallType \cup {None}]
  /\ minting \in [User -> MintingType]
  /\ outs \in [Call -> OutType \cup {None}]
  /\ canister_cycles \in Nat
  /\ icp_blocks \in Seq({"new", "minted", "refunded", "refused"})
  /\ cleared \in 0 .. Len(logs)
----------------------------------------------------------------------------
(* Properties *)

InProgress == {c \in Call : outs[c] # None}
Credited(b) == {i \in 1 .. Len(logs) : logs[i].block = b}

(* Every cycle that the bank holds is accounted for: it is somebody's, or  *)
(* the fee of a log, or will go back to the caller of a cycles_out, or     *)
(* will be credited for a block.  So the bank can always pay its supply    *)
(* (canister_cycles_balance_minus_total_supply).                           *)
CyclesAccounted ==
  canister_cycles =
    total_supply + Fee * Len(logs)
    + SumFunction([c \in InProgress |->
                     IF outs[c].answer = "err" THEN outs[c].amount + Fee ELSE Fee])
    + CmcCycles * Cardinality({b \in 1 .. Len(icp_blocks) :
                                 icp_blocks[b] = "minted" /\ Credited(b) = {}})

(* What the bank holds and owes, with the types of all the data.           *)
AccountsInv == TypeOK /\ CyclesAccounted

(* The logs replay to the balances: a transfer costs its sender the fee    *)
(* besides, a burn's amount has the fee in it, and a cycles_out that waits *)
(* for its answer has no log yet.  The supply is the sum of the balances.  *)
Effect(log, u) ==
  (IF log.to = u THEN log.amt ELSE 0)
  - (IF log.from # u THEN 0 ELSE IF log.op = "xfer" THEN log.amt + Fee ELSE log.amt)

LogsReplayToBalances ==
  /\ \A u \in User :
       balances[u] = SumFunction([i \in 1 .. Len(logs) |-> Effect(logs[i], u)])
                     - SumFunction([c \in {d \in InProgress : outs[d].from = u} |->
                                      outs[c].amount + Fee])
  /\ total_supply = SumFunction(balances)

(* No block is credited twice, however often the CMC is asked, and only    *)
(* for cycles that the CMC minted.                                         *)
MintedOncePerBlock ==
  \A b \in 1 .. Len(icp_blocks) :
    /\ Cardinality(Credited(b)) <= 1
    /\ Credited(b) # {} => icp_blocks[b] = "minted"

(* A user's ICP are never forgotten: a block that is neither credited nor  *)
(* sent back is kept by exactly one entry or execution, and one that was   *)
(* credited by none.                                                       *)
KeepersOf(b) ==
  {u \in User : IF minting[u].pc # "idle" THEN minting[u].block = b
                ELSE users_mint_cycles[u] # None /\ users_mint_cycles[u].block = b}
BlocksKept ==
  \A b \in 1 .. Len(icp_blocks) :
    /\ Credited(b) = {} /\ icp_blocks[b] # "refunded" => Cardinality(KeepersOf(b)) = 1
    /\ Credited(b) # {} => KeepersOf(b) = {}

(* An entry is locked exactly while mint_cycles_ works on it, and one that *)
(* waits to be completed has its block: no user stays locked out.          *)
MintsLocked ==
  /\ \A u \in User :
       IF minting[u].pc # "idle"
       THEN users_mint_cycles[u] # None /\ users_mint_cycles[u].lock
       ELSE users_mint_cycles[u] # None =>
              ~users_mint_cycles[u].lock /\ users_mint_cycles[u].block # None
  /\ Cardinality({u \in User : users_mint_cycles[u] # None}) <= MaxMints

(* What is kept of the mints in progress and of those that wait.           *)
MintsInv == BlocksKept /\ MintsLocked

(* What a user has read who asks for the logs before the first one that he *)
(* has, until he gets the last chunk.                                      *)
LogsRead(u) ==
  LET More(read, before) ==
        LET page == GetLogsBackwards(u, before)
        IN [logs |-> page.logs \o read, last |-> page.is_last_chunk]
      got[n \in 0 .. Len(logs)] ==
        IF n = 0 THEN More(<<>>, None)
        ELSE IF got[n - 1].last THEN got[n - 1]
        ELSE More(got[n - 1].logs, Head(got[n - 1].logs))
  IN got[Len(logs)]

(* He gets all of his logs since the last clearing of the pointers, once   *)
(* each and in order, and knows when he has them.                          *)
PagesFindAllLogs ==
  \A u \in User :
    LET read == LogsRead(u)
    IN /\ read.last
       /\ \A i, j \in 1 .. Len(read.logs) : i < j => read.logs[i] < read.logs[j]
       /\ Range(read.logs) =
            {i \in cleared .. Len(logs) - 1 : u \in {logs[i + 1].from, logs[i + 1].to}}
=============================================================================
