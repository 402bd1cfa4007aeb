------------------------------ MODULE BankProofs ------------------------------
(***************************************************************************)
(* No block of ICP is credited twice, and none is lost; every cycle of the *)
(* bank is accounted for, and the logs replay to the balances: for every   *)
(* number of users, calls, mints, logs and blocks.                         *)
(*                                                                         *)
(* The argument about the blocks is about three things only: which block   *)
(* each user has in work (in a mint in progress or in the entry that       *)
(* waits), what the CMC did with the blocks, and which blocks the logs     *)
(* credit.  The one about the accounts adds up the sums of the properties  *)
(* with the lemmas of Sums, one step at a time.                            *)
(***************************************************************************)
EXTENDS Bank, Sums, TLAPS, FiniteSetTheorems

BlockStatus == {"new", "minted", "refunded", "refused"}

MintTypes ==
  /\ users_mint_cycles \in [User -> MidCallType \cup {None}]
  /\ minting \in [User -> MintingType]
  /\ icp_blocks \in Seq(BlockStatus)
  /\ logs \in Seq(LogType)
  /\ outs \in [Call -> OutType \cup {None}]

(* The block that a user has in work. *)
BlockOf(entry, mint) ==
  IF mint.pc # "idle" THEN mint.block
  ELSE IF entry # None THEN entry.block ELSE None
InWork == [u \in User |-> BlockOf(users_mint_cycles[u], minting[u])]

(* What is true of the entry of a user and the execution for that user. *)
MintShape(entry, mint, blocks) ==
  /\ mint.pc = "idle" => (entry # None => ~entry.lock /\ entry.block # None)
  /\ mint.pc # "idle" => entry # None /\ entry.lock /\ mint.to \in User
  /\ mint.pc = "transfer" =>
       mint.answer \in {None, "ok", "err"} /\ (mint.block # None <=> mint.answer = "ok")
  /\ mint.pc = "notify" =>
       /\ mint.block # None
       /\ mint.answer \in {"minted", "refunded"} => blocks[mint.block] = mint.answer
MintShapes == \A u \in User : MintShape(users_mint_cycles[u], minting[u], icp_blocks)

(* A block is in the work of one user at most, and of none once a log      *)
(* credits it; the logs credit it once, if the CMC minted; and a block     *)
(* that is neither in work nor credited was sent back.                     *)
BlocksInv(work, blocks, lgs) ==
  /\ \A u \in User : work[u] # None => work[u] \in 1 .. Len(blocks)
  /\ \A u, v \in User : work[u] # None /\ work[u] = work[v] => u = v
  /\ \A i \in 1 .. Len(lgs) : lgs[i].block # None =>
       /\ lgs[i].block \in 1 .. Len(blocks) /\ blocks[lgs[i].block] = "minted"
       /\ \A u \in User : work[u] # lgs[i].block
  /\ \A i, j \in 1 .. Len(lgs) : lgs[i].block # None /\ lgs[i].block = lgs[j].block => i = j
  /\ \A b \in 1 .. Len(blocks) : blocks[b] # "refunded" =>
       \/ \E u \in User : work[u] = b
       \/ \E i \in 1 .. Len(lgs) : lgs[i].block = b

Entries == {u \in User : users_mint_cycles[u] # None}
EntriesBounded == IsFiniteSet(Entries) /\ Cardinality(Entries) <= MaxMints

(* The inductive invariant. *)
MintInv == MintTypes /\ MintShapes /\ BlocksInv(InWork, icp_blocks, logs) /\ EntriesBounded

----------------------------------------------------------------------------
(* The four ways in which a step changes the blocks in work.               *)

(* Logs that credit no block are added, and nothing else happens. *)
LEMMA WorkKept ==
  ASSUME NEW work, NEW blocks \in Seq(BlockStatus), NEW lgs \in Seq(LogType),
         BlocksInv(work, blocks, lgs),
         NEW log \in LogType, log.block = None
  PROVE  BlocksInv(work, blocks, Append(lgs, log))
BY DEF BlocksInv

(* The ICP ledger made a transfer for a user without a block. *)
LEMMA WorkTaken ==
  ASSUME NEW work \in [User -> Nat \cup {None}],
         NEW blocks \in Seq(BlockStatus), NEW lgs \in Seq(LogType),
         BlocksInv(work, blocks, lgs), NEW u \in User, work[u] = None
  PROVE  BlocksInv([work EXCEPT ![u] = Len(blocks) + 1], Append(blocks, "new"), lgs)
<1> DEFINE taken == [work EXCEPT ![u] = Len(blocks) + 1]
           more  == Append(blocks, "new")
<1>1. /\ Len(blocks) \in Nat /\ Len(more) = Len(blocks) + 1
      /\ more[Len(blocks) + 1] = "new"
      /\ \A b \in 1 .. Len(blocks) : more[b] = blocks[b]
  OBVIOUS
<1>2. Len(blocks) + 1 # None
  BY <1>1, BankAssumption
<1>3. taken[u] = Len(blocks) + 1 /\ \A v \in User : v # u => taken[v] = work[v]
  OBVIOUS
<1>4. \A v \in User : taken[v] # None => taken[v] \in 1 .. Len(more)
  BY <1>1, <1>3 DEF BlocksInv
<1>5. \A v, w \in User : taken[v] # None /\ taken[v] = taken[w] => v = w
  BY <1>1, <1>3 DEF BlocksInv
<1>6. \A i \in 1 .. Len(lgs) : lgs[i].block # None =>
        /\ lgs[i].block \in 1 .. Len(more) /\ more[lgs[i].block] = "minted"
        /\ \A v \in User : taken[v] # lgs[i].block
  BY <1>1, <1>3 DEF BlocksInv
<1>7. \A b \in 1 .. Len(more) : more[b] # "refunded" =>
        (\E v \in User : taken[v] = b) \/ (\E i \in 1 .. Len(lgs) : lgs[i].block = b)
  <2> SUFFICES ASSUME NEW b \in 1 .. Len(more), more[b] # "refunded",
                      ~ \E i \in 1 .. Len(lgs) : lgs[i].block = b
               PROVE  \E v \in User : taken[v] = b
    OBVIOUS
  <2>1. CASE b = Len(blocks) + 1
    BY <2>1, <1>3
  <2>2. CASE b # Len(blocks) + 1
    <3>1. b \in 1 .. Len(blocks) /\ blocks[b] # "refunded"
      BY <2>2, <1>1
    <3>2. PICK v \in User : work[v] = b
      BY <3>1 DEF BlocksInv
    <3>3. v # u
      BY <3>1, <3>2, BankAssumption
    <3> QED
      BY <3>2, <3>3, <1>3
  <2> QED
    BY <2>1, <2>2
<1> HIDE DEF taken, more
<1>8. BlocksInv(taken, more, lgs)
  BY <1>4, <1>5, <1>6, <1>7 DEF BlocksInv
<1> QED
  BY <1>8 DEF taken, more

(* The CMC processes a block. *)
LEMMA WorkProcessed ==
  ASSUME NEW work, NEW blocks \in Seq(BlockStatus), NEW lgs \in Seq(LogType),
         BlocksInv(work, blocks, lgs),
         NEW b \in 1 .. Len(blocks), blocks[b] = "new", NEW what \in BlockStatus
  PROVE  BlocksInv(work, [blocks EXCEPT ![b] = what], lgs)
<1> DEFINE more == [blocks EXCEPT ![b] = what]
<1>1. /\ Len(more) = Len(blocks)
      /\ \A c \in 1 .. Len(blocks) : c # b => more[c] = blocks[c]
  OBVIOUS
<1>2. \A i \in 1 .. Len(lgs) : lgs[i].block # None => lgs[i].block # b
  BY DEF BlocksInv
<1>3. blocks[b] # "refunded"
  OBVIOUS
<1> HIDE DEF more
<1>4. \A c \in 1 .. Len(more) : more[c] # "refunded" =>
        (\E u \in User : work[u] = c) \/ (\E i \in 1 .. Len(lgs) : lgs[i].block = c)
  BY <1>1, <1>3 DEF BlocksInv
<1>5. BlocksInv(work, more, lgs)
  BY <1>1, <1>2, <1>4 DEF BlocksInv
<1> QED
  BY <1>5 DEF more

(* The block of a user is done: credited by a log, or sent back. *)
LEMMA WorkCredited ==
  ASSUME NEW work \in [User -> Nat \cup {None}],
         NEW blocks \in Seq(BlockStatus), NEW lgs \in Seq(LogType),
         BlocksInv(work, blocks, lgs),
         NEW u \in User, work[u] # None, blocks[work[u]] = "minted",
         NEW log \in LogType, log.block = work[u]
  PROVE  BlocksInv([work EXCEPT ![u] = None], blocks, Append(lgs, log))
<1> DEFINE done == [work EXCEPT ![u] = None]
           more == Append(lgs, log)
<1>1. /\ Len(lgs) \in Nat /\ Len(more) = Len(lgs) + 1
      /\ more[Len(lgs) + 1] = log
      /\ \A i \in 1 .. Len(lgs) : more[i] = lgs[i]
  OBVIOUS
<1>2. done[u] = None /\ \A v \in User : v # u => done[v] = work[v]
  OBVIOUS
<1> HIDE DEF done, more
<1>3. \A v \in User : done[v] # None => done[v] \in 1 .. Len(blocks)
  BY <1>2 DEF BlocksInv
<1>4. \A v, w \in User : done[v] # None /\ done[v] = done[w] => v = w
  BY <1>2 DEF BlocksInv
<1>5. \A v \in User : done[v] # work[u]
  BY <1>2 DEF BlocksInv
<1>6. \A i \in 1 .. Len(lgs) : lgs[i].block # None => lgs[i].block # work[u]
  BY DEF BlocksInv
<1>7. \A i \in 1 .. Len(more) : more[i].block # None =>
        /\ more[i].block \in 1 .. Len(blocks) /\ blocks[more[i].block] = "minted"
        /\ \A v \in User : done[v] # more[i].block
  <2> SUFFICES ASSUME NEW i \in 1 .. Len(more), more[i].block # None
               PROVE  /\ more[i].block \in 1 .. Len(blocks) /\ blocks[more[i].block] = "minted"
                      /\ \A v \in User : done[v] # more[i].block
    OBVIOUS
  <2>1. CASE i = Len(lgs) + 1
    BY <2>1, <1>1, <1>5 DEF BlocksInv
  <2>2. CASE i # Len(lgs) + 1
    <3>1. i \in 1 .. Len(lgs) /\ more[i] = lgs[i]
      BY <2>2, <1>1
    <3> QED
      BY <3>1, <1>2 DEF BlocksInv
  <2> QED
    BY <2>1, <2>2
<1>8. \A i, j \in 1 .. Len(more) :
        more[i].block # None /\ more[i].block = more[j].block => i = j
  BY <1>1, <1>6 DEF BlocksInv
<1>9. \A b \in 1 .. Len(blocks) : blocks[b] # "refunded" =>
        (\E v \in User : done[v] = b) \/ (\E i \in 1 .. Len(more) : more[i].block = b)
  <2> SUFFICES ASSUME NEW b \in 1 .. Len(blocks), blocks[b] # "refunded"
               PROVE  (\E v \in User : done[v] = b) \/ (\E i \in 1 .. Len(more) : more[i].block = b)
    OBVIOUS
  <2>1. CASE b = work[u]
    BY <2>1, <1>1
  <2>2. ASSUME NEW v \in User, work[v] = b, v # u
        PROVE  \E w \in User : done[w] = b
    BY <2>2, <1>2
  <2>3. ASSUME NEW i \in 1 .. Len(lgs), lgs[i].block = b
        PROVE  \E j \in 1 .. Len(more) : more[j].block = b
    <3>1. i \in 1 .. Len(more) /\ more[i] = lgs[i]
      BY <1>1
    <3> QED
      BY <3>1, <2>3
  <2> QED
    BY <2>1, <2>2, <2>3 DEF BlocksInv
<1>10. BlocksInv(done, blocks, more)
  BY <1>3, <1>4, <1>7, <1>8, <1>9 DEF BlocksInv
<1> QED
  BY <1>10 DEF done, more

LEMMA WorkRefunded ==
  ASSUME NEW work \in [User -> Nat \cup {None}], NEW blocks, NEW lgs,
         BlocksInv(work, blocks, lgs),
         NEW u \in User, work[u] # None => blocks[work[u]] = "refunded"
  PROVE  BlocksInv([work EXCEPT ![u] = None], blocks, lgs)
<1> DEFINE done == [work EXCEPT ![u] = None]
<1>1. done[u] = None /\ \A v \in User : v # u => done[v] = work[v]
  OBVIOUS
<1> HIDE DEF done
<1>2. \A b \in 1 .. Len(blocks) : blocks[b] # "refunded" =>
        (\E v \in User : done[v] = b) \/ (\E i \in 1 .. Len(lgs) : lgs[i].block = b)
  BY <1>1, BankAssumption DEF BlocksInv
<1>3. BlocksInv(done, blocks, lgs)
  BY <1>1, <1>2 DEF BlocksInv
<1> QED
  BY <1>3 DEF done

----------------------------------------------------------------------------
(* Steps that change the entry and the execution of one user.              *)

Becomes(u, entry, mint) ==
  /\ users_mint_cycles' = [users_mint_cycles EXCEPT ![u] = entry]
  /\ minting' = [minting EXCEPT ![u] = mint]

LEMMA WorkType ==
  ASSUME MintTypes
  PROVE  InWork \in [User -> Nat \cup {None}]
BY DEF MintTypes, InWork, BlockOf, MidCallType, MintingType

LEMMA StepWork ==
  ASSUME MintTypes, NEW u \in User, NEW entry \in MidCallType \cup {None},
         NEW mint \in MintingType, Becomes(u, entry, mint)
  PROVE  /\ InWork' = [InWork EXCEPT ![u] = BlockOf(entry, mint)]
         /\ users_mint_cycles' \in [User -> MidCallType \cup {None}]
         /\ minting' \in [User -> MintingType]
BY DEF MintTypes, InWork, Becomes

LEMMA StepWorkKept ==
  ASSUME MintTypes, NEW u \in User, NEW entry \in MidCallType \cup {None},
         NEW mint \in MintingType, Becomes(u, entry, mint),
         BlockOf(entry, mint) = InWork[u]
  PROVE  InWork' = InWork
<1>1. InWork' = [InWork EXCEPT ![u] = InWork[u]]
  BY StepWork
<1>2. u \in DOMAIN InWork /\ InWork = [v \in DOMAIN InWork |-> InWork[v]]
  BY DEF InWork
<1> QED
  BY ONLY <1>1, <1>2

(* The blocks that the CMC is done with stay as they are. *)
BlocksStay == \A b \in 1 .. Len(icp_blocks) :
                icp_blocks[b] \in {"minted", "refunded"} => icp_blocks'[b] = icp_blocks[b]

LEMMA ShapeStays ==
  ASSUME MintInv, NEW u \in User, BlocksStay
  PROVE  MintShape(users_mint_cycles[u], minting[u], icp_blocks')
<1>1. MintShape(users_mint_cycles[u], minting[u], icp_blocks)
  BY DEF MintInv, MintShapes
<1>2. ASSUME minting[u].pc = "notify", minting[u].answer \in {"minted", "refunded"}
      PROVE  icp_blocks'[minting[u].block] = minting[u].answer
  <2>1. InWork[u] = minting[u].block
    BY <1>2 DEF InWork, BlockOf
  <2>2. minting[u].block \in 1 .. Len(icp_blocks)
    BY <1>1, <1>2, <2>1 DEF MintShape, MintInv, BlocksInv
  <2> QED
    BY <1>1, <1>2, <2>2 DEF MintShape, BlocksStay
<1> QED
  BY <1>1, <1>2 DEF MintShape

LEMMA StepShapes ==
  ASSUME MintInv, NEW u \in User, NEW entry \in MidCallType \cup {None},
         NEW mint \in MintingType, Becomes(u, entry, mint), BlocksStay,
         MintShape(entry, mint, icp_blocks')
  PROVE  MintShapes'
<1> SUFFICES ASSUME NEW v \in User
             PROVE  MintShape(users_mint_cycles'[v], minting'[v], icp_blocks')
  BY DEF MintShapes
<1>1. CASE v = u
  BY <1>1 DEF Becomes, MintInv, MintTypes
<1>2. CASE v # u
  <2>1. users_mint_cycles'[v] = users_mint_cycles[v] /\ minting'[v] = minting[v]
    BY <1>2 DEF Becomes, MintInv, MintTypes
  <2> QED
    BY <2>1, ShapeStays
<1> QED
  BY <1>1, <1>2

LEMMA StepEntries ==
  ASSUME MintInv, NEW u \in User, NEW entry \in MidCallType \cup {None},
         users_mint_cycles' = [users_mint_cycles EXCEPT ![u] = entry],
         entry = None \/ users_mint_cycles[u] # None
  PROVE  EntriesBounded'
<1>1. Entries' \in SUBSET Entries
  BY DEF Entries, MintInv, MintTypes
<1>2. IsFiniteSet(Entries) /\ Cardinality(Entries) <= MaxMints
  BY DEF MintInv, EntriesBounded
<1>3. IsFiniteSet(Entries') /\ Cardinality(Entries') <= Cardinality(Entries)
  BY <1>1, <1>2, FS_Subset
<1>4. Cardinality(Entries) \in Nat /\ Cardinality(Entries') \in Nat
  BY <1>2, <1>3, FS_CardinalityType
<1> QED
  BY <1>2, <1>3, <1>4, BankAssumption DEF EntriesBounded

(* A step that does nothing to the mints, and credits no block.            *)
LEMMA NoMint ==
  ASSUME MintInv, UNCHANGED <<users_mint_cycles, minting, icp_blocks>>,
         outs' \in [Call -> OutType \cup {None}],
         \/ logs' = logs
         \/ \E log \in LogType : log.block = None /\ logs' = Append(logs, log)
  PROVE  MintInv'
<1>1. logs' \in Seq(LogType)
  BY DEF MintInv, MintTypes
<1>2. MintTypes'
  BY <1>1 DEF MintInv, MintTypes
<1>3. MintShapes' /\ EntriesBounded' /\ InWork' = InWork
  BY DEF MintInv, MintShapes, EntriesBounded, Entries, InWork
<1>4. BlocksInv(InWork, icp_blocks, logs')
  BY WorkKept DEF MintInv, MintTypes
<1> QED
  BY <1>2, <1>3, <1>4 DEF MintInv

(* A step of a user's mint in which the work stays the same.               *)
LEMMA SameWork ==
  ASSUME MintInv, NEW u \in User, NEW entry \in MidCallType \cup {None},
         NEW mint \in MintingType, Becomes(u, entry, mint),
         BlockOf(entry, mint) = InWork[u], MintShape(entry, mint, icp_blocks),
         UNCHANGED <<icp_blocks, logs, outs>>
  PROVE  MintTypes' /\ MintShapes' /\ BlocksInv(InWork', icp_blocks', logs')
<1>1. InWork' = InWork
  BY StepWorkKept DEF MintInv
<1>2. MintTypes'
  BY StepWork DEF MintInv, MintTypes
<1>3. BlocksStay
  BY DEF BlocksStay
<1>4. MintShapes'
  BY <1>3, StepShapes
<1> QED
  BY <1>1, <1>2, <1>4 DEF MintInv

----------------------------------------------------------------------------
(* The actions *)

LEMMA InitMints == Init => MintInv
<1> SUFFICES ASSUME Init
             PROVE  MintInv
  OBVIOUS
<1>1. MintTypes
  BY DEF Init, MintTypes, NotMinting, MintingType
<1>2. MintShapes
  BY DEF Init, MintShapes, MintShape, NotMinting
<1>3. BlocksInv(InWork, icp_blocks, logs)
  BY DEF Init, BlocksInv, InWork, BlockOf, NotMinting
<1>4. Entries = {}
  BY DEF Init, Entries
<1>5. EntriesBounded
  BY <1>4, FS_EmptySet, BankAssumption DEF EntriesBounded
<1> QED
  BY <1>1, <1>2, <1>3, <1>5 DEF MintInv

LEMMA LedgerMints ==
  ASSUME MintInv,
         \/ \E u, v \in User, n \in Amount : icrc1_transfer(u, v, n)
         \/ \E u \in User, n \in Amount : cycles_in(u, n)
         \/ controller_clear_user_logs_pointers_cache
  PROVE  MintInv'
<1>0. outs \in [Call -> OutType \cup {None}]
  BY DEF MintInv, MintTypes
<1>1. ASSUME NEW u \in User, NEW v \in User, NEW n \in Amount, icrc1_transfer(u, v, n)
      PROVE  MintInv'
  <2> DEFINE log == [op |-> "xfer", from |-> u, to |-> v, amt |-> n, block |-> None]
  <2>1. log \in LogType /\ log.block = None
    BY BankAssumption DEF LogType
  <2> QED
    BY <1>0, <1>1, <2>1, NoMint DEF icrc1_transfer, PushLog, mintVars
<1>2. ASSUME NEW u \in User, NEW n \in Amount, cycles_in(u, n)
      PROVE  MintInv'
  <2> DEFINE log == [op |-> "mint", from |-> None, to |-> u, amt |-> n, block |-> None]
  <2>1. log \in LogType /\ log.block = None
    BY BankAssumption DEF LogType
  <2> QED
    BY <1>0, <1>2, <2>1, NoMint DEF cycles_in, PushLog, mintVars
<1>3. ASSUME controller_clear_user_logs_pointers_cache
      PROVE  MintInv'
  BY <1>0, <1>3, NoMint DEF controller_clear_user_logs_pointers_cache, mintVars
<1> QED
  BY <1>1, <1>2, <1>3

LEMMA OutMints ==
  ASSUME MintInv, NEW c \in Call,
         \/ \E u \in User, n \in Amount : CyclesOut(c, u, n)
         \/ DepositCycles(c) \/ DepositFails(c) \/ CyclesOutReturns(c)
  PROVE  MintInv'
<1>0. outs \in [Call -> OutType \cup {None}]
  BY DEF MintInv, MintTypes
<1>1. ASSUME NEW u \in User, NEW n \in Amount, CyclesOut(c, u, n)
      PROVE  MintInv'
  <2>1. [from |-> u, amount |-> n, answer |-> None] \in OutType
    BY BankAssumption DEF OutType
  <2> QED
    BY <1>0, <1>1, <2>1, NoMint DEF CyclesOut, mintVars
<1>2. ASSUME NEW answer \in {"ok", "err"}, outs[c] # None,
             outs' = [outs EXCEPT ![c].answer = answer]
      PROVE  outs' \in [Call -> OutType \cup {None}]
  <2>1. outs[c] \in OutType
    BY <1>0, <1>2
  <2>2. [outs[c] EXCEPT !.answer = answer] \in OutType
    BY <2>1 DEF OutType
  <2> QED
    BY <1>0, <1>2, <2>2
<1>3. ASSUME DepositCycles(c)
      PROVE  MintInv'
  BY <1>2, <1>3, NoMint DEF DepositCycles, ledgerVars, mintVars
<1>4. ASSUME DepositFails(c)
      PROVE  MintInv'
  BY <1>2, <1>4, NoMint DEF DepositFails, ledgerVars, mintVars
<1>5. ASSUME CyclesOutReturns(c)
      PROVE  MintInv'
  <2> DEFINE log == [op |-> "burn", from |-> outs[c].from, to |-> None,
                     amt |-> BurnAmount(outs[c]), block |-> None]
  <2>1. outs[c] \in OutType
    BY <1>0, <1>5 DEF CyclesOutReturns
  <2>2. log \in LogType /\ log.block = None
    BY <2>1, BankAssumption DEF LogType, OutType, BurnAmount
  <2>3. outs' \in [Call -> OutType \cup {None}]
    BY <1>0, <1>5 DEF CyclesOutReturns
  <2>4. logs' = logs \/ logs' = Append(logs, log)
    BY <1>5 DEF CyclesOutReturns, PushLog
  <2> QED
    BY <1>5, <2>2, <2>3, <2>4, NoMint DEF CyclesOutReturns, mintVars
<1> QED
  BY <1>1, <1>3, <1>4, <1>5

LEMMA MintCyclesMints ==
  ASSUME MintInv, NEW u \in User, NEW to \in User, MintCycles(u, to)
  PROVE  MintInv'
<1> DEFINE entry == MidCall(TRUE, to, None)
           mint  == [NotMinting EXCEPT !.pc = "transfer", !.to = to]
<1>1. entry \in MidCallType /\ mint \in MintingType /\ Becomes(u, entry, mint)
  BY DEF MintCycles, Becomes, MidCall, MidCallType, NotMinting, MintingType
<1>2. users_mint_cycles[u] = None /\ minting[u].pc = "idle"
  BY DEF MintCycles, MintInv, MintShapes, MintShape
<1>3. InWork[u] = None /\ BlockOf(entry, mint) = None
  BY <1>2 DEF InWork, BlockOf, NotMinting
<1>4. entry # None
  BY <1>1, BankAssumption
<1>5. MintShape(entry, mint, icp_blocks)
  BY <1>4, BankAssumption DEF MintShape, MidCall, NotMinting
<1>6. UNCHANGED <<icp_blocks, logs, outs>>
  BY DEF MintCycles, ledgerVars
<1>7. MintTypes' /\ MintShapes' /\ BlocksInv(InWork', icp_blocks', logs')
  BY <1>1, <1>3, <1>5, <1>6, SameWork
<1>8. Entries' = Entries \cup {u}
  BY <1>1, <1>4 DEF Becomes, Entries, MintInv, MintTypes
<1>9. Cardinality(Entries) < MaxMints /\ IsFiniteSet(Entries) /\ u \notin Entries
  BY <1>2 DEF MintCycles, Entries, MintInv, EntriesBounded
<1>10. Cardinality(Entries) \in Nat
  BY <1>9, FS_CardinalityType
<1>11. IsFiniteSet(Entries \cup {u}) /\ Cardinality(Entries \cup {u}) = Cardinality(Entries) + 1
  BY <1>9, FS_AddElement
<1>12. EntriesBounded'
  BY <1>8, <1>9, <1>10, <1>11, BankAssumption DEF EntriesBounded
<1> QED
  BY <1>7, <1>12 DEF MintInv

(* What is known of a user's mint in progress. *)
LEMMA MintKnown ==
  ASSUME MintInv, NEW u \in User, minting[u].pc # "idle"
  PROVE  /\ minting[u] \in MintingType
         /\ users_mint_cycles[u] \in MidCallType /\ users_mint_cycles[u] # None
         /\ MintShape(users_mint_cycles[u], minting[u], icp_blocks)
         /\ InWork[u] = minting[u].block
         /\ BlockOf(users_mint_cycles[u], minting[u]) = minting[u].block
BY DEF MintInv, MintTypes, MintShapes, MintShape, InWork, BlockOf

LEMMA IcpTransferMints ==
  ASSUME MintInv, NEW u \in User, IcpTransfer(u)
  PROVE  MintInv'
<1> DEFINE block == Len(icp_blocks) + 1
           mint  == [minting[u] EXCEPT !.answer = "ok", !.block = block]
<1>1. minting[u].pc = "transfer" /\ minting[u].answer = None
  BY DEF IcpTransfer
<1>2. block \in Nat /\ icp_blocks' = Append(icp_blocks, "new")
  BY DEF IcpTransfer, MintInv, MintTypes
<1>3. mint \in MintingType
  <2>1. minting[u] \in MintingType
    BY <1>1, MintKnown
  <2> HIDE DEF block
  <2> QED
    BY <1>2, <2>1 DEF MintingType
<1>4. users_mint_cycles[u] \in MidCallType \cup {None}
  BY DEF MintInv, MintTypes
<1>5. Becomes(u, users_mint_cycles[u], mint)
  BY DEF IcpTransfer, Becomes, MintInv, MintTypes
<1>6. InWork[u] = None
  BY <1>1, MintKnown, BankAssumption DEF MintShape
<1>7. BlockOf(users_mint_cycles[u], mint) = block
  BY <1>1 DEF BlockOf
<1>8. InWork' = [InWork EXCEPT ![u] = block]
  BY <1>3, <1>4, <1>5, <1>7, StepWork DEF MintInv
<1>9. BlocksInv(InWork', icp_blocks', logs')
  <2>1. BlocksInv([InWork EXCEPT ![u] = block], Append(icp_blocks, "new"), logs)
    BY <1>6, WorkType, WorkTaken DEF MintInv, MintTypes
  <2> QED
    BY <1>2, <1>8, <2>1 DEF IcpTransfer, ledgerVars
<1>10. BlocksStay
  BY <1>2 DEF BlocksStay, MintInv, MintTypes
<1>11. MintShape(users_mint_cycles[u], mint, icp_blocks')
  <2>1. MintShape(users_mint_cycles[u], minting[u], icp_blocks)
    BY <1>1, MintKnown
  <2>2. mint.pc = "transfer" /\ mint.answer = "ok" /\ mint.block = block /\ mint.to = minting[u].to
    BY <1>1, <1>3, MintKnown DEF MintingType
  <2>3. block # None
    BY <1>2, BankAssumption
  <2> HIDE DEF mint, block
  <2> QED
    BY <1>1, <2>1, <2>2, <2>3 DEF MintShape
<1> HIDE DEF mint
<1>12. MintShapes'
  BY <1>3, <1>4, <1>5, <1>10, <1>11, StepShapes
<1>13. MintTypes'
  <2>1. icp_blocks' \in Seq(BlockStatus)
    BY <1>2 DEF MintInv, MintTypes, BlockStatus
  <2>2. /\ users_mint_cycles' \in [User -> MidCallType \cup {None}]
        /\ minting' \in [User -> MintingType]
    BY <1>3, <1>4, <1>5, StepWork DEF MintInv
  <2> QED
    BY <2>1, <2>2 DEF MintInv, MintTypes, IcpTransfer, ledgerVars
<1>14. EntriesBounded'
  BY DEF IcpTransfer, MintInv, EntriesBounded, Entries
<1> QED
  BY <1>9, <1>12, <1>13, <1>14 DEF MintInv

(* The entry of the user stays, and the block with it. *)
LEMMA EntryStays ==
  ASSUME MintInv, NEW u \in User, NEW mint \in MintingType,
         users_mint_cycles' = users_mint_cycles, minting' = [minting EXCEPT ![u] = mint],
         minting[u].pc # "idle", mint.pc # "idle", mint.block = minting[u].block,
         MintShape(users_mint_cycles[u], mint, icp_blocks),
         UNCHANGED <<icp_blocks, logs, outs>>
  PROVE  MintInv'
<1>1. users_mint_cycles[u] \in MidCallType \cup {None}
  BY DEF MintInv, MintTypes
<1>2. Becomes(u, users_mint_cycles[u], mint)
  BY DEF Becomes, MintInv, MintTypes
<1>3. BlockOf(users_mint_cycles[u], mint) = InWork[u]
  BY MintKnown DEF BlockOf
<1>4. EntriesBounded'
  BY DEF MintInv, EntriesBounded, Entries
<1> QED
  BY <1>1, <1>2, <1>3, <1>4, SameWork DEF MintInv

(* The execution stops, and its entry waits to be completed. *)
LEMMA StopMints ==
  ASSUME MintInv, NEW u \in User, StopHere(u),
         minting[u].pc # "idle", minting[u].block # None,
         UNCHANGED <<icp_blocks, logs, outs>>
  PROVE  MintInv'
<1>1. Kept(u) \in MidCallType /\ NotMinting \in MintingType
  BY MintKnown DEF Kept, MidCall, MidCallType, NotMinting, MintingType, MintShape
<1>2. Becomes(u, Kept(u), NotMinting)
  BY DEF StopHere, Becomes
<1>3. Kept(u) # None
  BY <1>1, BankAssumption
<1>4. BlockOf(Kept(u), NotMinting) = InWork[u]
  BY <1>3, MintKnown DEF BlockOf, Kept, MidCall, NotMinting
<1>5. MintShape(Kept(u), NotMinting, icp_blocks)
  BY DEF MintShape, Kept, MidCall, NotMinting
<1>6. users_mint_cycles[u] # None
  BY MintKnown
<1>7. EntriesBounded'
  BY <1>1, <1>2, <1>6, StepEntries DEF Becomes
<1> QED
  BY <1>1, <1>2, <1>4, <1>5, <1>7, SameWork DEF MintInv

LEMMA IcpTransferReturnsMints ==
  ASSUME MintInv, NEW u \in User, IcpTransferReturns(u)
  PROVE  MintInv'
<1>1. minting[u].pc = "transfer" /\ minting[u].answer # None
  BY DEF IcpTransferReturns
<1>2. UNCHANGED <<icp_blocks, logs, outs>>
  BY DEF IcpTransferReturns, ledgerVars
<1>3. MintShape(users_mint_cycles[u], minting[u], icp_blocks)
  BY <1>1, MintKnown
<1>4. CASE minting[u].answer = "err"
  <2>1. GiveUp(u)
    BY <1>4 DEF IcpTransferReturns
  <2>2. None \in MidCallType \cup {None} /\ NotMinting \in MintingType
        /\ Becomes(u, None, NotMinting)
    BY <2>1 DEF GiveUp, Becomes, NotMinting, MintingType
  <2>3. minting[u].block = None
    BY <1>1, <1>3, <1>4 DEF MintShape
  <2>4. BlockOf(None, NotMinting) = InWork[u]
    BY <1>1, <2>3, MintKnown DEF BlockOf, NotMinting
  <2>5. MintShape(None, NotMinting, icp_blocks)
    BY DEF MintShape, NotMinting
  <2>6. EntriesBounded'
    BY <2>2, StepEntries DEF Becomes
  <2> QED
    BY <1>2, <2>2, <2>4, <2>5, <2>6, SameWork DEF MintInv
<1>5. CASE minting[u].answer # "err"
  <2>1. minting[u].block # None
    BY <1>1, <1>3, <1>5 DEF MintShape
  <2>2. CASE StopHere(u)
    BY <1>1, <1>2, <2>1, <2>2, StopMints
  <2>3. CASE ~StopHere(u)
    <3> DEFINE mint == [minting[u] EXCEPT !.pc = "notify", !.answer = None]
    <3>1. minting' = [minting EXCEPT ![u] = mint] /\ users_mint_cycles' = users_mint_cycles
      BY <1>5, <2>3 DEF IcpTransferReturns, MintInv, MintTypes
    <3>2. minting[u] \in MintingType
      BY <1>1, MintKnown
    <3>3. mint \in MintingType
      BY <3>2 DEF MintingType
    <3>4. /\ mint.pc = "notify" /\ mint.answer = None
          /\ mint.to = minting[u].to /\ mint.block = minting[u].block
      BY <3>2 DEF MintingType
    <3> HIDE DEF mint
    <3>5. MintShape(users_mint_cycles[u], mint, icp_blocks)
      BY <1>1, <1>3, <2>1, <3>4, BankAssumption DEF MintShape
    <3> QED
      BY <1>1, <1>2, <3>1, <3>3, <3>4, <3>5, EntryStays
  <2> QED
    BY <2>2, <2>3
<1> QED
  BY <1>4, <1>5

LEMMA CalleeMints ==
  ASSUME MintInv, NEW u \in User, IcpTransferFails(u) \/ CmcAnswers(u)
  PROVE  MintInv'
<1>1. PICK answer \in {"err", "minted", "refunded"} :
        /\ minting' = [minting EXCEPT ![u].answer = answer]
        /\ minting[u].pc = "transfer" /\ minting[u].answer = None => answer = "err"
        /\ answer \in {"minted", "refunded"} => icp_blocks[minting[u].block] = answer
  BY DEF IcpTransferFails, CmcAnswers
<1>2. minting[u].pc \in {"transfer", "notify"} /\ minting[u].answer = None
  BY DEF IcpTransferFails, CmcAnswers
<1>3. UNCHANGED <<users_mint_cycles, icp_blocks, logs, outs>>
  BY DEF IcpTransferFails, CmcAnswers, ledgerVars
<1>4. MintShape(users_mint_cycles[u], minting[u], icp_blocks) /\ minting[u] \in MintingType
  BY <1>2, MintKnown
<1> DEFINE mint == [minting[u] EXCEPT !.answer = answer]
<1>5. minting' = [minting EXCEPT ![u] = mint]
  BY <1>1
<1>6. mint \in MintingType
  BY <1>4 DEF MintingType
<1>7. /\ mint.pc = minting[u].pc /\ mint.answer = answer
      /\ mint.to = minting[u].to /\ mint.block = minting[u].block
  BY <1>4 DEF MintingType
<1> HIDE DEF mint
<1>8. MintShape(users_mint_cycles[u], mint, icp_blocks)
  BY <1>1, <1>2, <1>4, <1>7, BankAssumption DEF MintShape
<1> QED
  BY <1>2, <1>3, <1>5, <1>6, <1>7, <1>8, EntryStays

LEMMA CmcProcessesMints ==
  ASSUME MintInv, NEW b \in 1 .. Len(icp_blocks), CmcProcesses(b)
  PROVE  MintInv'
<1>1. PICK what \in {"minted", "refunded", "refused"} :
        icp_blocks' = [icp_blocks EXCEPT ![b] = what]
  BY DEF CmcProcesses
<1>2. icp_blocks[b] = "new" /\ UNCHANGED <<users_mint_cycles, minting, logs, outs>>
  BY DEF CmcProcesses, ledgerVars
<1>3. icp_blocks' \in Seq(BlockStatus) /\ BlocksStay
  BY <1>1, <1>2 DEF BlocksStay, MintInv, MintTypes, BlockStatus
<1>4. MintTypes'
  BY <1>2, <1>3 DEF MintInv, MintTypes
<1>5. MintShapes'
  BY <1>2, <1>3, ShapeStays DEF MintShapes
<1>6. BlocksInv(InWork, icp_blocks', logs)
  BY <1>1, <1>2, WorkProcessed DEF MintInv, MintTypes, BlockStatus
<1>7. InWork' = InWork /\ EntriesBounded'
  BY <1>2 DEF MintInv, InWork, EntriesBounded, Entries
<1> QED
  BY <1>2, <1>4, <1>5, <1>6, <1>7 DEF MintInv

(* The entry is removed with the credit, or because the ICP were sent back. *)
LEMMA GiveUpMints ==
  ASSUME MintInv, NEW u \in User, GiveUp(u), minting[u].pc = "notify",
         UNCHANGED <<icp_blocks, outs>>,
         logs' \in Seq(LogType),
         BlocksInv([InWork EXCEPT ![u] = None], icp_blocks, logs')
  PROVE  MintInv'
<1>1. None \in MidCallType \cup {None} /\ NotMinting \in MintingType
      /\ Becomes(u, None, NotMinting)
  BY DEF GiveUp, Becomes, NotMinting, MintingType
<1>2. BlockOf(None, NotMinting) = None /\ MintShape(None, NotMinting, icp_blocks')
  BY DEF BlockOf, NotMinting, MintShape
<1>3. InWork' = [InWork EXCEPT ![u] = None]
  <2>1. InWork' = [InWork EXCEPT ![u] = BlockOf(None, NotMinting)]
    BY <1>1, StepWork DEF MintInv
  <2> QED
    BY <1>2, <2>1
<1>4. BlocksStay
  BY DEF BlocksStay
<1>5. MintShapes'
  BY <1>1, <1>2, <1>4, StepShapes
<1>6. MintTypes'
  BY <1>1, StepWork DEF MintInv, MintTypes
<1>7. EntriesBounded'
  BY <1>1, StepEntries DEF Becomes
<1> QED
  BY <1>3, <1>5, <1>6, <1>7 DEF MintInv

LEMMA CmcNotifyReturnsMints ==
  ASSUME MintInv, NEW u \in User, CmcNotifyReturns(u)
  PROVE  MintInv'
<1>1. minting[u].pc = "notify" /\ UNCHANGED <<icp_blocks, outs>>
  BY DEF CmcNotifyReturns
<1>2. /\ minting[u].block # None /\ minting[u].to \in User
      /\ InWork[u] = minting[u].block
      /\ minting[u].block \in Nat
      /\ minting[u].answer \in {"minted", "refunded"} => icp_blocks[InWork[u]] = minting[u].answer
  BY <1>1, MintKnown DEF MintShape, MintingType
<1>3. CASE minting[u].answer = "minted" /\ Done(u) /\ logs' # logs
  <2> DEFINE log == [op |-> "mint", from |-> None, to |-> minting[u].to, amt |-> Minted,
                     block |-> minting[u].block]
  <2>1. Minted \in Nat
    BY BankAssumption DEF Minted, SatSub
  <2>2. log \in LogType /\ log.block = InWork[u]
    BY <1>2, <2>1 DEF LogType
  <2>3. logs' = Append(logs, log)
    BY <1>3, BankAssumption DEF CmcNotifyReturns, PushLog
  <2> HIDE DEF log
  <2>4. logs' \in Seq(LogType)
    BY <2>2, <2>3 DEF MintInv, MintTypes
  <2>5. BlocksInv([InWork EXCEPT ![u] = None], icp_blocks, logs')
    BY <1>2, <1>3, <2>2, <2>3, WorkType, WorkCredited DEF MintInv, MintTypes
  <2> QED
    BY <1>1, <1>3, <2>4, <2>5, GiveUpMints DEF Done
<1>4. CASE minting[u].answer = "refunded" /\ GiveUp(u) /\ logs' = logs
  <2>1. BlocksInv([InWork EXCEPT ![u] = None], icp_blocks, logs')
    BY <1>2, <1>4, WorkType, WorkRefunded DEF MintInv
  <2> QED
    BY <1>1, <1>4, <2>1, GiveUpMints DEF MintInv, MintTypes
<1>5. CASE StopHere(u) /\ logs' = logs
  BY <1>1, <1>2, <1>5, StopMints
<1>6. CASE minting[u].answer = "minted" /\ Done(u) /\ logs' = logs
  <2>1. logs' = Append(logs, [op |-> "mint", from |-> None, to |-> minting[u].to, amt |-> Minted,
                              block |-> minting[u].block])
    BY <1>6 DEF CmcNotifyReturns, PushLog
  <2>2. Len(logs') = Len(logs) + 1 /\ Len(logs) \in Nat
    BY <2>1 DEF MintInv, MintTypes
  <2> QED
    BY <1>6, <2>2
<1> QED
  BY <1>3, <1>4, <1>5, <1>6 DEF CmcNotifyReturns

LEMMA CompleteMints ==
  ASSUME MintInv, NEW u \in User, CompleteMintCycles(u)
  PROVE  MintInv'
<1>1. users_mint_cycles[u] \in MidCallType /\ users_mint_cycles[u] # None
      /\ ~users_mint_cycles[u].lock
  BY DEF CompleteMintCycles, MayComplete, MintInv, MintTypes
<1>2. minting[u].pc = "idle" /\ users_mint_cycles[u].block # None
  BY <1>1 DEF MintInv, MintTypes, MintShapes, MintShape, MintingType
<1> DEFINE entry == [users_mint_cycles[u] EXCEPT !.lock = TRUE]
           mint  == [pc |-> "notify", to |-> users_mint_cycles[u].to,
                     block |-> users_mint_cycles[u].block, answer |-> None]
<1>3. entry \in MidCallType /\ mint \in MintingType
  BY <1>1 DEF MidCallType, MintingType
<1>4. Becomes(u, entry, mint)
  BY <1>2 DEF CompleteMintCycles, Becomes
<1>5. entry # None /\ entry.lock
  BY <1>1, <1>3, BankAssumption DEF MidCallType
<1>6. BlockOf(entry, mint) = InWork[u]
  BY <1>1, <1>2 DEF BlockOf, InWork
<1>7. mint.to \in User
  BY <1>1 DEF MidCallType
<1>8. MintShape(entry, mint, icp_blocks)
  <2> HIDE DEF entry
  <2> QED
    BY <1>2, <1>5, <1>7, BankAssumption DEF MintShape
<1>9. UNCHANGED <<icp_blocks, logs, outs>>
  BY DEF CompleteMintCycles, ledgerVars
<1> HIDE DEF entry, mint
<1>10. EntriesBounded'
  BY <1>1, <1>3, <1>4, StepEntries DEF Becomes
<1> QED
  BY <1>3, <1>4, <1>6, <1>8, <1>9, <1>10, SameWork DEF MintInv

LEMMA NextMints ==
  ASSUME MintInv, [Next]_vars
  PROVE  MintInv'
<1>1. CASE UNCHANGED vars
  <2>1. outs' \in [Call -> OutType \cup {None}]
    BY <1>1 DEF MintInv, MintTypes, vars
  <2> QED
    BY <1>1, <2>1, NoMint DEF vars, ledgerVars, mintVars
<1>2. CASE Users
  BY <1>2, LedgerMints, OutMints, MintCyclesMints, CompleteMints DEF Users
<1>3. CASE Callees
  BY <1>3, OutMints, IcpTransferMints, CalleeMints, CmcProcessesMints DEF Callees
<1>4. CASE Returns
  BY <1>4, OutMints, IcpTransferReturnsMints, CmcNotifyReturnsMints DEF Returns
<1> QED
  BY <1>1, <1>2, <1>3, <1>4 DEF Next

(* The inductive invariant of the mints: which block of ICP each user has  *)
(* in work, and what each stage of mint_cycles knows of it.                *)
THEOREM MintInvariant == Spec => []MintInv
BY InitMints, NextMints, PTL DEF Spec

----------------------------------------------------------------------------
(* What the invariant says. *)

LEMMA OnlyOne ==
  ASSUME NEW S, \A x, y \in S : x = y
  PROVE  IsFiniteSet(S) /\ Cardinality(S) <= 1 /\ (S # {} => Cardinality(S) = 1)
<1>1. CASE S = {}
  BY <1>1, FS_EmptySet
<1>2. CASE S # {}
  <2>1. PICK x : S = {x}
    BY <1>2
  <2>2. IsFiniteSet(S) /\ Cardinality(S) = 1
    BY <2>1, FS_Singleton
  <2> QED
    BY <2>2
<1> QED
  BY <1>1, <1>2

LEMMA CreditedOnce == MintInv => MintedOncePerBlock
<1> SUFFICES ASSUME MintInv, NEW b \in 1 .. Len(icp_blocks)
             PROVE  /\ Cardinality(Credited(b)) <= 1
                    /\ Credited(b) # {} => icp_blocks[b] = "minted"
  BY DEF MintedOncePerBlock
<1>1. b # None
  BY BankAssumption DEF MintInv, MintTypes
<1>2. \A i, j \in Credited(b) : i = j
  BY <1>1 DEF Credited, MintInv, BlocksInv
<1>3. Credited(b) # {} => icp_blocks[b] = "minted"
  BY <1>1 DEF Credited, MintInv, BlocksInv
<1> QED
  BY <1>2, <1>3, OnlyOne

LEMMA MintsKept == MintInv => MintsInv
<1> SUFFICES ASSUME MintInv
             PROVE  MintsInv
  OBVIOUS
<1>1. ASSUME NEW b \in 1 .. Len(icp_blocks)
      PROVE  /\ Credited(b) = {} /\ icp_blocks[b] # "refunded" => Cardinality(KeepersOf(b)) = 1
             /\ Credited(b) # {} => KeepersOf(b) = {}
  <2>1. b # None
    BY BankAssumption DEF MintInv, MintTypes
  <2>2. KeepersOf(b) = {u \in User : InWork[u] = b}
    BY <2>1 DEF KeepersOf, InWork, BlockOf
  <2>3. \A u, v \in KeepersOf(b) : u = v
    BY <2>1, <2>2 DEF MintInv, BlocksInv
  <2>4. Credited(b) = {} /\ icp_blocks[b] # "refunded" => KeepersOf(b) # {}
    BY <2>2 DEF Credited, MintInv, BlocksInv
  <2>5. Credited(b) # {} => KeepersOf(b) = {}
    BY <2>1, <2>2 DEF Credited, MintInv, BlocksInv
  <2> QED
    BY <2>3, <2>4, <2>5, OnlyOne
<1>2. MintsLocked
  <2>1. \A u \in User : minting[u].pc # "idle" => users_mint_cycles[u] # None /\ users_mint_cycles[u].lock
    BY DEF MintInv, MintShapes, MintShape
  <2>2. \A u \in User : minting[u].pc = "idle" => (users_mint_cycles[u] # None =>
          ~users_mint_cycles[u].lock /\ users_mint_cycles[u].block # None)
    BY DEF MintInv, MintShapes, MintShape
  <2> QED
    BY <2>1, <2>2 DEF MintsLocked, MintInv, EntriesBounded, Entries
<1> QED
  BY <1>1, <1>2 DEF MintsInv, BlocksKept

(* No block of ICP is credited twice, and only if the CMC minted for it,   *)
(* however often and by whomever a mint is completed.                      *)
THEOREM CreditedOncePerBlock == Spec => []MintedOncePerBlock
BY CreditedOnce, MintInvariant, PTL

(* A block that is neither credited nor sent back is kept by exactly one   *)
(* user's entry or execution, entries are locked exactly while they are    *)
(* worked on, and there are never more of them than allowed.               *)
THEOREM NoBlockLost == Spec => []MintsInv
BY MintsKept, MintInvariant, PTL

----------------------------------------------------------------------------
(* The accounts: what the bank holds, and the balances as the logs tell.   *)

(* What a cycles_out in progress still keeps of the bank's cycles, and what *)
(* it took of a user's balance without a log.                              *)
Keeps(out) == IF out = None THEN 0
              ELSE IF out.answer = "err" THEN out.amount + Fee ELSE Fee
TakenOf(u, out) == IF out = None THEN 0 ELSE IF out.from = u THEN out.amount + Fee ELSE 0

KeptByOuts == SumFunction([c \in InProgress |->
                 IF outs[c].answer = "err" THEN outs[c].amount + Fee ELSE Fee])
TakenByOuts(u) == SumFunction([c \in {d \in InProgress : outs[d].from = u} |-> outs[c].amount + Fee])
Effects(u) == SumFunction([i \in 1 .. Len(logs) |-> Effect(logs[i], u)])

(* Blocks that the CMC minted for, and no log credits yet. *)
ToBeCredited == {b \in 1 .. Len(icp_blocks) : icp_blocks[b] = "minted" /\ Credited(b) = {}}

(* The fees of the logs, and what the bank holds for blocks. *)
FeesOfLogs == Fee * Len(logs)
HeldForBlocks == CmcCycles * Cardinality(ToBeCredited)

AccountTypes ==
  /\ balances \in [User -> Nat]
  /\ total_supply \in Nat
  /\ pointers \in [User -> Seq(Nat)]
  /\ canister_cycles \in Nat
  /\ cleared \in 0 .. Len(logs)
  /\ IsFiniteSet(InProgress)

(* The inductive invariant. *)
AccountsKept == MintInv /\ AccountTypes /\ CyclesAccounted /\ LogsReplayToBalances

LEMMA Accounts ==
  /\ CyclesAccounted <=>
       canister_cycles = total_supply + FeesOfLogs + KeptByOuts + HeldForBlocks
  /\ LogsReplayToBalances <=>
       /\ \A u \in User : balances[u] = Effects(u) - TakenByOuts(u)
       /\ total_supply = SumFunction(balances)
BY DEF CyclesAccounted, FeesOfLogs, KeptByOuts, HeldForBlocks, ToBeCredited,
       LogsReplayToBalances, Effects, TakenByOuts

LEMMA OutTypes ==
  ASSUME AccountsKept
  PROVE  /\ \A c \in InProgress : outs[c] \in OutType
         /\ KeptByOuts \in Nat /\ \A u \in User : TakenByOuts(u) \in Int
<1>1. \A c \in InProgress : outs[c] \in OutType
  BY DEF AccountsKept, MintInv, MintTypes, InProgress
<1>2. IsFiniteSet(InProgress)
  BY DEF AccountsKept, AccountTypes
<1>3. KeptByOuts \in Nat
  <2> DEFINE f == [c \in InProgress |-> IF outs[c].answer = "err" THEN outs[c].amount + Fee ELSE Fee]
  <2>1. \A c \in InProgress : f[c] \in Nat
    BY <1>1, BankAssumption DEF OutType
  <2>2. DOMAIN f = InProgress
    OBVIOUS
  <2> HIDE DEF f
  <2>3. SumFunction(f) \in Nat
    BY <1>2, <2>1, <2>2, SumType
  <2> QED
    BY <2>3 DEF f, KeptByOuts
<1>4. ASSUME NEW u \in User
      PROVE  TakenByOuts(u) \in Int
  <2> DEFINE D == {d \in InProgress : outs[d].from = u}
             f == [c \in D |-> outs[c].amount + Fee]
  <2>1. \A c \in D : f[c] \in Int
    BY <1>1, BankAssumption DEF OutType
  <2>2. DOMAIN f = D /\ D \in SUBSET InProgress
    OBVIOUS
  <2> HIDE DEF f, D
  <2>3. IsFiniteSet(D)
    BY <1>2, <2>2, FS_Subset
  <2>4. SumFunction(f) \in Int
    BY <2>1, <2>2, <2>3, SumType
  <2> QED
    BY <2>4 DEF f, D, TakenByOuts
<1> QED
  BY <1>1, <1>3, <1>4

(* One call comes, goes on or ends. *)
LEMMA OutsChange ==
  ASSUME AccountsKept, NEW c \in Call, NEW out \in OutType \cup {None},
         outs' = [outs EXCEPT ![c] = out]
  PROVE  /\ IsFiniteSet(InProgress')
         /\ KeptByOuts' = KeptByOuts - Keeps(outs[c]) + Keeps(out)
         /\ \A u \in User : TakenByOuts(u)' = TakenByOuts(u) - TakenOf(u, outs[c]) + TakenOf(u, out)
<1>1. /\ outs \in [Call -> OutType \cup {None}] /\ outs' \in [Call -> OutType \cup {None}]
      /\ outs'[c] = out /\ \A d \in Call \ {c} : outs'[d] = outs[d]
  BY DEF AccountsKept, MintInv, MintTypes
<1>2. IsFiniteSet(InProgress)
  BY DEF AccountsKept, AccountTypes
<1>3. IsFiniteSet(InProgress')
  <2>1. InProgress' \in SUBSET (InProgress \cup {c})
    BY <1>1 DEF InProgress
  <2>2. IsFiniteSet(InProgress \cup {c})
    BY <1>2, FS_AddElement
  <2> QED
    BY <2>1, <2>2, FS_Subset
<1>4. /\ \A d \in InProgress : outs[d] \in OutType
      /\ \A d \in InProgress' : outs'[d] \in OutType
  BY <1>1 DEF InProgress
<1>5. KeptByOuts' = KeptByOuts - Keeps(outs[c]) + Keeps(out)
  <2> DEFINE f == [d \in InProgress |-> IF outs[d].answer = "err" THEN outs[d].amount + Fee ELSE Fee]
             g == [d \in InProgress' |-> IF outs'[d].answer = "err" THEN outs'[d].amount + Fee ELSE Fee]
  <2>1. /\ \A d \in InProgress : f[d] \in Int /\ f[d] = Keeps(outs[d])
        /\ \A d \in InProgress' : g[d] \in Int /\ g[d] = Keeps(outs'[d])
    BY <1>4, BankAssumption DEF OutType, Keeps, InProgress
  <2>2. DOMAIN f = InProgress /\ DOMAIN g = InProgress'
    OBVIOUS
  <2>3. InProgress' \ {c} = InProgress \ {c}
    BY <1>1 DEF InProgress
  <2>4. \A d \in InProgress \ {c} : f[d] = g[d]
    <3> TAKE d \in InProgress \ {c}
    <3>1. outs'[d] = outs[d] /\ d \in InProgress'
      BY <1>1, <2>3 DEF InProgress
    <3> QED
      BY <3>1
  <2>5. /\ Keeps(outs[c]) = IF c \in InProgress THEN f[c] ELSE 0
        /\ Keeps(out) = IF c \in InProgress' THEN g[c] ELSE 0
    BY <1>1, <2>1 DEF Keeps, InProgress
  <2> HIDE DEF f, g
  <2>6. SumFunction(g) = SumFunction(f) - (IF c \in DOMAIN f THEN f[c] ELSE 0)
                                        + (IF c \in DOMAIN g THEN g[c] ELSE 0)
    BY <1>2, <2>1, <2>2, <2>3, <2>4, SumAt
  <2> QED
    BY <2>2, <2>5, <2>6 DEF f, g, KeptByOuts
<1>6. ASSUME NEW u \in User
      PROVE  TakenByOuts(u)' = TakenByOuts(u) - TakenOf(u, outs[c]) + TakenOf(u, out)
  <2> DEFINE D == {d \in InProgress : outs[d].from = u}
             E == {d \in InProgress' : outs'[d].from = u}
             f == [d \in D |-> outs[d].amount + Fee]
             g == [d \in E |-> outs'[d].amount + Fee]
  <2>1. (\A d \in D : f[d] \in Int) /\ (\A d \in E : g[d] \in Int)
    BY <1>4, BankAssumption DEF OutType
  <2>2. DOMAIN f = D /\ DOMAIN g = E /\ D \in SUBSET InProgress
    OBVIOUS
  <2>3. E \ {c} = D \ {c}
    BY <1>1 DEF InProgress
  <2>4. \A d \in D \ {c} : f[d] = g[d]
    <3> TAKE d \in D \ {c}
    <3>1. outs'[d] = outs[d] /\ d \in E
      BY <1>1, <2>3 DEF InProgress
    <3> QED
      BY <3>1
  <2>5. /\ TakenOf(u, outs[c]) = IF c \in D THEN f[c] ELSE 0
        /\ TakenOf(u, out) = IF c \in E THEN g[c] ELSE 0
    BY <1>1 DEF TakenOf, InProgress
  <2>6. IsFiniteSet(D)
    BY <1>2, <2>2, FS_Subset
  <2> HIDE DEF f, g, D, E
  <2>7. SumFunction(g) = SumFunction(f) - (IF c \in DOMAIN f THEN f[c] ELSE 0)
                                        + (IF c \in DOMAIN g THEN g[c] ELSE 0)
    BY <2>1, <2>2, <2>3, <2>4, <2>6, SumAt
  <2> QED
    BY <2>2, <2>5, <2>7 DEF f, g, D, E, TakenByOuts
<1> QED
  BY <1>3, <1>5, <1>6
(* What a log does to the balances that the logs tell.                     *)
LEMMA LogAdded ==
  ASSUME AccountsKept, NEW log \in LogType, logs' = Append(logs, log)
  PROVE  \A u \in User : /\ Effects(u) \in Int /\ Effect(log, u) \in Int
                         /\ Effects(u)' = Effects(u) + Effect(log, u)
<1> SUFFICES ASSUME NEW u \in User
             PROVE  /\ Effects(u) \in Int /\ Effect(log, u) \in Int
                    /\ Effects(u)' = Effects(u) + Effect(log, u)
  OBVIOUS
<1> DEFINE n == Len(logs) + 1
           f == [i \in 1 .. Len(logs) |-> Effect(logs[i], u)]
           g == [i \in 1 .. Len(logs') |-> Effect(logs'[i], u)]
<1>1. logs \in Seq(LogType) /\ logs' \in Seq(LogType)
  BY DEF AccountsKept, MintInv, MintTypes
<1>2. /\ Len(logs) \in Nat /\ Len(logs') = n /\ logs'[n] = log
      /\ \A i \in 1 .. Len(logs) : logs'[i] = logs[i]
  BY <1>1
<1>3. \A lg \in LogType : Effect(lg, u) \in Int
  BY BankAssumption DEF Effect, LogType
<1>4. /\ \A i \in 1 .. Len(logs) : logs[i] \in LogType
      /\ \A i \in 1 .. Len(logs') : logs'[i] \in LogType
  BY <1>1
<1>5. /\ DOMAIN f = 1 .. Len(logs) /\ DOMAIN g = DOMAIN f \cup {n} /\ n \notin DOMAIN f
      /\ IsFiniteSet(DOMAIN f)
  <2>1. 1 .. Len(logs') = 1 .. Len(logs) \cup {n} /\ n \notin 1 .. Len(logs)
    BY <1>2
  <2>2. IsFiniteSet(1 .. Len(logs))
    BY <1>2, FS_Interval
  <2> QED
    BY <2>1, <2>2
<1>6. /\ \A i \in DOMAIN f : f[i] \in Int /\ f[i] = g[i]
      /\ \A i \in DOMAIN g : g[i] \in Int
      /\ g[n] = Effect(log, u)
  <2>1. \A i \in DOMAIN g : g[i] = Effect(logs'[i], u)
    OBVIOUS
  <2>2. \A i \in DOMAIN f : f[i] = Effect(logs[i], u)
    OBVIOUS
  <2> HIDE DEF f, g
  <2>3. DOMAIN g = 1 .. Len(logs')
    BY DEF g
  <2> QED
    BY <1>2, <1>3, <1>4, <1>5, <2>1, <2>2, <2>3
<1> HIDE DEF f, g, n
<1>7. SumFunction(g) = SumFunction(f) + g[n] /\ SumFunction(f) \in Int
  BY <1>5, <1>6, SumPut, SumType
<1>8. Effect(log, u) \in Int
  BY <1>3
<1> QED
  BY <1>6, <1>7, <1>8 DEF f, g, Effects

(* A balance changes. *)
LEMMA BalanceChange ==
  ASSUME NEW bs \in [User -> Nat], NEW u \in User, NEW n \in Nat
  PROVE  /\ SumFunction(bs) \in Nat /\ bs[u] <= SumFunction(bs)
         /\ SumFunction([bs EXCEPT ![u] = n]) = SumFunction(bs) - bs[u] + n
<1> DEFINE g == [bs EXCEPT ![u] = n]
<1>1. /\ IsFiniteSet(DOMAIN bs) /\ u \in DOMAIN bs /\ DOMAIN g = DOMAIN bs
      /\ \A v \in DOMAIN bs : bs[v] \in Nat /\ g[v] \in Nat
      /\ \A v \in DOMAIN bs \ {u} : bs[v] = g[v]
      /\ g[u] = n
  BY BankAssumption
<1> HIDE DEF g
<1>2. SumFunction(bs) \in Nat /\ bs[u] <= SumFunction(bs)
  BY <1>1, SumType, SumAtLeast
<1>3. SumFunction(g) = SumFunction(bs) - bs[u] + g[u]
  BY <1>1, SumUpdate
<1> QED
  BY <1>1, <1>2, <1>3 DEF g

(* Credits and blocks. *)
LEMMA BlocksFinite ==
  ASSUME AccountsKept
  PROVE  IsFiniteSet(ToBeCredited) /\ Cardinality(ToBeCredited) \in Nat
<1>1. Len(icp_blocks) \in Nat
  BY DEF AccountsKept, MintInv, MintTypes
<1>2. IsFiniteSet(1 .. Len(icp_blocks)) /\ ToBeCredited \in SUBSET (1 .. Len(icp_blocks))
  BY <1>1, FS_Interval DEF ToBeCredited
<1> QED
  BY <1>2, FS_Subset, FS_CardinalityType

LEMMA NoBlockCredited ==
  ASSUME AccountsKept, icp_blocks' = icp_blocks,
         \/ logs' = logs
         \/ \E log \in LogType : log.block = None /\ logs' = Append(logs, log)
  PROVE  ToBeCredited' = ToBeCredited
<1>1. \A b \in 1 .. Len(icp_blocks) : b # None
  BY BankAssumption DEF AccountsKept, MintInv, MintTypes
<1>2. ASSUME NEW log \in LogType, log.block = None, logs' = Append(logs, log),
             NEW b \in 1 .. Len(icp_blocks)
      PROVE  Credited(b)' = Credited(b)
  <2>1. /\ Len(logs) \in Nat /\ Len(logs') = Len(logs) + 1 /\ logs'[Len(logs) + 1] = log
        /\ \A i \in 1 .. Len(logs) : logs'[i] = logs[i]
    BY <1>2 DEF AccountsKept, MintInv, MintTypes
  <2> QED
    BY <1>1, <1>2, <2>1 DEF Credited
<1>3. \A b \in 1 .. Len(icp_blocks) : Credited(b)' = Credited(b)
  BY <1>2 DEF Credited
<1> QED
  BY <1>3 DEF ToBeCredited

LEMMA BlockCredited ==
  ASSUME AccountsKept, icp_blocks' = icp_blocks, NEW log \in LogType,
         logs' = Append(logs, log), NEW u \in User, log.block # None, log.block = InWork[u],
         icp_blocks[log.block] = "minted"
  PROVE  Cardinality(ToBeCredited) = Cardinality(ToBeCredited') + 1
<1> DEFINE b == log.block
<1>1. /\ Len(logs) \in Nat /\ Len(logs') = Len(logs) + 1 /\ logs'[Len(logs) + 1] = log
      /\ \A i \in 1 .. Len(logs) : logs'[i] = logs[i]
  BY DEF AccountsKept, MintInv, MintTypes
<1>2. b \in 1 .. Len(icp_blocks) /\ Credited(b) = {}
  BY DEF AccountsKept, MintInv, BlocksInv, Credited
<1>3. Len(logs) + 1 \in Credited(b)'
  BY <1>1 DEF Credited
<1>4. \A c \in 1 .. Len(icp_blocks) : c # b => Credited(c)' = Credited(c)
  BY <1>1 DEF Credited
<1>5. b \in ToBeCredited /\ ToBeCredited' = ToBeCredited \ {b}
  BY <1>2, <1>3, <1>4 DEF ToBeCredited
<1>6. Cardinality(ToBeCredited \ {b}) = Cardinality(ToBeCredited) - 1
  BY <1>5, BlocksFinite, FS_RemoveElement
<1>7. Cardinality(ToBeCredited) \in Nat
  BY BlocksFinite
<1> QED
  BY <1>5, <1>6, <1>7

(* The facts of the accounts, unfolded. *)
LEMMA AccountFacts ==
  ASSUME AccountsKept
  PROVE  /\ balances \in [User -> Nat] /\ total_supply \in Nat /\ canister_cycles \in Nat
         /\ logs \in Seq(LogType) /\ Len(logs) \in Nat /\ outs \in [Call -> OutType \cup {None}]
         /\ canister_cycles = total_supply + FeesOfLogs + KeptByOuts + HeldForBlocks
         /\ \A u \in User : balances[u] = Effects(u) - TakenByOuts(u)
         /\ total_supply = SumFunction(balances)
         /\ KeptByOuts \in Nat /\ \A u \in User : TakenByOuts(u) \in Int
         /\ FeesOfLogs \in Nat /\ HeldForBlocks \in Nat
<1>1. Len(logs) \in Nat
  BY DEF AccountsKept, MintInv, MintTypes
<1>2. Fee \in Nat /\ CmcCycles \in Nat /\ Cardinality(ToBeCredited) \in Nat
  BY BankAssumption, BlocksFinite
<1>3. FeesOfLogs \in Nat /\ HeldForBlocks \in Nat
  BY <1>1, <1>2 DEF FeesOfLogs, HeldForBlocks
<1> QED
  BY <1>1, <1>3, Accounts, OutTypes DEF AccountsKept, AccountTypes, MintInv, MintTypes

LEMMA Totals ==
  ASSUME AccountsKept
  PROVE  /\ canister_cycles = total_supply + FeesOfLogs + KeptByOuts + HeldForBlocks
         /\ total_supply \in Nat /\ canister_cycles \in Nat /\ KeptByOuts \in Nat
         /\ FeesOfLogs \in Nat /\ HeldForBlocks \in Nat
BY AccountFacts

(* What has to be shown of a step. *)
AccountGoal ==
  /\ balances' \in [User -> Nat] /\ total_supply' \in Nat /\ canister_cycles' \in Nat
  /\ IsFiniteSet(InProgress')
  /\ canister_cycles' = total_supply' + FeesOfLogs' + KeptByOuts' + HeldForBlocks'
  /\ \A u \in User : balances'[u] = Effects(u)' - TakenByOuts(u)'
  /\ total_supply' = SumFunction(balances')

PointersGoal == pointers' \in [User -> Seq(Nat)] /\ cleared' \in 0 .. Len(logs')

LEMMA GoalReached ==
  ASSUME AccountsKept, [Next]_vars, AccountGoal, PointersGoal
  PROVE  AccountsKept'
<1>1. MintInv'
  BY NextMints DEF AccountsKept
<1>2. AccountTypes'
  BY DEF AccountGoal, PointersGoal, AccountTypes
<1>3. CyclesAccounted' /\ LogsReplayToBalances'
  BY DEF AccountGoal, CyclesAccounted, FeesOfLogs, KeptByOuts, HeldForBlocks, ToBeCredited,
         LogsReplayToBalances, Effects, TakenByOuts
<1> QED
  BY <1>1, <1>2, <1>3 DEF AccountsKept

LEMMA PushedPointers ==
  ASSUME AccountsKept, NEW log \in LogType, PushLog(log), UNCHANGED cleared
  PROVE  PointersGoal /\ logs' = Append(logs, log) /\ Len(logs') = Len(logs) + 1
<1>1. /\ pointers \in [User -> Seq(Nat)] /\ Len(logs) \in Nat /\ cleared \in 0 .. Len(logs)
      /\ logs \in Seq(LogType)
  BY AccountFacts DEF AccountsKept, AccountTypes
<1>2. \A u \in User : Noted(log, u) \in Seq(Nat)
  BY <1>1 DEF Noted
<1>3. \A u \in User : pointers[u] \o Noted(log, u) \in Seq(Nat)
  BY <1>1, <1>2
<1> QED
  BY <1>1, <1>3 DEF PushLog, PointersGoal

(* A log more, and no block credited. *)
LEMMA FeeOfLog ==
  ASSUME AccountsKept, Len(logs') = Len(logs) + 1
  PROVE  FeesOfLogs' = FeesOfLogs + Fee
<1>1. \A a, b \in Nat : a * (b + 1) = a * b + a
  OBVIOUS
<1> QED
  BY <1>1, AccountFacts, BankAssumption DEF FeesOfLogs

LEMMA TransferAccounts ==
  ASSUME AccountsKept, NEW from \in User, NEW to \in User, NEW amount \in Amount,
         icrc1_transfer(from, to, amount)
  PROVE  AccountGoal /\ PointersGoal
<1> DEFINE log == [op |-> "xfer", from |-> from, to |-> to, amt |-> amount, block |-> None]
           less == Subtract(balances, from, amount + Fee)
<1>1. log \in LogType /\ log.block = None /\ amount \in Nat /\ Fee \in Nat
  BY BankAssumption DEF LogType
<1>2. PushLog(log) /\ UNCHANGED <<cleared, outs, icp_blocks, canister_cycles>>
  BY DEF icrc1_transfer, mintVars
<1> HIDE DEF log
<1>3. PointersGoal /\ logs' = Append(logs, log) /\ Len(logs') = Len(logs) + 1
  BY <1>1, <1>2, PushedPointers
<1>4. ToBeCredited' = ToBeCredited
  BY <1>1, <1>2, <1>3, NoBlockCredited
<1>5. /\ InProgress' = InProgress /\ KeptByOuts' = KeptByOuts
      /\ \A u \in User : TakenByOuts(u)' = TakenByOuts(u)
  BY <1>2 DEF InProgress, KeptByOuts, TakenByOuts
<1>6. balances[from] >= amount + Fee
  BY DEF icrc1_transfer, HasFunds
<1>7. balances \in [User -> Nat] /\ total_supply = SumFunction(balances)
  BY AccountFacts
<1>8. /\ less = [balances EXCEPT ![from] = balances[from] - (amount + Fee)]
      /\ balances[from] - (amount + Fee) \in Nat /\ less \in [User -> Nat]
  BY <1>1, <1>6, <1>7 DEF Subtract, SatSub
<1>9. /\ balances[from] <= SumFunction(balances) /\ SumFunction(balances) \in Nat
      /\ SumFunction(less) = SumFunction(balances) - (amount + Fee)
  <2>1. SumFunction(less) = SumFunction(balances) - balances[from] + (balances[from] - (amount + Fee))
    BY <1>7, <1>8, BalanceChange
  <2>2. balances[from] <= SumFunction(balances) /\ SumFunction(balances) \in Nat
    BY <1>7, <1>8, BalanceChange
  <2> QED
    BY <1>1, <1>7, <2>1, <2>2
<1>10. balances' = [less EXCEPT ![to] = less[to] + amount]
  BY DEF icrc1_transfer, Add
<1>11. balances' \in [User -> Nat] /\ SumFunction(balances') = SumFunction(less) + amount
  <2> HIDE DEF less
  <2>1. less[to] + amount \in Nat /\ less[to] \in Nat
    BY <1>1, <1>8
  <2>2. SumFunction(balances') = SumFunction(less) - less[to] + (less[to] + amount)
        /\ SumFunction(less) \in Nat
    BY <1>8, <1>10, <2>1, BalanceChange
  <2> QED
    BY <1>1, <1>8, <1>10, <2>1, <2>2
<1>12. total_supply' = total_supply - Fee /\ total_supply' = SumFunction(balances') /\ total_supply' \in Nat
  <2>1. total_supply' = SatSub(total_supply, amount + Fee) + amount
    BY DEF icrc1_transfer
  <2> HIDE DEF less
  <2> QED
    BY <1>1, <1>6, <1>7, <1>9, <1>11, <2>1 DEF SatSub
<1>13. \A u \in User : balances'[u] = balances[u] + Effect(log, u)
  BY <1>1, <1>8, <1>10, <1>7 DEF Effect, log
<1>14. \A u \in User : balances'[u] = Effects(u)' - TakenByOuts(u)'
  <2> TAKE u \in User
  <2>1. Effects(u) \in Int /\ Effect(log, u) \in Int /\ Effects(u)' = Effects(u) + Effect(log, u)
    BY <1>1, <1>3, LogAdded
  <2>2. balances[u] = Effects(u) - TakenByOuts(u) /\ TakenByOuts(u) \in Int
    BY AccountFacts
  <2> QED
    BY <1>5, <1>13, <2>1, <2>2
<1>16. canister_cycles' = total_supply' + FeesOfLogs' + KeptByOuts' + HeldForBlocks'
  <2>1. FeesOfLogs' = FeesOfLogs + Fee /\ HeldForBlocks' = HeldForBlocks
    BY <1>3, <1>4, FeeOfLog DEF HeldForBlocks
  <2>2. /\ canister_cycles = total_supply + FeesOfLogs + KeptByOuts + HeldForBlocks
        /\ total_supply \in Nat /\ FeesOfLogs \in Nat /\ KeptByOuts \in Nat
        /\ HeldForBlocks \in Nat /\ canister_cycles \in Nat
    BY AccountFacts
  <2>3. KeptByOuts' = KeptByOuts /\ canister_cycles' = canister_cycles
    BY <1>2, <1>5
  <2> QED
    BY <1>1, <1>12, <2>1, <2>2, <2>3
<1>17. canister_cycles' \in Nat /\ IsFiniteSet(InProgress')
  BY <1>2, <1>5, AccountFacts DEF AccountsKept, AccountTypes
<1> QED
  BY <1>3, <1>11, <1>12, <1>14, <1>16, <1>17 DEF AccountGoal

(* A balance grows, and the supply with it. *)
LEMMA Credit ==
  ASSUME AccountsKept, NEW u \in User, NEW n \in Nat,
         balances' = Add(balances, u, n), total_supply' = total_supply + n
  PROVE  /\ balances' \in [User -> Nat] /\ total_supply' \in Nat
         /\ total_supply' = SumFunction(balances')
         /\ \A v \in User : balances'[v] = balances[v] + (IF v = u THEN n ELSE 0)
<1>1. balances \in [User -> Nat] /\ total_supply \in Nat /\ total_supply = SumFunction(balances)
  BY AccountFacts
<1> DEFINE m == balances[u] + n
<1>2. balances' = [balances EXCEPT ![u] = m] /\ m \in Nat /\ balances[u] \in Nat
  BY <1>1 DEF Add
<1>3. SumFunction(balances') = SumFunction(balances) - balances[u] + m
  <2> HIDE DEF m
  <2>1. SumFunction([balances EXCEPT ![u] = m]) = SumFunction(balances) - balances[u] + m
    BY <1>1, <1>2, BalanceChange
  <2> QED
    BY <1>2, <2>1
<1>4. SumFunction(balances') = SumFunction(balances) + n
  BY <1>1, <1>2, <1>3
<1> QED
  BY <1>1, <1>2, <1>4

(* Logs that do not change tell the same balances. *)
LEMMA SameLogs ==
  ASSUME AccountsKept, UNCHANGED <<logs, icp_blocks>>
  PROVE  /\ \A u \in User : Effects(u)' = Effects(u) /\ Effects(u) \in Int
         /\ FeesOfLogs' = FeesOfLogs /\ HeldForBlocks' = HeldForBlocks
<1>1. \A u \in User : Effects(u)' = Effects(u)
  BY DEF Effects
<1>2. ToBeCredited' = ToBeCredited
  BY NoBlockCredited
<1>3. \A u \in User : Effects(u) \in Int
  <2> DEFINE log == [op |-> "mint", from |-> None, to |-> None, amt |-> 0, block |-> None]
  <2> TAKE u \in User
  <2> DEFINE f == [i \in 1 .. Len(logs) |-> Effect(logs[i], u)]
  <2>1. \A lg \in LogType : Effect(lg, u) \in Int
    BY BankAssumption DEF Effect, LogType
  <2>2. DOMAIN f = 1 .. Len(logs) /\ \A i \in DOMAIN f : f[i] \in Int
    BY <2>1, AccountFacts
  <2>3. IsFiniteSet(1 .. Len(logs))
    BY AccountFacts, FS_Interval
  <2> HIDE DEF f
  <2>4. SumFunction(f) \in Int
    BY <2>2, <2>3, SumType
  <2> QED
    BY <2>4 DEF f, Effects
<1> QED
  BY <1>1, <1>2, <1>3 DEF FeesOfLogs, HeldForBlocks

LEMMA SameOuts ==
  ASSUME AccountsKept, UNCHANGED outs
  PROVE  /\ IsFiniteSet(InProgress') /\ KeptByOuts' = KeptByOuts
         /\ \A u \in User : TakenByOuts(u)' = TakenByOuts(u)
BY DEF AccountsKept, AccountTypes, InProgress, KeptByOuts, TakenByOuts

LEMMA SamePointers ==
  ASSUME AccountsKept, UNCHANGED <<pointers, cleared, logs>>
  PROVE  PointersGoal
BY DEF AccountsKept, AccountTypes, PointersGoal

(* Cycles come in for the user of a log that credits no block. *)
LEMMA CyclesInAccounts ==
  ASSUME AccountsKept, NEW to \in User, NEW amount \in Amount, cycles_in(to, amount)
  PROVE  AccountGoal /\ PointersGoal
<1> DEFINE log == [op |-> "mint", from |-> None, to |-> to, amt |-> amount, block |-> None]
<1>1. log \in LogType /\ log.block = None /\ amount \in Nat /\ Fee \in Nat
  BY BankAssumption DEF LogType
<1>2. /\ PushLog(log) /\ UNCHANGED <<cleared, outs, icp_blocks>>
      /\ balances' = Add(balances, to, amount) /\ total_supply' = total_supply + amount
      /\ canister_cycles' = canister_cycles + amount + Fee
  BY DEF cycles_in, mintVars
<1>3. \A u \in User : Effect(log, u) = IF u = to THEN amount ELSE 0
  BY <1>1, BankAssumption DEF Effect
<1>3a. HeldForBlocks' = HeldForBlocks
  BY <1>1, <1>2, NoBlockCredited DEF HeldForBlocks, PushLog
<1> HIDE DEF log
<1>4. PointersGoal /\ logs' = Append(logs, log) /\ Len(logs') = Len(logs) + 1
  BY <1>1, <1>2, PushedPointers
<1>5. FeesOfLogs' = FeesOfLogs + Fee
  BY <1>4, FeeOfLog
<1>6. /\ IsFiniteSet(InProgress') /\ KeptByOuts' = KeptByOuts
      /\ \A u \in User : TakenByOuts(u)' = TakenByOuts(u)
  BY <1>2, SameOuts
<1>7. /\ balances' \in [User -> Nat] /\ total_supply' \in Nat
      /\ total_supply' = SumFunction(balances')
      /\ \A v \in User : balances'[v] = balances[v] + (IF v = to THEN amount ELSE 0)
  BY <1>1, <1>2, Credit
<1>8. \A u \in User : balances'[u] = Effects(u)' - TakenByOuts(u)'
  <2> TAKE u \in User
  <2>1. Effects(u) \in Int /\ Effects(u)' = Effects(u) + Effect(log, u)
    BY <1>1, <1>4, LogAdded
  <2>2. balances[u] = Effects(u) - TakenByOuts(u) /\ TakenByOuts(u) \in Int
    BY AccountFacts
  <2> QED
    BY <1>1, <1>3, <1>6, <1>7, <2>1, <2>2
<1>9. /\ canister_cycles' \in Nat
      /\ canister_cycles' = total_supply' + FeesOfLogs' + KeptByOuts' + HeldForBlocks'
  <2>1. /\ canister_cycles' = canister_cycles + amount + Fee /\ total_supply' = total_supply + amount
        /\ FeesOfLogs' = FeesOfLogs + Fee /\ KeptByOuts' = KeptByOuts
        /\ HeldForBlocks' = HeldForBlocks
    BY <1>2, <1>3a, <1>5, <1>6
  <2> QED
    BY <1>1, <2>1, Totals
<1> QED
  BY <1>4, <1>6, <1>7, <1>8, <1>9 DEF AccountGoal

(* Steps that move no cycles. *)
LEMMA NothingMoves ==
  ASSUME AccountsKept, UNCHANGED <<balances, total_supply, logs, outs, canister_cycles>>,
         HeldForBlocks' = HeldForBlocks
  PROVE  AccountGoal
<1>1. \A u \in User : Effects(u)' = Effects(u)
  BY DEF Effects
<1>2. FeesOfLogs' = FeesOfLogs
  BY DEF FeesOfLogs
<1>3. /\ IsFiniteSet(InProgress') /\ KeptByOuts' = KeptByOuts
      /\ \A u \in User : TakenByOuts(u)' = TakenByOuts(u)
  BY SameOuts
<1> QED
  BY <1>1, <1>2, <1>3, AccountFacts DEF AccountGoal

LEMMA ClearAccounts ==
  ASSUME AccountsKept, controller_clear_user_logs_pointers_cache
  PROVE  AccountGoal /\ PointersGoal
<1>1. UNCHANGED <<balances, total_supply, logs, outs, canister_cycles, icp_blocks>>
  BY DEF controller_clear_user_logs_pointers_cache, mintVars
<1>2. PointersGoal
  <2>1. pointers' = [u \in User |-> <<>>] /\ cleared' = Len(logs) /\ logs' = logs
    BY DEF controller_clear_user_logs_pointers_cache
  <2> QED
    BY <2>1, AccountFacts DEF PointersGoal
<1> QED
  BY <1>1, <1>2, SameLogs, NothingMoves

(* An answer of the ICP ledger or of the CMC, and the steps of a mint that *)
(* credit nothing: only the mints and the blocks change.                   *)
LEMMA MintAccounts ==
  ASSUME AccountsKept, UNCHANGED <<ledgerVars, outs, canister_cycles>>,
         HeldForBlocks' = HeldForBlocks
  PROVE  AccountGoal /\ PointersGoal
BY NothingMoves, SamePointers DEF ledgerVars

(* A new block is not minted for. *)
LEMMA IcpTransferAccounts ==
  ASSUME AccountsKept, NEW u \in User, IcpTransfer(u)
  PROVE  AccountGoal /\ PointersGoal
<1>1. UNCHANGED <<ledgerVars, outs, canister_cycles>> /\ icp_blocks' = Append(icp_blocks, "new")
  BY DEF IcpTransfer
<1>2. icp_blocks \in Seq(BlockStatus) /\ Len(icp_blocks) \in Nat
  BY DEF AccountsKept, MintInv, MintTypes
<1>3. /\ Len(icp_blocks') = Len(icp_blocks) + 1
      /\ icp_blocks'[Len(icp_blocks) + 1] = "new"
      /\ \A b \in 1 .. Len(icp_blocks) : icp_blocks'[b] = icp_blocks[b]
  BY <1>1, <1>2 DEF BlockStatus
<1>4. \A b : Credited(b)' = Credited(b)
  BY <1>1 DEF Credited, ledgerVars
<1>5. ToBeCredited' = ToBeCredited
  <2>1. 1 .. Len(icp_blocks') = 1 .. Len(icp_blocks) \cup {Len(icp_blocks) + 1}
    BY <1>2, <1>3
  <2> QED
    BY <1>3, <1>4, <2>1 DEF ToBeCredited
<1> QED
  BY <1>1, <1>5, MintAccounts DEF HeldForBlocks

(* A block that the CMC mints for is not credited yet. *)
LEMMA CmcProcessesAccounts ==
  ASSUME AccountsKept, NEW b \in 1 .. Len(icp_blocks), CmcProcesses(b)
  PROVE  AccountGoal /\ PointersGoal
<1>1. PICK what \in {"minted", "refunded", "refused"} : icp_blocks' = [icp_blocks EXCEPT ![b] = what]
  BY DEF CmcProcesses
<1>2. /\ UNCHANGED <<ledgerVars, outs>> /\ icp_blocks[b] = "new"
      /\ icp_blocks \in Seq(BlockStatus) /\ Len(icp_blocks) \in Nat
  BY DEF CmcProcesses, AccountsKept, MintInv, MintTypes
<1>3. /\ icp_blocks'[b] = what /\ Len(icp_blocks') = Len(icp_blocks)
      /\ \A c \in 1 .. Len(icp_blocks) : c # b => icp_blocks'[c] = icp_blocks[c]
  BY <1>1, <1>2
<1>4. \A c : Credited(c)' = Credited(c)
  BY <1>2 DEF Credited, ledgerVars
<1>5. Credited(b) = {}
  <2>1. b # None
    BY <1>2, BankAssumption
  <2> QED
    BY <1>2, <2>1 DEF AccountsKept, MintInv, BlocksInv, Credited
<1>6. b \notin ToBeCredited
  BY <1>2 DEF ToBeCredited
<1>7. PointersGoal
  BY <1>2, SamePointers DEF ledgerVars
<1>8. CASE what # "minted"
  <2>1. canister_cycles' = canister_cycles
    BY <1>3, <1>8 DEF CmcProcesses
  <2>2. ToBeCredited' = ToBeCredited
    BY <1>2, <1>3, <1>4, <1>8 DEF ToBeCredited
  <2> QED
    BY <1>2, <2>1, <2>2, MintAccounts DEF HeldForBlocks
<1>9. CASE what = "minted"
  <2>1. canister_cycles' = canister_cycles + CmcCycles
    BY <1>3, <1>9 DEF CmcProcesses
  <2>2. ToBeCredited' = ToBeCredited \cup {b}
    BY <1>3, <1>4, <1>5, <1>9 DEF ToBeCredited
  <2>3. Cardinality(ToBeCredited') = Cardinality(ToBeCredited) + 1 /\ Cardinality(ToBeCredited) \in Nat
    BY <1>6, <2>2, BlocksFinite, FS_AddElement
  <2>4. HeldForBlocks' = HeldForBlocks + CmcCycles
    <3>1. \A m, n \in Nat : m * (n + 1) = m * n + m
      OBVIOUS
    <3> QED
      BY <2>3, <3>1, BankAssumption DEF HeldForBlocks
  <2>5. UNCHANGED <<balances, total_supply, logs, outs>>
    BY <1>2 DEF ledgerVars
  <2>6. FeesOfLogs' = FeesOfLogs /\ \A u \in User : Effects(u)' = Effects(u)
    BY <2>5 DEF FeesOfLogs, Effects
  <2>7. /\ IsFiniteSet(InProgress') /\ KeptByOuts' = KeptByOuts
        /\ \A u \in User : TakenByOuts(u)' = TakenByOuts(u)
    BY <2>5, SameOuts
  <2>8. /\ canister_cycles' \in Nat
        /\ canister_cycles' = total_supply' + FeesOfLogs' + KeptByOuts' + HeldForBlocks'
    BY <2>1, <2>4, <2>5, <2>6, <2>7, Totals, BankAssumption
  <2> QED
    BY <1>7, <2>5, <2>6, <2>7, <2>8, AccountFacts DEF AccountGoal
<1> QED
  BY <1>8, <1>9

(* A balance shrinks, and the supply with it. *)
LEMMA Debit ==
  ASSUME AccountsKept, NEW u \in User, NEW n \in Nat, balances[u] >= n,
         balances' = Subtract(balances, u, n), total_supply' = SatSub(total_supply, n)
  PROVE  /\ balances' \in [User -> Nat] /\ total_supply' \in Nat
         /\ total_supply' = SumFunction(balances') /\ total_supply' = total_supply - n
         /\ \A v \in User : balances'[v] = balances[v] - (IF v = u THEN n ELSE 0)
<1>1. balances \in [User -> Nat] /\ total_supply \in Nat /\ total_supply = SumFunction(balances)
  BY AccountFacts
<1> DEFINE m == balances[u] - n
<1>2. balances' = [balances EXCEPT ![u] = m] /\ m \in Nat /\ balances[u] \in Nat
  BY <1>1 DEF Subtract, SatSub
<1>3. /\ SumFunction(balances') = SumFunction(balances) - balances[u] + m
      /\ balances[u] <= SumFunction(balances)
  <2> HIDE DEF m
  <2>1. SumFunction([balances EXCEPT ![u] = m]) = SumFunction(balances) - balances[u] + m
    BY <1>1, <1>2, BalanceChange
  <2>2. balances[u] <= SumFunction(balances)
    BY <1>1, <1>2, BalanceChange
  <2> QED
    BY <1>2, <2>1, <2>2
<1>4. SumFunction(balances') = total_supply - n /\ total_supply' = total_supply - n
      /\ total_supply' \in Nat
  BY <1>1, <1>2, <1>3 DEF SatSub
<1> QED
  BY <1>1, <1>2, <1>4

(* The calls of cycles_out. *)
LEMMA CyclesOutAccounts ==
  ASSUME AccountsKept, NEW c \in Call, NEW from \in User, NEW amount \in Amount,
         CyclesOut(c, from, amount)
  PROVE  AccountGoal /\ PointersGoal
<1> DEFINE out == [from |-> from, amount |-> amount, answer |-> None]
<1>1. /\ amount \in Nat /\ Fee \in Nat /\ amount + Fee \in Nat
      /\ out \in OutType /\ out # None
  BY BankAssumption DEF OutType
<1>2. /\ UNCHANGED <<logs, pointers, cleared, icp_blocks>>
      /\ outs[c] = None /\ outs' = [outs EXCEPT ![c] = out]
      /\ canister_cycles' = canister_cycles - amount
      /\ balances' = Subtract(balances, from, amount + Fee)
      /\ total_supply' = SatSub(total_supply, amount + Fee) /\ balances[from] >= amount + Fee
  BY DEF CyclesOut, HasFunds, mintVars
<1>3. PointersGoal
  BY <1>2, SamePointers
<1>4. /\ balances' \in [User -> Nat] /\ total_supply' \in Nat
      /\ total_supply' = SumFunction(balances') /\ total_supply' = total_supply - (amount + Fee)
      /\ \A v \in User : balances'[v] = balances[v] - (IF v = from THEN amount + Fee ELSE 0)
  BY <1>1, <1>2, Debit
<1>5. /\ Keeps(outs[c]) = 0 /\ Keeps(out) = Fee
      /\ \A u \in User : /\ TakenOf(u, outs[c]) = 0
                         /\ TakenOf(u, out) = IF u = from THEN amount + Fee ELSE 0
  BY <1>1, <1>2, BankAssumption DEF Keeps, TakenOf
<1> HIDE DEF out
<1>6. /\ IsFiniteSet(InProgress')
      /\ KeptByOuts' = KeptByOuts - Keeps(outs[c]) + Keeps(out)
      /\ \A u \in User : TakenByOuts(u)' = TakenByOuts(u) - TakenOf(u, outs[c]) + TakenOf(u, out)
  BY <1>1, <1>2, OutsChange
<1>7. /\ \A u \in User : Effects(u)' = Effects(u) /\ Effects(u) \in Int
      /\ FeesOfLogs' = FeesOfLogs /\ HeldForBlocks' = HeldForBlocks
  BY <1>2, SameLogs
<1>8. \A u \in User : balances'[u] = Effects(u)' - TakenByOuts(u)'
  <2> TAKE u \in User
  <2>1. balances[u] = Effects(u) - TakenByOuts(u) /\ TakenByOuts(u) \in Int
    BY AccountFacts
  <2> DEFINE n == IF u = from THEN amount + Fee ELSE 0
  <2>2. n \in Nat /\ balances'[u] = balances[u] - n /\ TakenByOuts(u)' = TakenByOuts(u) - 0 + n
    BY <1>1, <1>4, <1>5, <1>6
  <2> HIDE DEF n
  <2> QED
    BY <1>7, <2>1, <2>2
<1>9. KeptByOuts' = KeptByOuts + Fee
  BY <1>1, <1>5, <1>6, Totals
<1>10. canister_cycles' = total_supply' + FeesOfLogs' + KeptByOuts' + HeldForBlocks'
  <2>1. /\ canister_cycles' = canister_cycles - amount
        /\ total_supply' = total_supply - (amount + Fee)
        /\ FeesOfLogs' = FeesOfLogs /\ HeldForBlocks' = HeldForBlocks
    BY <1>2, <1>4, <1>7
  <2> QED
    BY <1>1, <1>9, <2>1, Totals
(* The bank holds at least its supply. *)
<1>11. canister_cycles' \in Nat
  <2>1. FeesOfLogs' \in Nat /\ HeldForBlocks' \in Nat /\ KeptByOuts' \in Nat
    BY <1>1, <1>7, <1>9, Totals
  <2> QED
    BY <1>4, <1>10, <2>1
<1> QED
  BY <1>3, <1>4, <1>6, <1>8, <1>10, <1>11 DEF AccountGoal

LEMMA DepositAccounts ==
  ASSUME AccountsKept, NEW c \in Call, DepositCycles(c) \/ DepositFails(c)
  PROVE  AccountGoal /\ PointersGoal
<1> DEFINE a == IF DepositCycles(c) THEN "ok" ELSE "err"
           out == [outs[c] EXCEPT !.answer = a]
           back == IF DepositCycles(c) THEN 0 ELSE outs[c].amount
<1>1. outs[c] # None /\ outs[c].answer = None
  BY DEF DepositCycles, DepositFails
<1>2. /\ UNCHANGED <<ledgerVars, icp_blocks>> /\ outs' = [outs EXCEPT ![c] = out]
      /\ canister_cycles' = canister_cycles + back
  <2>1. canister_cycles + 0 = canister_cycles
    BY Totals
  <2>2. outs \in [Call -> OutType \cup {None}]
    BY AccountFacts
  <2>3. CASE DepositCycles(c)
    BY <2>1, <2>2, <2>3 DEF DepositCycles, mintVars
  <2>4. CASE ~DepositCycles(c)
    BY <2>2, <2>4 DEF DepositFails, mintVars
  <2> QED
    BY <2>3, <2>4
<1>3. /\ outs[c] \in OutType /\ out \in OutType /\ out # None
      /\ out.amount = outs[c].amount /\ out.from = outs[c].from /\ out.answer = a
      /\ back \in Nat /\ outs[c].amount \in Nat
  BY <1>1, AccountFacts, BankAssumption DEF OutType
<1>4. /\ Keeps(outs[c]) = Fee /\ Keeps(out) = Fee + back
      /\ \A u \in User : TakenOf(u, outs[c]) = TakenOf(u, out) /\ TakenOf(u, out) \in Int
  <2> HIDE DEF out
  <2> QED
    BY <1>1, <1>3, BankAssumption DEF Keeps, TakenOf, OutType
<1> HIDE DEF out, a, back
<1>5. /\ IsFiniteSet(InProgress')
      /\ KeptByOuts' = KeptByOuts - Keeps(outs[c]) + Keeps(out)
      /\ \A u \in User : TakenByOuts(u)' = TakenByOuts(u) - TakenOf(u, outs[c]) + TakenOf(u, out)
  BY <1>2, <1>3, OutsChange
<1>6. KeptByOuts' = KeptByOuts + back
  BY <1>3, <1>4, <1>5, Totals, BankAssumption
<1>7. \A u \in User : TakenByOuts(u)' = TakenByOuts(u)
  BY <1>4, <1>5, AccountFacts
<1>8. /\ \A u \in User : Effects(u)' = Effects(u)
      /\ FeesOfLogs' = FeesOfLogs /\ HeldForBlocks' = HeldForBlocks
  BY <1>2, SameLogs DEF ledgerVars
<1>9. UNCHANGED <<balances, total_supply>> /\ PointersGoal
  BY <1>2, SamePointers DEF ledgerVars
<1>10. /\ canister_cycles' = total_supply' + FeesOfLogs' + KeptByOuts' + HeldForBlocks'
       /\ canister_cycles' \in Nat
  BY <1>2, <1>3, <1>6, <1>8, <1>9, Totals
<1> QED
  BY <1>5, <1>7, <1>8, <1>9, <1>10, AccountFacts DEF AccountGoal

(* What the record of an answered call that takes cycles out holds. *)
LEMMA CallOut ==
  ASSUME AccountsKept, NEW c \in Call, CyclesOutReturns(c)
  PROVE  /\ outs[c] \in OutType /\ outs[c] # None /\ outs[c].from \in User
         /\ outs[c].amount \in Nat /\ outs[c].answer \in {"ok", "err"}
         /\ Fee \in Nat /\ outs[c].amount + Fee \in Nat
<1>1. outs \in [Call -> OutType \cup {None}] /\ Fee \in Nat
  BY AccountFacts, BankAssumption
<1>2. outs[c] # None /\ outs[c].answer # None
  BY DEF CyclesOutReturns
<1>3. \A X, f : f \in [Call -> X \cup {None}] /\ f[c] # None => f[c] \in X
  OBVIOUS
<1>4. outs[c] \in OutType
  BY ONLY <1>1, <1>2, <1>3
<1>5. \A A, S, r : r \in [from : User, amount : A, answer : S]
                  => r.from \in User /\ r.amount \in A /\ r.answer \in S
  OBVIOUS
<1>6. outs[c].from \in User /\ outs[c].amount \in Nat /\ outs[c].answer \in {None, "ok", "err"}
  BY ONLY <1>4, <1>5 DEF OutType
<1> QED
  BY ONLY <1>1, <1>2, <1>4, <1>6

(* The log of a burn takes over what the call in progress had taken; the   *)
(* refund gives it back.                                                   *)
LEMMA BurnAccounts ==
  ASSUME AccountsKept, NEW c \in Call, CyclesOutReturns(c), outs[c].answer = "ok"
  PROVE  AccountGoal /\ PointersGoal
<1> DEFINE out == outs[c]
           log == [op |-> "burn", from |-> out.from, to |-> None, amt |-> out.amount + Fee,
                   block |-> None]
<1>1. /\ out \in OutType /\ out # None /\ out.from \in User /\ out.amount \in Nat
      /\ Fee \in Nat /\ out.amount + Fee \in Nat /\ out.answer = "ok"
  BY CallOut
<1>2. /\ PushLog(log) /\ UNCHANGED <<balances, total_supply, cleared, canister_cycles, icp_blocks>>
      /\ outs' = [outs EXCEPT ![c] = None]
  BY DEF CyclesOutReturns, BurnAmount, mintVars
<1>3. log \in LogType /\ log.block = None
  BY <1>1 DEF LogType
<1>4. PointersGoal /\ logs' = Append(logs, log) /\ Len(logs') = Len(logs) + 1
  <2> HIDE DEF log, out
  <2> QED
    BY <1>2, <1>3, PushedPointers
<1>5. FeesOfLogs' = FeesOfLogs + Fee /\ HeldForBlocks' = HeldForBlocks
  BY <1>2, <1>3, <1>4, FeeOfLog, NoBlockCredited DEF HeldForBlocks
<1>6. /\ Keeps(out) = Fee /\ Keeps(None) = 0
      /\ \A u \in User : TakenOf(u, out) = -Effect(log, u) /\ TakenOf(u, None) = 0
  BY <1>1, BankAssumption DEF Keeps, TakenOf, Effect
<1>7. /\ IsFiniteSet(InProgress')
      /\ KeptByOuts' = KeptByOuts - Keeps(out) + Keeps(None)
      /\ \A u \in User : TakenByOuts(u)' = TakenByOuts(u) - TakenOf(u, out) + TakenOf(u, None)
  BY <1>2, OutsChange
<1> HIDE DEF out, log
<1>8. \A u \in User : balances'[u] = Effects(u)' - TakenByOuts(u)'
  <2> TAKE u \in User
  <2>1. /\ Effects(u) \in Int /\ Effect(log, u) \in Int
        /\ Effects(u)' = Effects(u) + Effect(log, u)
    BY <1>3, <1>4, LogAdded
  <2>2. balances[u] = Effects(u) - TakenByOuts(u) /\ TakenByOuts(u) \in Int
    BY AccountFacts
  <2>3. TakenByOuts(u)' = TakenByOuts(u) - TakenOf(u, out) + 0 /\ TakenOf(u, out) = -Effect(log, u)
    BY <1>6, <1>7
  <2> QED
    BY <1>2, <2>1, <2>2, <2>3
<1>9. KeptByOuts' = KeptByOuts - Fee
  BY <1>1, <1>6, <1>7, Totals
<1>10. /\ canister_cycles' = total_supply' + FeesOfLogs' + KeptByOuts' + HeldForBlocks'
       /\ canister_cycles' \in Nat
  BY <1>1, <1>2, <1>5, <1>9, Totals
<1> QED
  BY <1>2, <1>4, <1>7, <1>8, <1>10, AccountFacts DEF AccountGoal

LEMMA RefundAccounts ==
  ASSUME AccountsKept, NEW c \in Call, CyclesOutReturns(c), outs[c].answer # "ok"
  PROVE  AccountGoal /\ PointersGoal
<1> DEFINE out == outs[c]
           n == out.amount + Fee
<1>1. /\ out \in OutType /\ out # None /\ out.from \in User /\ out.amount \in Nat
      /\ Fee \in Nat /\ n \in Nat /\ out.answer = "err"
  BY CallOut
<1>2. /\ UNCHANGED <<logs, pointers, cleared, canister_cycles, icp_blocks>>
      /\ outs' = [outs EXCEPT ![c] = None]
      /\ balances' = Add(balances, out.from, n) /\ total_supply' = total_supply + n
  BY DEF CyclesOutReturns, Refund, mintVars
<1>3. PointersGoal
  BY <1>2, SamePointers
<1>4. /\ \A u \in User : Effects(u)' = Effects(u) /\ Effects(u) \in Int
      /\ FeesOfLogs' = FeesOfLogs /\ HeldForBlocks' = HeldForBlocks
  BY <1>2, SameLogs
<1>5. /\ Keeps(out) = n /\ Keeps(None) = 0
      /\ \A u \in User : /\ TakenOf(u, out) = IF u = out.from THEN n ELSE 0
                         /\ TakenOf(u, None) = 0
  BY <1>1, BankAssumption DEF Keeps, TakenOf
<1>6. /\ IsFiniteSet(InProgress')
      /\ KeptByOuts' = KeptByOuts - Keeps(out) + Keeps(None)
      /\ \A u \in User : TakenByOuts(u)' = TakenByOuts(u) - TakenOf(u, out) + TakenOf(u, None)
  BY <1>2, OutsChange
<1> HIDE DEF n, out
<1>7. /\ balances' \in [User -> Nat] /\ total_supply' \in Nat
      /\ total_supply' = SumFunction(balances')
      /\ \A v \in User : balances'[v] = balances[v] + (IF v = out.from THEN n ELSE 0)
  BY <1>1, <1>2, Credit
<1>8. \A u \in User : balances'[u] = Effects(u)' - TakenByOuts(u)'
  <2> TAKE u \in User
  <2> DEFINE m == IF u = out.from THEN n ELSE 0
  <2>1. balances[u] = Effects(u) - TakenByOuts(u) /\ TakenByOuts(u) \in Int
    BY AccountFacts
  <2>2. m \in Nat /\ balances'[u] = balances[u] + m /\ TakenByOuts(u)' = TakenByOuts(u) - m + 0
    BY <1>1, <1>5, <1>6, <1>7
  <2> HIDE DEF m
  <2> QED
    BY <1>4, <2>1, <2>2
<1>9. KeptByOuts' = KeptByOuts - n
  BY <1>1, <1>5, <1>6, Totals
<1>10. /\ canister_cycles' = total_supply' + FeesOfLogs' + KeptByOuts' + HeldForBlocks'
       /\ canister_cycles' \in Nat
  <2>1. total_supply' = total_supply + n /\ canister_cycles' = canister_cycles
    BY <1>2
  <2> QED
    BY <1>1, <1>4, <1>9, <2>1, Totals
<1> QED
  BY <1>3, <1>6, <1>7, <1>8, <1>10 DEF AccountGoal

(* The credit of a mint and its fee are what the CMC minted for its block. *)
LEMMA CreditAccounts ==
  ASSUME AccountsKept, NEW u \in User, CmcNotifyReturns(u), minting[u].answer = "minted"
  PROVE  AccountGoal /\ PointersGoal
<1> DEFINE to == minting[u].to
           log == [op |-> "mint", from |-> None, to |-> to, amt |-> Minted,
                   block |-> minting[u].block]
<1>1. minting[u] \in MintingType /\ minting[u].pc = "notify"
  BY DEF AccountsKept, MintInv, MintTypes, CmcNotifyReturns
<1>2. /\ minting[u].block # None /\ icp_blocks[minting[u].block] = "minted" /\ to \in User
      /\ InWork[u] = minting[u].block
  BY <1>1 DEF AccountsKept, MintInv, MintShapes, MintShape, InWork, BlockOf
<1>3. Minted \in Nat /\ Minted + Fee = CmcCycles /\ Fee \in Nat
  BY BankAssumption DEF Minted, SatSub
<1>4. /\ PushLog(log) /\ UNCHANGED <<cleared, outs, canister_cycles, icp_blocks>>
      /\ balances' = Add(balances, to, Minted) /\ total_supply' = total_supply + Minted
  BY BankAssumption DEF CmcNotifyReturns
<1>5. log \in LogType /\ log.block = minting[u].block
  BY <1>1, <1>2, <1>3 DEF LogType, MintingType
<1>6. \A v \in User : Effect(log, v) = IF v = to THEN Minted ELSE 0
  BY <1>2, <1>3, BankAssumption DEF Effect
<1> HIDE DEF log
<1>7. PointersGoal /\ logs' = Append(logs, log) /\ Len(logs') = Len(logs) + 1
  BY <1>4, <1>5, PushedPointers
<1>8. FeesOfLogs' = FeesOfLogs + Fee
  BY <1>7, FeeOfLog
<1>9. HeldForBlocks = HeldForBlocks' + CmcCycles /\ HeldForBlocks' \in Nat
  <2>1. Cardinality(ToBeCredited) = Cardinality(ToBeCredited') + 1
    BY <1>2, <1>4, <1>5, <1>7, BlockCredited
  <2>2. IsFiniteSet(ToBeCredited') /\ Cardinality(ToBeCredited') \in Nat
    <3>1. ToBeCredited' \in SUBSET (1 .. Len(icp_blocks))
      BY <1>4 DEF ToBeCredited
    <3>2. IsFiniteSet(1 .. Len(icp_blocks))
      BY FS_Interval DEF AccountsKept, MintInv, MintTypes
    <3> QED
      BY <3>1, <3>2, FS_Subset, FS_CardinalityType
  <2>3. \A m, n \in Nat : m * (n + 1) = m * n + m
    OBVIOUS
  <2> QED
    BY <2>1, <2>2, <2>3, BankAssumption DEF HeldForBlocks
<1>10. /\ IsFiniteSet(InProgress') /\ KeptByOuts' = KeptByOuts
       /\ \A v \in User : TakenByOuts(v)' = TakenByOuts(v)
  BY <1>4, SameOuts
<1>11. /\ balances' \in [User -> Nat] /\ total_supply' \in Nat
       /\ total_supply' = SumFunction(balances')
       /\ \A v \in User : balances'[v] = balances[v] + (IF v = to THEN Minted ELSE 0)
  BY <1>2, <1>3, <1>4, Credit
<1>12. \A v \in User : balances'[v] = Effects(v)' - TakenByOuts(v)'
  <2> TAKE v \in User
  <2>1. /\ Effects(v) \in Int /\ Effect(log, v) \in Int
        /\ Effects(v)' = Effects(v) + Effect(log, v)
    BY <1>5, <1>7, LogAdded
  <2>2. balances[v] = Effects(v) - TakenByOuts(v) /\ TakenByOuts(v) \in Int
    BY AccountFacts
  <2>3. balances'[v] = balances[v] + Effect(log, v)
    BY <1>6, <1>11
  <2> QED
    BY <1>10, <2>1, <2>2, <2>3
<1>13. /\ canister_cycles' = total_supply' + FeesOfLogs' + KeptByOuts' + HeldForBlocks'
       /\ canister_cycles' \in Nat
  <2>1. /\ HeldForBlocks' = HeldForBlocks - (Minted + Fee) /\ total_supply' = total_supply + Minted
        /\ canister_cycles' = canister_cycles
    BY <1>3, <1>4, <1>9, Totals
  <2> QED
    BY <1>3, <1>8, <1>10, <2>1, Totals
<1> QED
  BY <1>7, <1>10, <1>11, <1>12, <1>13 DEF AccountGoal

LEMMA NotifyAccounts ==
  ASSUME AccountsKept, NEW u \in User, CmcNotifyReturns(u)
  PROVE  AccountGoal /\ PointersGoal
<1>1. CASE minting[u].answer = "minted"
  BY <1>1, CreditAccounts
<1>2. CASE minting[u].answer # "minted"
  <2>1. UNCHANGED <<ledgerVars, outs, canister_cycles, icp_blocks>>
    BY <1>2 DEF CmcNotifyReturns, ledgerVars
  <2> QED
    BY <2>1, SameLogs, MintAccounts DEF ledgerVars
<1> QED
  BY <1>1, <1>2

(* Every step. *)
LEMMA UsersAccounts == AccountsKept /\ Users => AccountGoal /\ PointersGoal
<1> SUFFICES ASSUME AccountsKept, Users PROVE AccountGoal /\ PointersGoal
  OBVIOUS
<1>1. CASE \E u, v \in User, n \in Amount : icrc1_transfer(u, v, n)
  BY <1>1, TransferAccounts
<1>2. CASE \E u \in User, n \in Amount : cycles_in(u, n)
  BY <1>2, CyclesInAccounts
<1>3. CASE \E u \in User, n \in Amount, c \in Call : CyclesOut(c, u, n)
  BY <1>3, CyclesOutAccounts
<1>4. CASE \E u, v \in User : MintCycles(u, v)
  <2>1. UNCHANGED <<ledgerVars, outs, canister_cycles, icp_blocks>>
    BY <1>4 DEF MintCycles
  <2> QED
    BY <2>1, SameLogs, MintAccounts DEF ledgerVars
<1>5. CASE \E u \in User : CompleteMintCycles(u)
  <2>1. UNCHANGED <<ledgerVars, outs, canister_cycles, icp_blocks>>
    BY <1>5 DEF CompleteMintCycles
  <2> QED
    BY <2>1, SameLogs, MintAccounts DEF ledgerVars
<1>6. CASE controller_clear_user_logs_pointers_cache
  BY <1>6, ClearAccounts
<1> QED
  BY <1>1, <1>2, <1>3, <1>4, <1>5, <1>6 DEF Users

LEMMA CalleesAccounts == AccountsKept /\ Callees => AccountGoal /\ PointersGoal
<1> SUFFICES ASSUME AccountsKept, Callees PROVE AccountGoal /\ PointersGoal
  OBVIOUS
<1>1. CASE \E c \in Call : DepositCycles(c) \/ DepositFails(c)
  BY <1>1, DepositAccounts
<1>2. CASE \E u \in User : IcpTransfer(u)
  BY <1>2, IcpTransferAccounts
<1>3. CASE \E u \in User : IcpTransferFails(u) \/ CmcAnswers(u)
  <2>1. UNCHANGED <<ledgerVars, outs, canister_cycles, icp_blocks>>
    BY <1>3 DEF IcpTransferFails, CmcAnswers
  <2> QED
    BY <2>1, SameLogs, MintAccounts DEF ledgerVars
<1>4. CASE \E b \in 1 .. Len(icp_blocks) : CmcProcesses(b)
  BY <1>4, CmcProcessesAccounts
<1> QED
  BY <1>1, <1>2, <1>3, <1>4 DEF Callees

LEMMA ReturnsAccounts == AccountsKept /\ Returns => AccountGoal /\ PointersGoal
<1> SUFFICES ASSUME AccountsKept, Returns PROVE AccountGoal /\ PointersGoal
  OBVIOUS
<1>1. CASE \E c \in Call : CyclesOutReturns(c)
  BY <1>1, BurnAccounts, RefundAccounts
<1>2. CASE \E u \in User : IcpTransferReturns(u)
  <2>1. UNCHANGED <<ledgerVars, outs, canister_cycles, icp_blocks>>
    BY <1>2 DEF IcpTransferReturns
  <2> QED
    BY <2>1, SameLogs, MintAccounts DEF ledgerVars
<1>3. CASE \E u \in User : CmcNotifyReturns(u)
  BY <1>3, NotifyAccounts
<1> QED
  BY <1>1, <1>2, <1>3 DEF Returns

LEMMA InitAccounts == Init => AccountsKept
<1> SUFFICES ASSUME Init PROVE AccountsKept
  OBVIOUS
<1>1. MintInv
  BY InitMints
<1>2. InProgress = {} /\ ToBeCredited = {} /\ Len(logs) = 0 /\ 1 .. Len(logs) = {}
  BY DEF Init, InProgress, ToBeCredited
<1>3. AccountTypes
  BY <1>2, FS_EmptySet DEF Init, AccountTypes
<1>4. KeptByOuts = 0 /\ \A u \in User : TakenByOuts(u) = 0 /\ Effects(u) = 0
  <2>1. KeptByOuts = 0
    BY <1>2, SumNothing DEF KeptByOuts
  <2>2. ASSUME NEW u \in User PROVE TakenByOuts(u) = 0 /\ Effects(u) = 0
    <3>1. {d \in InProgress : outs[d].from = u} = {}
      BY <1>2
    <3> QED
      BY <1>2, <3>1, SumNothing DEF TakenByOuts, Effects
  <2> QED
    BY <2>1, <2>2
<1>5. SumFunction(balances) = 0
  <2>1. DOMAIN balances = User /\ \A u \in User : balances[u] = 0
    BY DEF Init
  <2> QED
    BY <2>1, SumZero, BankAssumption
<1>6. FeesOfLogs = 0 /\ HeldForBlocks = 0
  <2>1. Cardinality(ToBeCredited) = 0
    BY <1>2, FS_EmptySet
  <2> QED
    BY <1>2, <2>1, BankAssumption DEF FeesOfLogs, HeldForBlocks
<1> QED
  BY <1>1, <1>3, <1>4, <1>5, <1>6, Accounts DEF AccountsKept, Init

(* What the bank holds and what the logs tell, with the types and the      *)
(* mints, is kept by every step: the conjuncts need each other, as a       *)
(* balance is never more than the supply and the supply never more than    *)
(* what the bank holds.                                                    *)
THEOREM AccountsInvariant == Spec => []AccountsKept
<1>1. AccountsKept /\ [Next]_vars => AccountsKept'
  <2> SUFFICES ASSUME AccountsKept, [Next]_vars PROVE AccountsKept'
    OBVIOUS
  <2>1. CASE Next
    BY <2>1, UsersAccounts, CalleesAccounts, ReturnsAccounts, GoalReached DEF Next
  <2>2. CASE UNCHANGED vars
    <3>1. UNCHANGED <<ledgerVars, outs, canister_cycles, icp_blocks>>
      BY <2>2 DEF vars, mintVars
    <3>2. AccountGoal /\ PointersGoal
      BY <3>1, SameLogs, MintAccounts DEF ledgerVars
    <3> QED
      BY <3>2, GoalReached
  <2> QED
    BY <2>1, <2>2
<1> QED
  BY InitAccounts, <1>1, PTL DEF Spec

(* Every cycle that the bank holds is accounted for, whatever transfers,   *)
(* burns, refunds and mints are in progress (canister_cycles_balance_minus_ *)
(* total_supply); with it all data has its type: no subtraction of the     *)
(* ledger ever goes below zero, and the bank can always pay its supply.    *)
THEOREM CyclesAreAccounted == Spec => []AccountsInv
<1>1. AccountsKept => AccountsInv
  BY DEF AccountsKept, MintInv, MintTypes, AccountTypes, AccountsInv, TypeOK, BlockStatus
<1> QED
  BY AccountsInvariant, <1>1, PTL

(* The logs replay to every user's balance, and the balances add up to the *)
(* total supply.                                                           *)
THEOREM LogsTellBalances == Spec => []LogsReplayToBalances
<1>1. AccountsKept => LogsReplayToBalances
  BY DEF AccountsKept
<1> QED
  BY AccountsInvariant, <1>1, PTL

----------------------------------------------------------------------------
(* The pages of a user's logs. *)

(* The places in a list of logs, from a place on, of the logs that a user  *)
(* has a part in.                                                          *)
Mine(lgs, from, u) == {i \in from .. Len(lgs) - 1 : u \in {lgs[i + 1].from, lgs[i + 1].to}}

Increasing(p) == \A i, j \in 1 .. Len(p) : i < j => p[i] < p[j]

(* The pointers of a user are these places, once each and in order. *)
PointsTo(p, lgs, from, u) ==
  /\ Len(p) <= Len(lgs)
  /\ Increasing(p)
  /\ \A i \in 1 .. Len(p) : p[i] \in Mine(lgs, from, u)
  /\ \A x \in Mine(lgs, from, u) : \E i \in 1 .. Len(p) : p[i] = x

(* The inductive invariant. *)
LogsNoted == \A u \in User : PointsTo(pointers[u], logs, cleared, u)
PointersKept == AccountsKept /\ LogsNoted

(* A log more. *)
LEMMA MineOneMore ==
  ASSUME NEW lgs \in Seq(LogType), NEW log \in LogType, NEW from \in 0 .. Len(lgs), NEW u
  PROVE  Mine(Append(lgs, log), from, u) =
           Mine(lgs, from, u) \cup (IF u \in {log.from, log.to} THEN {Len(lgs)} ELSE {})
<1> DEFINE more == Append(lgs, log)
<1>1. /\ Len(lgs) \in Nat /\ Len(more) = Len(lgs) + 1 /\ more[Len(lgs) + 1] = log
      /\ \A i \in 1 .. Len(lgs) : more[i] = lgs[i]
  OBVIOUS
<1> HIDE DEF more
<1>2. \A i \in from .. Len(lgs) - 1 : i + 1 \in 1 .. Len(lgs) /\ more[i + 1] = lgs[i + 1]
  BY <1>1
<1>3. from .. Len(more) - 1 = (from .. Len(lgs) - 1) \cup {Len(lgs)}
  BY <1>1
<1>4. Len(lgs) \notin from .. Len(lgs) - 1
  BY <1>1
<1> QED
  BY <1>1, <1>2, <1>3, <1>4, Zenon DEF Mine, more

LEMMA PointsOneMore ==
  ASSUME NEW p \in Seq(Nat), NEW lgs \in Seq(LogType), NEW log \in LogType,
         NEW from \in 0 .. Len(lgs), NEW u, PointsTo(p, lgs, from, u)
  PROVE  PointsTo(p \o (IF u \in {log.from, log.to} THEN <<Len(lgs)>> ELSE <<>>),
                  Append(lgs, log), from, u)
<1>1. /\ Len(lgs) \in Nat /\ Len(p) \in Nat /\ Len(Append(lgs, log)) = Len(lgs) + 1
      /\ \A i \in 1 .. Len(p) : p[i] \in Nat
  OBVIOUS
<1>2. \A i \in 1 .. Len(p) : p[i] < Len(lgs)
  BY <1>1 DEF PointsTo, Mine
<1>3. CASE u \in {log.from, log.to}
  <2> DEFINE q == p \o <<Len(lgs)>>
  <2>1. /\ Len(q) = Len(p) + 1 /\ q[Len(p) + 1] = Len(lgs)
        /\ \A i \in 1 .. Len(p) : q[i] = p[i]
    BY <1>1
  <2> HIDE DEF q
  <2>2. Mine(Append(lgs, log), from, u) = Mine(lgs, from, u) \cup {Len(lgs)}
    BY <1>3, MineOneMore
  <2>3. Increasing(q)
    <3>1. ASSUME NEW i \in 1 .. Len(q), NEW j \in 1 .. Len(q), i < j
          PROVE  q[i] < q[j]
      <4>1. i \in 1 .. Len(p) /\ i \in Nat /\ j \in Nat /\ (j \in 1 .. Len(p) \/ j = Len(p) + 1)
        BY <1>1, <2>1, <3>1
      <4>2. Increasing(p)
        BY DEF PointsTo
      <4>3. CASE j \in 1 .. Len(p)
        BY <2>1, <3>1, <4>1, <4>2, <4>3 DEF Increasing
      <4>4. CASE j = Len(p) + 1
        BY <1>2, <2>1, <4>1, <4>4
      <4> QED
        BY <4>1, <4>3, <4>4
    <3> QED
      BY <3>1 DEF Increasing
  <2>4. \A i \in 1 .. Len(q) : i \in 1 .. Len(p) \/ i = Len(p) + 1
    BY <1>1, <2>1
  <2>5. /\ Len(p) + 1 \in 1 .. Len(q) /\ \A i \in 1 .. Len(p) : i \in 1 .. Len(q)
        /\ Len(q) <= Len(Append(lgs, log))
    BY <1>1, <2>1 DEF PointsTo
  <2>6. \A i \in 1 .. Len(q) : q[i] \in Mine(lgs, from, u) \cup {Len(lgs)}
    BY <2>1, <2>4 DEF PointsTo
  <2>7. \A x \in Mine(lgs, from, u) \cup {Len(lgs)} : \E i \in 1 .. Len(q) : q[i] = x
    BY <2>1, <2>5 DEF PointsTo
  <2>8. PointsTo(q, Append(lgs, log), from, u)
    BY <2>2, <2>3, <2>5, <2>6, <2>7 DEF PointsTo
  <2> QED
    BY <1>3, <2>8 DEF q
<1>4. CASE u \notin {log.from, log.to}
  <2>1. Mine(Append(lgs, log), from, u) = Mine(lgs, from, u)
    <3>1. Mine(Append(lgs, log), from, u)
            = Mine(lgs, from, u) \cup (IF u \in {log.from, log.to} THEN {Len(lgs)} ELSE {})
      BY MineOneMore
    <3>2. \A S : S \cup {} = S
      OBVIOUS
    <3> QED
      BY <1>4, <3>1, <3>2, Zenon
  <2>2. p \o <<>> = p
    OBVIOUS
  <2>3. PointsTo(p, Append(lgs, log), from, u)
    BY <1>1, <2>1 DEF PointsTo
  <2> QED
    BY <1>4, <2>2, <2>3
<1> QED
  BY <1>3, <1>4

LEMMA PushNotes ==
  ASSUME PointersKept, NEW log \in LogType, PushLog(log), UNCHANGED cleared
  PROVE  LogsNoted'
<1>1. /\ pointers \in [User -> Seq(Nat)] /\ cleared \in 0 .. Len(logs)
      /\ logs \in Seq(LogType)
  BY AccountFacts DEF PointersKept, AccountsKept, AccountTypes
<1>2. ASSUME NEW u \in User
      PROVE  PointsTo(pointers'[u], logs', cleared', u)
  <2>1. /\ pointers'[u] = pointers[u] \o (IF u \in {log.from, log.to} THEN <<Len(logs)>> ELSE <<>>)
        /\ logs' = Append(logs, log) /\ cleared' = cleared
    BY DEF PushLog, Noted
  <2>2. pointers[u] \in Seq(Nat) /\ PointsTo(pointers[u], logs, cleared, u)
    BY <1>1 DEF PointersKept, LogsNoted
  <2> QED
    BY <1>1, <2>1, <2>2, PointsOneMore
<1> QED
  BY <1>2 DEF LogsNoted

LEMMA ClearNotes ==
  ASSUME PointersKept, controller_clear_user_logs_pointers_cache
  PROVE  LogsNoted'
<1>1. Len(logs) \in Nat /\ logs' = logs /\ cleared' = Len(logs)
  BY AccountFacts DEF PointersKept, controller_clear_user_logs_pointers_cache
<1>2. ASSUME NEW u \in User
      PROVE  PointsTo(pointers'[u], logs', cleared', u)
  <2>1. pointers'[u] = <<>>
    BY DEF controller_clear_user_logs_pointers_cache
  <2>2. Mine(logs, Len(logs), u) = {}
    BY <1>1 DEF Mine
  <2> QED
    BY <1>1, <2>1, <2>2 DEF PointsTo, Increasing
<1> QED
  BY <1>2 DEF LogsNoted

LEMMA SameNotes ==
  ASSUME PointersKept, UNCHANGED <<pointers, cleared, logs>>
  PROVE  LogsNoted'
BY DEF PointersKept, LogsNoted

LEMMA UsersNote == PointersKept /\ Users => LogsNoted'
<1> SUFFICES ASSUME PointersKept, Users PROVE LogsNoted'
  OBVIOUS
<1>1. CASE \E u, v \in User, n \in Amount : icrc1_transfer(u, v, n)
  <2>1. PICK u \in User, v \in User, n \in Amount : icrc1_transfer(u, v, n)
    BY <1>1
  <2> DEFINE log == [op |-> "xfer", from |-> u, to |-> v, amt |-> n, block |-> None]
  <2>2. log \in LogType
    BY BankAssumption DEF LogType
  <2> QED
    BY <2>1, <2>2, PushNotes DEF icrc1_transfer
<1>2. CASE \E u \in User, n \in Amount : cycles_in(u, n)
  <2>1. PICK u \in User, n \in Amount : cycles_in(u, n)
    BY <1>2
  <2> DEFINE log == [op |-> "mint", from |-> None, to |-> u, amt |-> n, block |-> None]
  <2>2. log \in LogType
    BY BankAssumption DEF LogType
  <2> QED
    BY <2>1, <2>2, PushNotes DEF cycles_in
<1>3. CASE \E u \in User, n \in Amount, c \in Call : CyclesOut(c, u, n)
  BY <1>3, SameNotes DEF CyclesOut
<1>4. CASE \E u, v \in User : MintCycles(u, v)
  BY <1>4, SameNotes DEF MintCycles, ledgerVars
<1>5. CASE \E u \in User : CompleteMintCycles(u)
  BY <1>5, SameNotes DEF CompleteMintCycles, ledgerVars
<1>6. CASE controller_clear_user_logs_pointers_cache
  BY <1>6, ClearNotes
<1> QED
  BY <1>1, <1>2, <1>3, <1>4, <1>5, <1>6 DEF Users

LEMMA CalleesNote == PointersKept /\ Callees => LogsNoted'
BY SameNotes DEF Callees, DepositCycles, DepositFails, IcpTransfer, IcpTransferFails, CmcAnswers,
                 CmcProcesses, ledgerVars

LEMMA ReturnsNote == PointersKept /\ Returns => LogsNoted'
<1> SUFFICES ASSUME PointersKept, Returns PROVE LogsNoted'
  OBVIOUS
<1>1. CASE \E c \in Call : CyclesOutReturns(c)
  <2>1. PICK c \in Call : CyclesOutReturns(c)
    BY <1>1
  <2>2. CASE outs[c].answer = "ok"
    <3> DEFINE log == [op |-> "burn", from |-> outs[c].from, to |-> None,
                       amt |-> BurnAmount(outs[c]), block |-> None]
    <3>1. outs[c] \in OutType
      BY <2>1, AccountFacts DEF CyclesOutReturns, PointersKept
    <3>2. log \in LogType
      BY <3>1, BankAssumption DEF OutType, LogType, BurnAmount
    <3>3. PushLog(log) /\ UNCHANGED cleared
      BY <2>1, <2>2 DEF CyclesOutReturns
    <3> QED
      BY <3>2, <3>3, PushNotes
  <2>3. CASE outs[c].answer # "ok"
    BY <2>1, <2>3, SameNotes DEF CyclesOutReturns
  <2> QED
    BY <2>2, <2>3
<1>2. CASE \E u \in User : IcpTransferReturns(u)
  BY <1>2, SameNotes DEF IcpTransferReturns, ledgerVars
<1>3. CASE \E u \in User : CmcNotifyReturns(u)
  <2>1. PICK u \in User : CmcNotifyReturns(u)
    BY <1>3
  <2>2. CASE minting[u].answer = "minted"
    <3> DEFINE log == [op |-> "mint", from |-> None, to |-> minting[u].to, amt |-> Minted,
                       block |-> minting[u].block]
    <3>1. minting[u] \in MintingType
      BY DEF PointersKept, AccountsKept, MintInv, MintTypes
    <3>2. log \in LogType
      BY <3>1, BankAssumption DEF MintingType, LogType, Minted, SatSub
    <3>3. PushLog(log) /\ UNCHANGED cleared
      BY <2>1, <2>2, BankAssumption DEF CmcNotifyReturns
    <3> QED
      BY <3>2, <3>3, PushNotes
  <2>3. CASE minting[u].answer # "minted"
    BY <2>1, <2>3, SameNotes DEF CmcNotifyReturns
  <2> QED
    BY <2>2, <2>3
<1> QED
  BY <1>1, <1>2, <1>3 DEF Returns

(* A part of a list, and what follows it. *)
LEMMA PartsJoin ==
  ASSUME NEW p \in Seq(Nat), NEW a \in 0 .. Len(p), NEW b \in a .. Len(p)
  PROVE  SubSeq(p, a + 1, b) \o SubSeq(p, b + 1, Len(p)) = SubSeq(p, a + 1, Len(p))
<1> DEFINE s == SubSeq(p, a + 1, b)
           t == SubSeq(p, b + 1, Len(p))
           w == SubSeq(p, a + 1, Len(p))
<1>1. Len(p) \in Nat /\ a \in Nat /\ b \in Nat /\ a <= b /\ b <= Len(p)
  OBVIOUS
<1>2. /\ s = [i \in 1 .. b - a |-> p[i + a]] /\ Len(s) = b - a
      /\ t = [i \in 1 .. Len(p) - b |-> p[i + b]] /\ Len(t) = Len(p) - b
      /\ w = [i \in 1 .. Len(p) - a |-> p[i + a]]
      /\ s \in Seq(Nat) /\ t \in Seq(Nat)
  OBVIOUS
<1> HIDE DEF s, t, w
<1>3. s \o t = [i \in 1 .. Len(s) + Len(t) |-> IF i <= Len(s) THEN s[i] ELSE t[i - Len(s)]]
  BY <1>2
<1>4. ASSUME NEW i \in 1 .. Len(p) - a
      PROVE  (IF i <= Len(s) THEN s[i] ELSE t[i - Len(s)]) = p[i + a]
  <2>1. CASE i <= b - a
    BY <1>1, <1>2, <2>1
  <2>2. CASE i > b - a
    <3>1. i - (b - a) \in 1 .. Len(p) - b /\ i - (b - a) + b = i + a
      BY <1>1, <2>2
    <3>2. t[i - (b - a)] = p[i + a]
      BY <1>2, <3>1
    <3> QED
      BY <1>1, <1>2, <2>2, <3>2
  <2> QED
    BY <1>1, <2>1, <2>2
<1>5. Len(s) + Len(t) = Len(p) - a
  BY <1>1, <1>2
<1>6. s \o t = w
  BY <1>2, <1>3, <1>4, <1>5
<1> QED
  BY <1>6 DEF s, t, w

(* The first place of a page is found again by the log that is there. *)
LEMMA PlaceFound ==
  ASSUME NEW p \in Seq(Nat), Increasing(p), NEW s \in Nat, s < Len(p)
  PROVE  Cardinality({i \in 1 .. Len(p) : p[i] < p[s + 1]}) = s
<1>1. /\ Len(p) \in Nat /\ s + 1 \in 1 .. Len(p)
      /\ \A i \in 1 .. Len(p) : p[i] \in Nat
  OBVIOUS
<1>2. \A i \in 1 .. Len(p) : p[i] < p[s + 1] <=> i <= s
  <2> TAKE i \in 1 .. Len(p)
  <2>1. i <= s => p[i] < p[s + 1]
    BY <1>1 DEF Increasing
  <2>2. i > s + 1 => p[s + 1] < p[i]
    BY <1>1 DEF Increasing
  <2>3. i = s + 1 \/ i <= s \/ i > s + 1
    BY <1>1
  <2>4. p[i] \in Nat /\ p[s + 1] \in Nat
    BY <1>1
  <2> QED
    BY <2>1, <2>2, <2>3, <2>4
<1>3. {i \in 1 .. Len(p) : p[i] < p[s + 1]} = 1 .. s
  BY <1>1, <1>2
<1>4. Cardinality(1 .. s) = IF 1 > s THEN 0 ELSE s - 1 + 1
  BY FS_Interval
<1>5. Cardinality(1 .. s) = s
  BY <1>4
<1> QED
  BY <1>3, <1>5

(* A page that ends at a place, and the list from there on that was read.  *)
Page(u, read, before) ==
  [logs |-> GetLogsBackwards(u, before).logs \o read,
   last |-> GetLogsBackwards(u, before).is_last_chunk]
From(p, s) == [logs |-> SubSeq(p, s + 1, Len(p)), last |-> s = 0]

LEMMA FromLast == \A p, s : From(p, s).last = (s = 0)
BY Zenon DEF From

LEMMA FirstPage ==
  ASSUME NEW u, pointers[u] \in Seq(Nat)
  PROVE  Page(u, <<>>, None) = From(pointers[u], SatSub(Len(pointers[u]), ChunkSize))
<1> DEFINE p == pointers[u]
           s == SatSub(Len(p), ChunkSize)
<1>1. /\ GetLogsBackwards(u, None).logs = SubSeq(p, s + 1, Len(p))
      /\ GetLogsBackwards(u, None).is_last_chunk = (s = 0)
  BY DEF GetLogsBackwards
<1>2. Len(p) \in Nat /\ s \in Nat
  BY BankAssumption DEF SatSub
<1>3. SubSeq(p, s + 1, Len(p)) \in Seq(Nat)
  BY <1>2, BankAssumption DEF SatSub
<1>4. \A q \in Seq(Nat) : q \o <<>> = q
  OBVIOUS
<1> QED
  BY <1>1, <1>3, <1>4 DEF Page, From

LEMMA NextPage ==
  ASSUME NEW u, pointers[u] \in Seq(Nat), Increasing(pointers[u]),
         NEW s \in Nat, s # 0, s < Len(pointers[u])
  PROVE  LET read == From(pointers[u], s).logs
         IN Page(u, read, Head(read)) = From(pointers[u], SatSub(s, ChunkSize))
<1> DEFINE p == pointers[u]
           read == SubSeq(p, s + 1, Len(p))
           r == SatSub(s, ChunkSize)
<1>1. Len(p) \in Nat /\ s \in 0 .. Len(p) /\ r \in 0 .. s /\ s \in r .. Len(p) /\ r \in 0 .. Len(p)
  BY BankAssumption DEF SatSub
<1>2. Head(read) = p[s + 1] /\ p[s + 1] \in Nat
  BY <1>1
<1>3. Head(read) # None
  BY <1>2, BankAssumption
<1>4. Cardinality({i \in 1 .. Len(p) : p[i] < p[s + 1]}) = s
  BY <1>1, PlaceFound
<1>5. Cardinality({i \in 1 .. Len(p) : p[i] < Head(read)}) = s
  BY <1>2, <1>4
<1>6. /\ GetLogsBackwards(u, Head(read)).logs = SubSeq(p, r + 1, s)
      /\ GetLogsBackwards(u, Head(read)).is_last_chunk = (r = 0)
  BY <1>3, <1>5, Zenon DEF GetLogsBackwards
<1>7. SubSeq(p, r + 1, s) \o read = SubSeq(p, r + 1, Len(p))
  BY <1>1, PartsJoin
<1>8. From(p, s).logs = read
  BY DEF From
<1> QED
  BY <1>6, <1>7, <1>8 DEF Page, From

(* The reader's pages, one after the other. *)
IsRead(g, u) ==
  g = [n \in 0 .. Len(logs) |->
         IF n = 0 THEN Page(u, <<>>, None)
         ELSE IF g[n - 1].last THEN g[n - 1]
         ELSE Page(u, g[n - 1].logs, Head(g[n - 1].logs))]

LEMMA ReadIs ==
  ASSUME NEW u
  PROVE  LogsRead(u) = (CHOOSE g : IsRead(g, u))[Len(logs)]
BY DEF LogsRead, IsRead, Page

(* What is left of a list before its last n + 1 chunks. *)
Rest(p, n) == SatSub(Len(p), (n + 1) * ChunkSize)

LEMMA RestOf ==
  ASSUME NEW p \in Seq(Nat), NEW n \in Nat
  PROVE  /\ Rest(p, 0) = SatSub(Len(p), ChunkSize)
         /\ Rest(p, n) \in Nat /\ Rest(p, n + 1) = SatSub(Rest(p, n), ChunkSize)
         /\ Rest(p, n) # 0 => Rest(p, n) < Len(p)
         /\ n >= Len(p) => Rest(p, n) = 0
<1> DEFINE c == (n + 1) * ChunkSize
<1>1. ChunkSize \in Nat /\ ChunkSize >= 1 /\ Len(p) \in Nat
  BY BankAssumption
<1>2. (n + 1) * ChunkSize \in Nat /\ (n + 1) * ChunkSize >= n + 1
      /\ (n + 1 + 1) * ChunkSize = (n + 1) * ChunkSize + ChunkSize
      /\ (0 + 1) * ChunkSize = ChunkSize
  BY <1>1
<1> HIDE DEF c
<1>3. c \in Nat /\ c >= n + 1 /\ (n + 1 + 1) * ChunkSize = c + ChunkSize
  BY <1>2 DEF c
<1>4. Rest(p, n) = SatSub(Len(p), c) /\ Rest(p, n + 1) = SatSub(Len(p), c + ChunkSize)
      /\ Rest(p, 0) = SatSub(Len(p), ChunkSize)
  <2>1. c = (n + 1) * ChunkSize
    BY DEF c
  <2>2. /\ Rest(p, n) = SatSub(Len(p), (n + 1) * ChunkSize)
        /\ Rest(p, n + 1) = SatSub(Len(p), (n + 1 + 1) * ChunkSize)
        /\ Rest(p, 0) = SatSub(Len(p), (0 + 1) * ChunkSize)
    BY DEF Rest
  <2> QED
    BY ONLY <1>2, <1>3, <2>1, <2>2
<1> QED
  BY <1>1, <1>3, <1>4 DEF SatSub

LEMMA ReadExists ==
  ASSUME NEW u, pointers[u] \in Seq(Nat), Increasing(pointers[u]), Len(logs) \in Nat
  PROVE  IsRead([n \in 0 .. Len(logs) |-> From(pointers[u], Rest(pointers[u], n))], u)
<1> DEFINE p == pointers[u]
           h == [n \in 0 .. Len(logs) |-> From(p, Rest(p, n))]
<1>1. ASSUME NEW n \in 0 .. Len(logs)
      PROVE  h[n] = IF n = 0 THEN Page(u, <<>>, None)
                    ELSE IF h[n - 1].last THEN h[n - 1]
                    ELSE Page(u, h[n - 1].logs, Head(h[n - 1].logs))
  <2>1. CASE n = 0
    <3>1. h[0] = From(p, Rest(p, 0))
      BY <2>1
    <3> QED
      BY <2>1, <3>1, RestOf, FirstPage
  <2>2. CASE n # 0
    <3>1. n - 1 \in Nat /\ n - 1 \in 0 .. Len(logs) /\ n - 1 + 1 = n
      BY <2>2
    <3> DEFINE r == Rest(p, n - 1)
    <3>2. h[n - 1] = From(p, r) /\ h[n] = From(p, Rest(p, n))
      BY <3>1
    <3>3. r \in Nat /\ Rest(p, n - 1 + 1) = SatSub(r, ChunkSize) /\ (r # 0 => r < Len(p))
      BY <3>1, RestOf
    <3>4. Rest(p, n) = SatSub(r, ChunkSize)
      BY <3>1, <3>3
    <3> HIDE DEF r, h
    <3>5. CASE r = 0
      <4>1. SatSub(0, ChunkSize) = 0
        BY BankAssumption DEF SatSub
      <4>2. h[n] = h[n - 1]
        BY <3>2, <3>4, <3>5, <4>1
      <4>3. From(p, r).last = (r = 0)
        BY ONLY FromLast, Zenon
      <4>4. From(p, r).last
        BY ONLY <3>5, <4>3, Zenon
      <4>5. h[n - 1].last
        BY ONLY <3>2, <4>4, Zenon
      <4> QED
        BY <2>2, <4>2, <4>5
    <3>6. CASE r # 0
      <4>1. h[n] = Page(u, h[n - 1].logs, Head(h[n - 1].logs))
        BY <3>2, <3>3, <3>4, <3>6, NextPage
      <4>2. From(p, r).last = (r = 0)
        BY ONLY FromLast, Zenon
      <4>3. ~From(p, r).last
        BY ONLY <3>6, <4>2, Zenon
      <4>4. ~ h[n - 1].last
        BY ONLY <3>2, <4>3, Zenon
      <4> QED
        BY <2>2, <4>1, <4>4
    <3> QED
      BY <3>5, <3>6
  <2> QED
    BY <2>1, <2>2
<1>2. h = [n \in 0 .. Len(logs) |-> h[n]]
  OBVIOUS
<1> HIDE DEF h
<1>3. IsRead(h, u)
  BY <1>1, <1>2 DEF IsRead
<1> QED
  BY <1>3 DEF h

LEMMA ReadUnique ==
  ASSUME NEW u, NEW g, NEW h, IsRead(g, u), IsRead(h, u), Len(logs) \in Nat
  PROVE  g[Len(logs)] = h[Len(logs)]
<1> DEFINE T == {n \in 0 .. Len(logs) : g[n] # h[n]}
<1>1. ASSUME T # {} PROVE FALSE
  <2>0. T \subseteq 0 .. Len(logs) /\ T \subseteq Nat
    OBVIOUS
  <2> HIDE DEF T
  <2>1. PICK m \in T : \A n \in T : m <= n
    BY <1>1, <2>0, LeastNat
  <2>2. m \in 0 .. Len(logs) /\ g[m] # h[m]
    BY DEF T
  <2>3. CASE m = 0
    BY <2>2, <2>3 DEF IsRead
  <2>4. CASE m # 0
    <3>1. m - 1 \in 0 .. Len(logs) /\ m - 1 < m
      BY <2>2, <2>4
    <3>2. g[m - 1] = h[m - 1]
      BY <2>1, <2>2, <3>1 DEF T
    <3> QED
      BY <2>2, <2>4, <3>2 DEF IsRead
  <2> QED
    BY <2>3, <2>4
<1>2. Len(logs) \in 0 .. Len(logs)
  OBVIOUS
<1> QED
  BY <1>1, <1>2

LEMMA ReadAll ==
  ASSUME NEW u, pointers[u] \in Seq(Nat), Increasing(pointers[u]), Len(logs) \in Nat,
         Len(pointers[u]) <= Len(logs)
  PROVE  LogsRead(u) = [logs |-> pointers[u], last |-> TRUE]
<1> DEFINE p == pointers[u]
           h == [n \in 0 .. Len(logs) |-> From(p, Rest(p, n))]
           g == CHOOSE g : IsRead(g, u)
<1>1. IsRead(h, u)
  BY ReadExists
<1>2. IsRead(g, u)
  BY <1>1
<1>3. g[Len(logs)] = h[Len(logs)]
  BY <1>1, <1>2, ReadUnique
<1>4. h[Len(logs)] = From(p, 0)
  BY RestOf
<1>5. SubSeq(p, 0 + 1, Len(p)) = p
  OBVIOUS
<1> QED
  BY <1>3, <1>4, <1>5, ReadIs DEF From

(* The pointers of every user are the places of his logs since they were   *)
(* cleared, after every step.                                              *)
THEOREM PointersInvariant == Spec => []PointersKept
<1>1. Init => LogsNoted
  <2> SUFFICES ASSUME Init, NEW u \in User PROVE PointsTo(pointers[u], logs, cleared, u)
    BY DEF LogsNoted
  <2>1. pointers[u] = <<>> /\ logs = <<>> /\ cleared = 0
    BY DEF Init
  <2>2. Mine(<<>>, 0, u) = {}
    BY DEF Mine
  <2> QED
    BY <2>1, <2>2 DEF PointsTo, Increasing
<1>2. PointersKept /\ [Next]_vars => LogsNoted'
  BY UsersNote, CalleesNote, ReturnsNote, SameNotes DEF Next, vars, ledgerVars
<1>3. PointersKept <=> AccountsKept /\ LogsNoted
  BY DEF PointersKept
<1> QED
  BY AccountsInvariant, <1>1, <1>2, <1>3, PTL DEF Spec

(* A user who asks for the logs before the first one that he has gets all  *)
(* of his logs, once each and in order, and knows when he has them         *)
(* (get_logs_backwards).                                                   *)
THEOREM PagesFindLogs == Spec => []PagesFindAllLogs
<1>1. ASSUME PointersKept
      PROVE  PagesFindAllLogs
  <2> SUFFICES ASSUME NEW u \in User
               PROVE  /\ LogsRead(u).last
                      /\ Increasing(LogsRead(u).logs)
                      /\ Range(LogsRead(u).logs) = Mine(logs, cleared, u)
    BY DEF PagesFindAllLogs, Increasing, Mine
  <2>1. pointers[u] \in Seq(Nat) /\ Len(logs) \in Nat /\ PointsTo(pointers[u], logs, cleared, u)
    BY <1>1, AccountFacts DEF PointersKept, AccountsKept, AccountTypes, LogsNoted
  <2>2. LogsRead(u) = [logs |-> pointers[u], last |-> TRUE]
    BY <2>1, ReadAll DEF PointsTo
  <2>3. Range(pointers[u]) = Mine(logs, cleared, u)
    BY <2>1 DEF PointsTo, Range
  <2> QED
    BY <2>1, <2>2, <2>3 DEF PointsTo
<1> QED
  BY PointersInvariant, <1>1, PTL
=============================================================================
