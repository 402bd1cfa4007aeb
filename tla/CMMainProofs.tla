----------------------------- MODULE CMMainProofs -----------------------------
(***************************************************************************)
(* Theorems about CM-main, for every number of ledgers, canisters, codes   *)
(* and upgrades at a time: no canister is lost and no ledger has two trade *)
(* contracts, the recorded hashes are those of the codes that run, and     *)
(* code is replaced only in stopped canisters.                             *)
(***************************************************************************)
EXTENDS CMMain, TLAPS, FiniteSetTheorems

Listed(tcs)  == {tc.canister : tc \in ToSet(tcs)}
Ledgers(tcs) == {tc.ledger : tc \in ToSet(tcs)}

(* The canister that a creation, in progress or to be continued, has paid. *)
Held ==
  IF creation.pc # "idle" THEN creation.canister
  ELSE IF mid_call_data # None THEN mid_call_data.canister ELSE None

(* The creation in progress and the mid-call data belong together. *)
CreationShape ==
  /\ creation.pc = "idle" => /\ creation.canister = None
                             /\ mid_call_data # None => /\ ~mid_call_data.lock
                                                        /\ mid_call_data.canister # None
  /\ creation.pc # "idle" => /\ mid_call_data # None /\ mid_call_data.lock
                             /\ mid_call_data.ledger = creation.ledger
                             /\ mid_call_data.canister \in {None, creation.canister}
  /\ creation.pc = "create" => (creation.canister # None <=> creation.answer = "ok")
  /\ creation.pc = "install" => /\ creation.canister # None
                                /\ creation.answer = "ok" => creation.code # None

(* Every canister created is listed once or held; so is every ledger. *)
Tracked(tcs, created, held, mid) ==
  /\ created = Listed(tcs) \cup ({held} \ {None})
  /\ held \notin Listed(tcs)
  /\ IsFiniteSet(Listed(tcs)) /\ Cardinality(Listed(tcs)) = Len(tcs)
  /\ IsFiniteSet(Ledgers(tcs)) /\ Cardinality(Ledgers(tcs)) = Len(tcs)
  /\ mid # None => mid.ledger \notin Ledgers(tcs)

(* The inductive invariant of the creations. *)
TrackInv ==
  TypeOK /\ CreationShape /\ Tracked(trade_contracts, Created, Held, mid_call_data)

----------------------------------------------------------------------------
(* Lists of trade contracts *)

LEMMA ListedType ==
  ASSUME NEW tcs \in Seq(TradeContractData)
  PROVE  Listed(tcs) \subseteq Canister /\ Ledgers(tcs) \subseteq Ledger
<1>1. \A tc \in ToSet(tcs) : tc.canister \in Canister /\ tc.ledger \in Ledger
  <2>1. \A i \in DOMAIN tcs : tcs[i] \in TradeContractData
    OBVIOUS
  <2> QED
    BY <2>1 DEF ToSet, TradeContractData
<1> QED
  BY <1>1 DEF Listed, Ledgers

LEMMA ListedAppend ==
  ASSUME NEW tcs \in Seq(TradeContractData), NEW tc \in TradeContractData
  PROVE  /\ Listed(Append(tcs, tc)) = Listed(tcs) \cup {tc.canister}
         /\ Ledgers(Append(tcs, tc)) = Ledgers(tcs) \cup {tc.ledger}
<1> DEFINE more == Append(tcs, tc)
<1>1. /\ DOMAIN tcs = 1 .. Len(tcs) /\ DOMAIN more = 1 .. Len(tcs) + 1 /\ Len(tcs) \in Nat
      /\ more[Len(tcs) + 1] = tc
      /\ \A i \in 1 .. Len(tcs) : more[i] = tcs[i]
  OBVIOUS
<1> HIDE DEF more
<1>2. ToSet(more) = ToSet(tcs) \cup {tc}
  <2>1. \A i \in DOMAIN more : more[i] \in ToSet(tcs) \cup {tc}
    BY <1>1 DEF ToSet
  <2>2. tc \in ToSet(more) /\ \A i \in DOMAIN tcs : tcs[i] \in ToSet(more)
    BY <1>1 DEF ToSet
  <2> QED
    BY <2>1, <2>2 DEF ToSet
<1> QED
  BY <1>2 DEF Listed, Ledgers, more

(* The same canisters and ledgers, with other hashes. *)
SameContracts(tcs, others) ==
  /\ Len(others) = Len(tcs)
  /\ \A i \in 1 .. Len(tcs) : /\ others[i].canister = tcs[i].canister
                              /\ others[i].ledger = tcs[i].ledger

LEMMA ListedSame ==
  ASSUME NEW tcs \in Seq(TradeContractData), NEW others \in Seq(TradeContractData),
         SameContracts(tcs, others)
  PROVE  Listed(others) = Listed(tcs) /\ Ledgers(others) = Ledgers(tcs)
<1>1. DOMAIN tcs = 1 .. Len(tcs) /\ DOMAIN others = 1 .. Len(tcs)
  BY DEF SameContracts
<1>2. Listed(tcs) = {tcs[i].canister : i \in 1 .. Len(tcs)}
      /\ Ledgers(tcs) = {tcs[i].ledger : i \in 1 .. Len(tcs)}
  BY <1>1 DEF Listed, Ledgers, ToSet
<1>3. Listed(others) = {others[i].canister : i \in 1 .. Len(tcs)}
      /\ Ledgers(others) = {others[i].ledger : i \in 1 .. Len(tcs)}
  BY <1>1 DEF Listed, Ledgers, ToSet
<1> QED
  BY <1>2, <1>3 DEF SameContracts

(* A new trade contract is listed: the held canister, for a ledger that    *)
(* has none.                                                               *)
LEMMA TrackedListed ==
  ASSUME NEW tcs \in Seq(TradeContractData), NEW tc \in TradeContractData,
         NEW created, NEW mid, mid # None,
         Tracked(tcs, created, tc.canister, mid), mid.ledger = tc.ledger
  PROVE  Tracked(Append(tcs, tc), created, None, None)
<1>1. /\ Listed(Append(tcs, tc)) = Listed(tcs) \cup {tc.canister}
      /\ Ledgers(Append(tcs, tc)) = Ledgers(tcs) \cup {tc.ledger}
  BY ListedAppend
<1>2. tc.canister \notin Listed(tcs) /\ tc.ledger \notin Ledgers(tcs) /\ tc.canister # None
  BY CMMainAssumption DEF Tracked, TradeContractData
<1>3. /\ IsFiniteSet(Listed(tcs) \cup {tc.canister})
      /\ Cardinality(Listed(tcs) \cup {tc.canister}) = Cardinality(Listed(tcs)) + 1
      /\ IsFiniteSet(Ledgers(tcs) \cup {tc.ledger})
      /\ Cardinality(Ledgers(tcs) \cup {tc.ledger}) = Cardinality(Ledgers(tcs)) + 1
  BY <1>2, FS_AddElement DEF Tracked
<1>4. Len(Append(tcs, tc)) = Len(tcs) + 1
  OBVIOUS
<1>5. None \notin Listed(tcs) \cup {tc.canister}
  BY <1>2, ListedType, CMMainAssumption
<1>6. created = Listed(tcs) \cup {tc.canister}
  BY <1>2 DEF Tracked
<1> QED
  BY <1>1, <1>3, <1>4, <1>5, <1>6 DEF Tracked

----------------------------------------------------------------------------
(* Types and shapes *)

LEMMA InitTrack == Init => TrackInv
<1> SUFFICES ASSUME Init
             PROVE  TrackInv
  OBVIOUS
<1>1. TypeOK
  BY CMMainAssumption DEF Init, TypeOK, NoCreation, CreationType
<1>2. CreationShape
  BY DEF Init, CreationShape, NoCreation
<1>3. Listed(<<>>) = {} /\ Ledgers(<<>>) = {}
  BY DEF Listed, Ledgers, ToSet
<1>4. Created = {} /\ Held = None
  BY DEF Init, Created, Held, NoCreation
<1>5. Tracked(<<>>, {}, None, None)
  BY <1>3, FS_EmptySet DEF Tracked
<1> QED
  BY <1>1, <1>2, <1>4, <1>5 DEF TrackInv, Init

(* A step that leaves the creation, the list and what is created as it is. *)
LEMMA SameTrack ==
  ASSUME TrackInv, TypeOK',
         UNCHANGED <<trade_contracts, mid_call_data, creation>>, Created' = Created
  PROVE  TrackInv'
<1>1. CreationShape'
  BY DEF TrackInv, CreationShape
<1>2. Held' = Held
  BY DEF Held
<1> QED
  BY <1>1, <1>2 DEF TrackInv

LEMMA UploadTrack ==
  ASSUME TrackInv, NEW code \in Code, controller_upload_canister_code(code)
  PROVE  TrackInv'
<1>1. TypeOK'
  BY CMMainAssumption DEF TrackInv, TypeOK, controller_upload_canister_code, ControllerCalls, Targets
<1>2. UNCHANGED <<trade_contracts, mid_call_data, creation>> /\ Created' = Created
  BY DEF controller_upload_canister_code, Created
<1> QED
  BY <1>1, <1>2, SameTrack

LEMMA CreateTrack ==
  ASSUME TrackInv, NEW l \in Ledger, CreateTradeContract(l)
  PROVE  TrackInv'
<1> DEFINE mid == [lock |-> TRUE, ledger |-> l, canister |-> None]
<1>1. mid \in MidCallData /\ mid # None /\ mid_call_data' = mid
  <2>1. mid \in MidCallData
    BY DEF MidCallData
  <2> QED
    BY <2>1, CMMainAssumption DEF CreateTradeContract
<1>2. creation' = [pc |-> "create", ledger |-> l, canister |-> None, code |-> None, answer |-> "none"]
  BY DEF CreateTradeContract, NoCreation
<1>3. TypeOK'
  <2>1. creation' \in CreationType
    BY <1>2 DEF CreationType
  <2>2. calls' \in 0 .. MaxCalls
    BY CMMainAssumption DEF CreateTradeContract, ControllerCalls, TrackInv, TypeOK
  <2> HIDE DEF mid
  <2> QED
    BY <1>1, <2>1, <2>2 DEF TrackInv, TypeOK, CreateTradeContract, Targets
<1>4. CreationShape'
  BY <1>1, <1>2 DEF CreationShape
<1>5. mid_call_data = None /\ creation.pc = "idle"
  BY DEF CreateTradeContract, TrackInv, CreationShape
<1>6. Held = None /\ Held' = None
  BY <1>2, <1>5 DEF Held
<1>7. UNCHANGED <<trade_contracts, canisters>> /\ l \notin Ledgers(trade_contracts)
  BY DEF CreateTradeContract, MayCreate, ListedLedgers, Ledgers
<1>8. Tracked(trade_contracts, Created, None, mid)
  BY <1>1, <1>5, <1>6, <1>7 DEF TrackInv, Tracked
<1> QED
  BY <1>1, <1>3, <1>4, <1>6, <1>7, <1>8 DEF TrackInv, Created

LEMMA ContinueTrack ==
  ASSUME TrackInv, ContinueCreate
  PROVE  TrackInv'
<1>1. mid_call_data \in MidCallData /\ mid_call_data # None /\ ~mid_call_data.lock
  BY DEF ContinueCreate, TrackInv, TypeOK
<1>2. creation.pc = "idle" /\ mid_call_data.canister \in Canister
  BY <1>1 DEF TrackInv, CreationShape, TypeOK, MidCallData
<1>3. MayCreate(mid_call_data.ledger)
  BY <1>1 DEF TrackInv, Tracked, MayCreate, ListedLedgers, Ledgers
<1>4. mid_call_data' = [mid_call_data EXCEPT !.lock = TRUE]
      /\ creation' = Installation(mid_call_data.ledger, mid_call_data.canister)
  BY <1>3 DEF ContinueCreate
<1>5. /\ mid_call_data' \in MidCallData /\ mid_call_data' # None /\ mid_call_data'.lock
      /\ mid_call_data'.ledger = mid_call_data.ledger
      /\ mid_call_data'.canister = mid_call_data.canister
  BY <1>1, <1>4, CMMainAssumption DEF MidCallData
<1>6. /\ creation' \in CreationType
      /\ creation'.pc = "install" /\ creation'.answer = "none"
      /\ creation'.ledger = mid_call_data.ledger /\ creation'.canister = mid_call_data.canister
  BY <1>1, <1>2, <1>4 DEF Installation, NoCreation, CreationType, MidCallData, TrackInv, TypeOK
<1>7. TypeOK'
  <2>1. raced' \subseteq Canister \cup {None} /\ calls' \in 0 .. MaxCalls
    BY <1>2, CMMainAssumption DEF ContinueCreate, ControllerCalls, TrackInv, TypeOK
  <2> QED
    BY <1>5, <1>6, <2>1 DEF ContinueCreate, TrackInv, TypeOK, Targets
<1>8. CreationShape'
  BY <1>2, <1>5, <1>6, CMMainAssumption DEF CreationShape
<1>9. Held' = Held
  BY <1>1, <1>2, <1>6 DEF Held
<1>10. Tracked(trade_contracts, Created, Held, mid_call_data)'
  BY <1>1, <1>5, <1>9 DEF ContinueCreate, TrackInv, Tracked, Created
<1> QED
  BY <1>7, <1>8, <1>10 DEF TrackInv

LEMMA CreateCanisterTrack ==
  ASSUME TrackInv, NEW c \in Canister, CreateCanister(c)
  PROVE  TrackInv'
<1> DEFINE new == [module |-> None, status |-> "running"]
<1>1. new \in CanisterData /\ new # None
  <2>1. new \in CanisterData
    BY DEF CanisterData
  <2> QED
    BY <2>1, CMMainAssumption
<1>2. /\ creation.pc = "create" /\ creation.answer = "none" /\ canisters[c] = None
      /\ canisters' = [canisters EXCEPT ![c] = new]
      /\ UNCHANGED <<mainVars, upgrades, raced, calls>>
  BY DEF CreateCanister
<1> HIDE DEF new
<1>3. canisters \in [Canister -> CanisterData \cup {None}] /\ creation \in CreationType
  BY DEF TrackInv, TypeOK
<1>4. /\ creation' \in CreationType
      /\ creation'.pc = "create" /\ creation'.answer = "ok" /\ creation'.canister = c
      /\ creation'.ledger = creation.ledger
  BY <1>2, <1>3 DEF CreateCanister, CreationType
<1>5. TypeOK'
  BY <1>1, <1>2, <1>3, <1>4 DEF TrackInv, TypeOK, mainVars, Targets
<1>6. c # None /\ c \notin Created /\ Created' = Created \cup {c}
  BY <1>1, <1>2, <1>3, CMMainAssumption DEF Created
<1>7. creation.canister = None /\ mid_call_data.canister = None
      /\ mid_call_data # None /\ mid_call_data.lock /\ mid_call_data.ledger = creation.ledger
  BY <1>2 DEF TrackInv, CreationShape
<1>8. CreationShape'
  BY <1>2, <1>4, <1>6, <1>7 DEF CreationShape, mainVars
<1>9. Held = None /\ Held' = c
  BY <1>2, <1>4, <1>7 DEF Held
<1>10. Tracked(trade_contracts, Created \cup {c}, c, mid_call_data)
  BY <1>6, <1>9 DEF TrackInv, Tracked
<1> QED
  BY <1>2, <1>5, <1>6, <1>8, <1>9, <1>10 DEF TrackInv, mainVars

LEMMA CreationCallTrack ==
  ASSUME TrackInv, InstallCode \/ CreationCallFails
  PROVE  TrackInv'
<1>1. PICK answer \in {"ok", "err"} : creation' = [creation EXCEPT !.answer = answer]
                                     /\ (answer = "ok" => InstallCode)
  BY DEF InstallCode, CreationCallFails
<1>2. UNCHANGED <<mainVars, upgrades, raced, calls>> /\ creation.pc # "idle"
      /\ creation.answer = "none" /\ creation \in CreationType
  BY DEF InstallCode, CreationCallFails, TrackInv, TypeOK
<1>3. /\ creation' \in CreationType
      /\ creation'.pc = creation.pc /\ creation'.answer = answer
      /\ creation'.canister = creation.canister /\ creation'.ledger = creation.ledger
      /\ creation'.code = creation.code
  BY <1>1, <1>2 DEF CreationType
<1>4. canisters' \in [Canister -> CanisterData \cup {None}] /\ Created' = Created
  <2>1. CASE CreationCallFails
    BY <2>1 DEF CreationCallFails, TrackInv, TypeOK, Created
  <2>2. CASE InstallCode
    <3>1. creation.canister \in Canister /\ creation.canister \in Created
      <4>1. creation.canister # None /\ Held = creation.canister
        BY <2>2 DEF InstallCode, TrackInv, CreationShape, Held
      <4>2. Held \in Created
        BY <4>1 DEF TrackInv, Tracked
      <4> QED
        BY <4>1, <4>2 DEF Created
    <3>2. canisters[creation.canister] \in CanisterData
      BY <3>1 DEF TrackInv, TypeOK, Created
    <3>3. [canisters[creation.canister] EXCEPT !.module = creation.code] \in CanisterData
      BY <1>2, <3>2 DEF CanisterData, CreationType
    <3> DEFINE installed == [canisters[creation.canister] EXCEPT !.module = creation.code]
    <3>4. canisters' = [canisters EXCEPT ![creation.canister] = installed]
      BY <2>2 DEF InstallCode
    <3>5. installed # None /\ installed \in CanisterData
      BY <3>3, CMMainAssumption
    <3> HIDE DEF installed
    <3>6. canisters \in [Canister -> CanisterData \cup {None}]
      BY DEF TrackInv, TypeOK
    <3>7. canisters' \in [Canister -> CanisterData \cup {None}]
      BY <3>1, <3>4, <3>5, <3>6
    <3>8. \A c \in Canister : canisters'[c] # None <=> canisters[c] # None
      BY <3>1, <3>4, <3>5, <3>6 DEF Created
    <3> QED
      BY <3>7, <3>8 DEF Created
  <2> QED
    BY <2>1, <2>2
<1>5. TypeOK'
  BY <1>2, <1>3, <1>4 DEF TrackInv, TypeOK, mainVars, Targets
<1>6. creation.pc = "create" => answer = "err"
  BY <1>1 DEF InstallCode
<1>7. answer = "ok" => creation.code # None
  BY <1>1 DEF InstallCode
<1>8. CreationShape'
  BY <1>2, <1>3, <1>6, <1>7 DEF TrackInv, CreationShape, mainVars
<1>9. Held' = Held
  BY <1>2, <1>3 DEF Held, mainVars
<1> QED
  BY <1>2, <1>4, <1>5, <1>8, <1>9 DEF TrackInv, mainVars

LEMMA CreateReturnsTrack ==
  ASSUME TrackInv, CreateReturns
  PROVE  TrackInv'
<1>0. creation \in CreationType /\ creation.pc = "create" /\ mid_call_data # None
  BY DEF CreateReturns, TrackInv, TypeOK, CreationShape
<1>1. CASE creation.answer = "ok"
  <2>1. creation' = Installation(creation.ledger, creation.canister)
        /\ UNCHANGED <<mainVars, upgrades, canisters, raced, calls>>
    BY <1>1 DEF CreateReturns, mainVars
  <2>2. /\ creation' \in CreationType
        /\ creation'.pc = "install" /\ creation'.answer = "none"
        /\ creation'.canister = creation.canister /\ creation'.ledger = creation.ledger
    BY <1>0, <2>1 DEF Installation, NoCreation, CreationType, TrackInv, TypeOK
  <2>3. TypeOK'
    BY <2>1, <2>2 DEF TrackInv, TypeOK, mainVars, Targets
  <2>4. CreationShape'
    BY <1>0, <1>1, <2>1, <2>2 DEF TrackInv, CreationShape, mainVars
  <2>5. Held' = Held
    BY <1>0, <2>2 DEF Held
  <2> QED
    BY <2>1, <2>3, <2>4, <2>5 DEF TrackInv, mainVars, Created
<1>2. CASE creation.answer # "ok"
  <2>1. /\ creation' = NoCreation /\ mid_call_data' = None
        /\ UNCHANGED <<tc_canister_code, trade_contracts, upgrades, canisters, raced, calls>>
    BY <1>2 DEF CreateReturns
  <2>2. TypeOK'
    BY <2>1 DEF TrackInv, TypeOK, Targets, NoCreation, CreationType
  <2>3. CreationShape'
    BY <2>1 DEF CreationShape, NoCreation
  <2>4. Held = None /\ Held' = None
    BY <1>0, <1>2, <2>1 DEF TrackInv, CreationShape, Held, NoCreation
  <2>5. Tracked(trade_contracts, Created, None, None)
    BY <2>4 DEF TrackInv, Tracked
  <2> QED
    BY <2>1, <2>2, <2>3, <2>4, <2>5 DEF TrackInv, Created
<1> QED
  BY <1>1, <1>2

LEMMA InstallReturnsTrack ==
  ASSUME TrackInv, InstallReturns
  PROVE  TrackInv'
<1>1. /\ creation \in CreationType /\ creation.pc = "install"
      /\ mid_call_data \in MidCallData /\ mid_call_data # None
      /\ mid_call_data.ledger = creation.ledger
      /\ creation.canister \in Canister /\ creation.ledger \in Ledger
      /\ creation.answer = "ok" => creation.code \in Code
  BY DEF InstallReturns, TrackInv, TypeOK, CreationShape, CreationType, MidCallData
<1>2. /\ creation' = NoCreation
      /\ UNCHANGED <<tc_canister_code, upgrades, canisters, raced, calls>>
  BY DEF InstallReturns
<1>3. NoCreation \in CreationType /\ NoCreation.pc = "idle" /\ NoCreation.canister = None
  BY DEF NoCreation, CreationType
<1>4. Held = creation.canister
  BY <1>1 DEF Held
<1>5. CASE creation.answer = "ok"
  <2> DEFINE tc == [ledger |-> creation.ledger, canister |-> creation.canister,
                    module_hash |-> HashSent]
  <2>1. tc \in TradeContractData /\ tc.canister = creation.canister /\ tc.ledger = creation.ledger
    BY <1>1, <1>5 DEF TradeContractData, HashSent
  <2>2. mid_call_data' = None /\ trade_contracts' = Append(trade_contracts, tc)
    BY <1>5 DEF InstallReturns
  <2> HIDE DEF tc
  <2>3. trade_contracts \in Seq(TradeContractData)
    BY DEF TrackInv, TypeOK
  <2>4. trade_contracts' \in Seq(TradeContractData)
    BY <2>1, <2>2, <2>3
  <2>5. TypeOK'
    BY <1>2, <1>3, <2>2, <2>4 DEF TrackInv, TypeOK, Targets
  <2>6. CreationShape' /\ Held' = None
    BY <1>2, <1>3, <2>2 DEF CreationShape, Held
  <2>7. Tracked(Append(trade_contracts, tc), Created, None, None)
    BY <1>1, <1>4, <2>1, <2>3, TrackedListed DEF TrackInv
  <2> QED
    BY <1>2, <2>2, <2>5, <2>6, <2>7 DEF TrackInv, Created
<1>6. CASE creation.answer # "ok"
  <2> DEFINE mid == UnlockedMidCall
  <2>1. mid_call_data' = mid /\ UNCHANGED trade_contracts
    BY <1>6 DEF InstallReturns
  <2>2. mid \in MidCallData /\ ~mid.lock /\ mid.canister = creation.canister
        /\ mid.ledger = creation.ledger
    BY <1>1 DEF UnlockedMidCall, MidCallData
  <2>3. mid # None
    BY <2>2, CMMainAssumption
  <2> HIDE DEF mid
  <2>4. TypeOK'
    BY <1>2, <1>3, <2>1, <2>2 DEF TrackInv, TypeOK, Targets
  <2>5. CreationShape' /\ Held' = Held
    BY <1>1, <1>2, <1>3, <1>4, <2>1, <2>2, <2>3, CMMainAssumption DEF CreationShape, Held
  <2>6. Tracked(trade_contracts, Created, Held, mid)
    BY <1>1, <2>2, <2>3 DEF TrackInv, Tracked
  <2> QED
    BY <1>2, <2>1, <2>4, <2>5, <2>6 DEF TrackInv, Created
<1> QED
  BY <1>5, <1>6

----------------------------------------------------------------------------
(* Upgrades *)

StepInstalled(step) ==
  step.installed = "ok" \/ (step.call = "install_code" /\ step.answer = "ok")

(* A step has something installed only once its code was. *)
StepShape(step, code) ==
  /\ step.call \in {"stop_canister", "install_code"} => step.installed # "ok"
  /\ StepInstalled(step) => code # None

(* What a step of an upgrade says of its canister, if no other call        *)
(* installs code on it: it is stopped until the code was replaced, and has *)
(* the code that was installed.                                            *)
StepOK(step, code, canister) ==
  /\ step.call = "install_code" \/ (step.call = "stop_canister" /\ step.answer = "ok")
       => canister.status = "stopped"
  /\ StepInstalled(step) => canister.module = code

TargetsCreated == UnderUpgrade \subseteq Created
(* A canister that two calls may install code on is in raced. *)
RacesKnown ==
  /\ \A u, v \in Upgrade : u # v => Targets(u) \cap Targets(v) \subseteq raced
  /\ creation.canister \in UnderUpgrade => creation.canister \in raced
StepsShaped ==
  \A u \in Upgrade : \A c \in Targets(u) :
    StepShape(upgrades[u].steps[c], upgrades[u].code)
StepsOK ==
  \A u \in Upgrade : \A c \in Targets(u) \ raced :
    StepOK(upgrades[u].steps[c], upgrades[u].code, canisters[c])
CreatedWithCode ==
  creation.pc = "install" /\ creation.answer = "ok" /\ creation.canister \notin raced
    => canisters[creation.canister].module = creation.code
HashOK(tc) ==
  tc.canister \notin raced /\ (\A u \in Upgrade : ~Installed(u, tc.canister))
    => canisters[tc.canister].module = tc.module_hash
ListHashes == \A i \in 1 .. Len(trade_contracts) : HashOK(trade_contracts[i])

(* The inductive invariant of creations and upgrades together. *)
UpgradeInv ==
  /\ TrackInv /\ TargetsCreated /\ RacesKnown
  /\ StepsShaped /\ StepsOK /\ CreatedWithCode /\ ListHashes

LEMMA InstalledStep ==
  ASSUME NEW u, NEW c
  PROVE  Installed(u, c) <=> c \in Targets(u) /\ StepInstalled(upgrades[u].steps[c])
BY DEF Installed, StepInstalled

LEMMA TargetsType ==
  ASSUME TypeOK, NEW u \in Upgrade, upgrades[u] # None
  PROVE  /\ upgrades[u] \in UpgradeData
         /\ Targets(u) = DOMAIN upgrades[u].steps /\ Targets(u) \subseteq Canister
         /\ upgrades[u].steps \in [Targets(u) -> Step]
         /\ upgrades[u].code \in Code \cup {None}
<1>1. upgrades[u] \in UpgradeData
  BY DEF TypeOK
<1>2. PICK cs \in SUBSET Canister : upgrades[u].steps \in [cs -> Step]
  BY <1>1 DEF UpgradeData
<1> QED
  BY <1>1, <1>2 DEF Targets, UpgradeData

LEMMA UpgradeDataOf ==
  ASSUME NEW code \in Code \cup {None}, NEW cs \in SUBSET Canister, NEW steps \in [cs -> Step]
  PROVE  /\ [code |-> code, steps |-> steps] \in UpgradeData
         /\ [code |-> code, steps |-> steps] # None
<1>1. [code |-> code, steps |-> steps] \in UpgradeData
  BY DEF UpgradeData
<1> QED
  BY <1>1, CMMainAssumption

(* One step of one upgrade is replaced. *)
SetStep(u, c, step) == upgrades' = [upgrades EXCEPT ![u].steps[c] = step]

LEMMA SetStepTypes ==
  ASSUME TypeOK, NEW u \in Upgrade, NEW c \in Targets(u), NEW step \in Step,
         SetStep(u, c, step)
  PROVE  /\ upgrades' \in [Upgrade -> UpgradeData \cup {None}]
         /\ \A v \in Upgrade : Targets(v)' = Targets(v)
         /\ \A v \in Upgrade : Targets(v) # {} => upgrades'[v].code = upgrades[v].code
         /\ upgrades'[u].steps[c] = step
         /\ \A v \in Upgrade : \A d \in Targets(v) :
              v # u \/ d # c => upgrades'[v].steps[d] = upgrades[v].steps[d]
<1>1. upgrades[u] # None
  BY DEF Targets
<1>2. /\ upgrades[u] \in UpgradeData
      /\ Targets(u) = DOMAIN upgrades[u].steps /\ Targets(u) \subseteq Canister
      /\ upgrades[u].steps \in [Targets(u) -> Step]
      /\ upgrades[u].code \in Code \cup {None}
  BY <1>1, TargetsType
<1> DEFINE steps == [upgrades[u].steps EXCEPT ![c] = step]
           up    == [code |-> upgrades[u].code, steps |-> steps]
<1>3. steps \in [Targets(u) -> Step] /\ steps[c] = step
      /\ \A d \in Targets(u) : d # c => steps[d] = upgrades[u].steps[d]
  BY <1>2
<1>4. up \in UpgradeData /\ up # None
  BY <1>2, <1>3, UpgradeDataOf
<1>5. upgrades' = [upgrades EXCEPT ![u] = up]
  <2>1. [upgrades[u] EXCEPT !.steps[c] = step] = [upgrades[u] EXCEPT !.steps = steps]
    OBVIOUS
  <2>2. [upgrades[u] EXCEPT !.steps = steps] = up
    <3> HIDE DEF steps
    <3> QED
      BY <1>2 DEF UpgradeData
  <2> QED
    BY <2>1, <2>2 DEF SetStep
<1>6. upgrades'[u] = up /\ \A v \in Upgrade : v # u => upgrades'[v] = upgrades[v]
  BY <1>5 DEF TypeOK
<1>7. Targets(u)' = Targets(u)
  BY <1>3, <1>4, <1>6 DEF Targets
<1>8. \A v \in Upgrade : v # u => Targets(v)' = Targets(v)
  BY <1>6 DEF Targets
<1>9. upgrades' \in [Upgrade -> UpgradeData \cup {None}]
  BY <1>4, <1>5 DEF TypeOK
<1> QED
  BY <1>3, <1>6, <1>7, <1>8, <1>9

(* The canister of the step, and the installed code that the step knows.   *)
LEMMA StepUpgrades ==
  ASSUME UpgradeInv, NEW u \in Upgrade, NEW c \in Targets(u), NEW step \in Step,
         SetStep(u, c, step), UNCHANGED <<mainVars, creation, raced, calls>>,
         NEW canister \in CanisterData, canisters' = [canisters EXCEPT ![c] = canister],
         StepShape(step, upgrades[u].code),
         StepOK(upgrades[u].steps[c], upgrades[u].code, canisters[c])
           => StepOK(step, upgrades[u].code, canister),
         StepInstalled(upgrades[u].steps[c]) => StepInstalled(step),
         ~StepInstalled(step) => canister.module = canisters[c].module
  PROVE  UpgradeInv'
<1>1. /\ upgrades' \in [Upgrade -> UpgradeData \cup {None}]
      /\ \A v \in Upgrade : Targets(v)' = Targets(v)
      /\ \A v \in Upgrade : Targets(v) # {} => upgrades'[v].code = upgrades[v].code
      /\ upgrades'[u].steps[c] = step
      /\ \A v \in Upgrade : \A d \in Targets(v) :
           v # u \/ d # c => upgrades'[v].steps[d] = upgrades[v].steps[d]
  BY SetStepTypes DEF UpgradeInv, TrackInv
<1>2. UnderUpgrade' = UnderUpgrade
  BY <1>1 DEF UnderUpgrade
<1>3. c \in UnderUpgrade /\ c \in Created /\ c \in Canister /\ canister # None
  BY CMMainAssumption DEF UnderUpgrade, UpgradeInv, TargetsCreated, Created
<1>4. canisters \in [Canister -> CanisterData \cup {None}]
  BY DEF UpgradeInv, TrackInv, TypeOK
<1>5. canisters' \in [Canister -> CanisterData \cup {None}]
      /\ canisters'[c] = canister
      /\ \A d \in Canister : d # c => canisters'[d] = canisters[d]
  BY <1>3, <1>4
<1>6. Created' = Created
  BY <1>3, <1>5 DEF Created
<1>7. TypeOK'
  BY <1>1, <1>5 DEF UpgradeInv, TrackInv, TypeOK, mainVars
<1>8. TrackInv'
  BY <1>6, <1>7, SameTrack DEF UpgradeInv, mainVars
<1>9. TargetsCreated' /\ RacesKnown'
  BY <1>1, <1>2, <1>6 DEF UpgradeInv, TargetsCreated, RacesKnown
<1>13. StepsShaped'
  <2> SUFFICES ASSUME NEW v \in Upgrade, NEW d \in Targets(v)
               PROVE  StepShape(upgrades'[v].steps[d], upgrades'[v].code)
    BY <1>1 DEF StepsShaped
  <2>1. StepShape(upgrades[v].steps[d], upgrades[v].code)
        /\ upgrades'[v].code = upgrades[v].code
    BY <1>1 DEF UpgradeInv, StepsShaped
  <2> QED
    BY <1>1, <2>1
<1>10. StepsOK'
  <2> SUFFICES ASSUME NEW v \in Upgrade, NEW d \in Targets(v) \ raced
               PROVE  StepOK(upgrades'[v].steps[d], upgrades'[v].code, canisters'[d])
    BY <1>1 DEF StepsOK
  <2>1. StepOK(upgrades[v].steps[d], upgrades[v].code, canisters[d])
        /\ upgrades'[v].code = upgrades[v].code
    BY <1>1 DEF UpgradeInv, StepsOK
  <2>2. CASE d = c
    <3>1. v = u
      BY <2>2 DEF UpgradeInv, RacesKnown
    <3> QED
      BY <1>1, <1>5, <2>1, <2>2, <3>1
  <2>3. CASE d # c
    <3>1. d \in Canister
      BY DEF UpgradeInv, TargetsCreated, UnderUpgrade, Created
    <3> QED
      BY <1>1, <1>5, <2>1, <2>3, <3>1
  <2> QED
    BY <2>2, <2>3
<1>11. CreatedWithCode'
  <2> SUFFICES ASSUME creation.pc = "install", creation.answer = "ok", creation.canister \notin raced
               PROVE  canisters'[creation.canister].module = creation.code
    BY DEF CreatedWithCode
  <2>1. creation.canister # c
    BY <1>3 DEF UpgradeInv, RacesKnown
  <2>2. creation.canister \in Canister
    BY DEF UpgradeInv, TrackInv, CreationShape, TypeOK, CreationType
  <2> QED
    BY <1>5, <2>1, <2>2 DEF UpgradeInv, CreatedWithCode
<1>12. ListHashes'
  <2> SUFFICES ASSUME NEW i \in 1 .. Len(trade_contracts),
                      trade_contracts[i].canister \notin raced,
                      \A v \in Upgrade : trade_contracts[i].canister \in Targets(v)' =>
                        ~StepInstalled(upgrades'[v].steps[trade_contracts[i].canister])
               PROVE  canisters'[trade_contracts[i].canister].module = trade_contracts[i].module_hash
    BY DEF ListHashes, HashOK, mainVars, Installed, StepInstalled
  <2> DEFINE d == trade_contracts[i].canister
  <2>1. d \in Canister
    <3>1. trade_contracts[i] \in TradeContractData
      BY DEF UpgradeInv, TrackInv, TypeOK
    <3> QED
      BY <3>1 DEF TradeContractData
  <2>2. \A v \in Upgrade : ~Installed(v, d)
    <3> SUFFICES ASSUME NEW v \in Upgrade, d \in Targets(v), StepInstalled(upgrades[v].steps[d])
                 PROVE  FALSE
      BY InstalledStep
    <3>1. StepInstalled(upgrades'[v].steps[d])
      BY <1>1
    <3> QED
      BY <1>1, <3>1
  <2>3. canisters[d].module = trade_contracts[i].module_hash
    BY <2>2 DEF UpgradeInv, ListHashes, HashOK
  <2>4. CASE d = c
    <3>1. ~StepInstalled(step)
      BY <1>1, <2>4
    <3> QED
      BY <1>5, <2>3, <2>4, <3>1
  <2>5. CASE d # c
    BY <1>5, <2>1, <2>3, <2>5
  <2> QED
    BY <2>4, <2>5
<1> QED
  BY <1>8, <1>9, <1>10, <1>11, <1>12, <1>13 DEF UpgradeInv

(* The step of an upgrade and the canister it is about. *)
LEMMA StepTypes ==
  ASSUME UpgradeInv, NEW u \in Upgrade, NEW c \in Targets(u)
  PROVE  /\ upgrades[u] # None /\ upgrades[u].steps[c] \in Step
         /\ upgrades[u].code \in Code \cup {None}
         /\ StepShape(upgrades[u].steps[c], upgrades[u].code)
         /\ canisters[c] \in CanisterData /\ c \in Canister
         /\ canisters \in [Canister -> CanisterData \cup {None}]
<1>1. upgrades[u] # None /\ c \in UnderUpgrade
  BY DEF Targets, UnderUpgrade
<1>2. upgrades[u].steps \in [Targets(u) -> Step] /\ upgrades[u].code \in Code \cup {None}
  BY <1>1, TargetsType DEF UpgradeInv, TrackInv
<1>3. c \in Created
  BY <1>1 DEF UpgradeInv, TargetsCreated
<1>4. canisters \in [Canister -> CanisterData \cup {None}]
  BY DEF UpgradeInv, TrackInv, TypeOK
<1> QED
  BY <1>1, <1>2, <1>3, <1>4 DEF Created, UpgradeInv, StepsShaped

LEMMA AnswerSets ==
  ASSUME UpgradeInv, NEW u \in Upgrade, NEW c \in Targets(u),
         NEW answer \in {"ok", "err"}, Answer(u, c, answer)
  PROVE  \E step \in Step :
           /\ SetStep(u, c, step) /\ step.answer = answer
           /\ step.call = upgrades[u].steps[c].call
           /\ step.installed = upgrades[u].steps[c].installed
<1> DEFINE step == [upgrades[u].steps[c] EXCEPT !.answer = answer]
<1>1. step \in Step /\ step.answer = answer /\ step.call = upgrades[u].steps[c].call
      /\ step.installed = upgrades[u].steps[c].installed
  BY StepTypes DEF Step
<1>2. SetStep(u, c, step)
  BY DEF Answer, SetStep
<1> QED
  BY <1>1, <1>2

LEMMA AnswerUpgrades ==
  ASSUME UpgradeInv, NEW u \in Upgrade, NEW c \in Targets(u),
         StopCanister(u, c) \/ UpgradeCode(u, c) \/ StartCanister(u, c) \/ UpgradeCallFails(u, c)
  PROVE  UpgradeInv'
<1> DEFINE old == upgrades[u].steps[c]
<1>1. /\ old \in Step /\ upgrades[u].code \in Code \cup {None}
      /\ StepShape(old, upgrades[u].code)
      /\ canisters[c] \in CanisterData /\ c \in Canister
      /\ canisters \in [Canister -> CanisterData \cup {None}]
  BY StepTypes
<1>2. UNCHANGED <<mainVars, creation, raced, calls>>
  BY DEF StopCanister, UpgradeCode, StartCanister, UpgradeCallFails, Answer
<1>3. CASE StopCanister(u, c)
  <2>1. PICK answer \in {"ok", "err"} : Answer(u, c, answer)
    BY <1>3 DEF StopCanister
  <2>2. PICK step \in Step : /\ SetStep(u, c, step) /\ step.answer = answer
                             /\ step.call = old.call /\ step.installed = old.installed
    BY <2>1, AnswerSets
  <2>3. old.call = "stop_canister" /\ old.answer = "none"
    BY <1>3 DEF StopCanister, Waiting
  <2> DEFINE canister == [canisters[c] EXCEPT !.status = "stopped"]
  <2>4. /\ canister \in CanisterData /\ canister.module = canisters[c].module
        /\ canister.status = "stopped" /\ canisters' = [canisters EXCEPT ![c] = canister]
    BY <1>1, <1>3 DEF StopCanister, CanisterData
  <2> HIDE DEF canister
  <2>5. StepShape(step, upgrades[u].code) /\ ~StepInstalled(step)
        /\ StepOK(step, upgrades[u].code, canister) /\ ~StepInstalled(old)
    BY <1>1, <2>2, <2>3, <2>4 DEF StepShape, StepInstalled, StepOK
  <2> QED
    BY <1>2, <2>2, <2>4, <2>5, StepUpgrades
<1>4. CASE UpgradeCode(u, c)
  <2>2. PICK step \in Step : /\ SetStep(u, c, step) /\ step.answer = "ok"
                             /\ step.call = old.call /\ step.installed = old.installed
    BY <1>4, AnswerSets DEF UpgradeCode
  <2>3. old.call = "install_code" /\ old.answer = "none" /\ upgrades[u].code # None
    BY <1>4 DEF UpgradeCode, Waiting
  <2> DEFINE canister == [canisters[c] EXCEPT !.module = upgrades[u].code]
  <2>4. /\ canister \in CanisterData /\ canister.module = upgrades[u].code
        /\ canister.status = canisters[c].status
        /\ canisters' = [canisters EXCEPT ![c] = canister]
    BY <1>1, <1>4 DEF UpgradeCode, CanisterData
  <2> HIDE DEF canister
  <2>5. StepShape(step, upgrades[u].code) /\ StepInstalled(step)
        /\ (StepOK(old, upgrades[u].code, canisters[c]) => StepOK(step, upgrades[u].code, canister))
    BY <1>1, <2>2, <2>3, <2>4 DEF StepShape, StepInstalled, StepOK
  <2> QED
    BY <1>2, <2>2, <2>4, <2>5, StepUpgrades
<1>5. CASE StartCanister(u, c)
  <2>2. PICK step \in Step : /\ SetStep(u, c, step) /\ step.answer = "ok"
                             /\ step.call = old.call /\ step.installed = old.installed
    BY <1>5, AnswerSets DEF StartCanister
  <2>3. old.call = "start_canister" /\ old.answer = "none"
    BY <1>5 DEF StartCanister, Waiting
  <2> DEFINE canister == [canisters[c] EXCEPT !.status = "running"]
  <2>4. /\ canister \in CanisterData /\ canister.module = canisters[c].module
        /\ canisters' = [canisters EXCEPT ![c] = canister]
    BY <1>1, <1>5 DEF StartCanister, CanisterData
  <2> HIDE DEF canister
  <2>5. StepShape(step, upgrades[u].code)
        /\ (StepInstalled(old) <=> StepInstalled(step))
        /\ (StepOK(old, upgrades[u].code, canisters[c]) => StepOK(step, upgrades[u].code, canister))
    BY <1>1, <2>2, <2>3, <2>4 DEF StepShape, StepInstalled, StepOK
  <2> QED
    BY <1>2, <2>2, <2>4, <2>5, StepUpgrades
<1>6. CASE UpgradeCallFails(u, c)
  <2>2. PICK step \in Step : /\ SetStep(u, c, step) /\ step.answer = "err"
                             /\ step.call = old.call /\ step.installed = old.installed
    BY <1>6, AnswerSets DEF UpgradeCallFails
  <2>3. old.answer = "none"
    BY <1>6 DEF UpgradeCallFails, Waiting
  <2>4. canisters' = [canisters EXCEPT ![c] = canisters[c]]
    BY <1>1, <1>6 DEF UpgradeCallFails
  <2>5. StepShape(step, upgrades[u].code)
        /\ (StepInstalled(old) <=> StepInstalled(step))
        /\ (StepOK(old, upgrades[u].code, canisters[c])
              => StepOK(step, upgrades[u].code, canisters[c]))
    BY <1>1, <2>2, <2>3 DEF StepShape, StepInstalled, StepOK
  <2> QED
    BY <1>1, <1>2, <2>2, <2>4, <2>5, StepUpgrades
<1> QED
  BY <1>3, <1>4, <1>5, <1>6

LEMMA NextStepTypes ==
  ASSUME NEW code, NEW canister, NEW step \in Step, step.call # "done", StepShape(step, code)
  PROVE  /\ NextStep(step) \in Step /\ StepShape(NextStep(step), code)
         /\ StepInstalled(NextStep(step)) <=> StepInstalled(step)
         /\ StepInstalled(step) => NextStep(step).installed = "ok"
         /\ NextStep(step).installed = "ok" => StepInstalled(step)
         /\ StepOK(step, code, canister) => StepOK(NextStep(step), code, canister)
<1>1. CASE step.call = "stop_canister"
  BY <1>1 DEF NextStep, FirstStep, Step, StepShape, StepInstalled, StepOK
<1>2. CASE step.call = "install_code"
  BY <1>2 DEF NextStep, FirstStep, Step, StepShape, StepInstalled, StepOK
<1>3. CASE step.call = "start_canister"
  BY <1>3 DEF NextStep, FirstStep, Step, StepShape, StepInstalled, StepOK
<1> QED
  BY <1>1, <1>2, <1>3 DEF Step

(* The hashes that an upgrade records are those of the codes installed. *)
LEMMA RecordedHashes ==
  ASSUME UpgradeInv, NEW u \in Upgrade, NEW c \in Targets(u), UpgradeReturns(u, c),
         NEW up, up = [upgrades[u] EXCEPT !.steps[c] = NextStep(@)],
         \A d \in DOMAIN up.steps : up.steps[d].call = "done"
  PROVE  /\ Recorded(up) \in Seq(TradeContractData)
         /\ SameContracts(trade_contracts, Recorded(up))
         /\ \A i \in 1 .. Len(trade_contracts) :
              LET d == trade_contracts[i].canister
              IN Recorded(up)[i].module_hash =
                   IF Installed(u, d) THEN upgrades[u].code ELSE trade_contracts[i].module_hash
<1>1. /\ upgrades[u] \in UpgradeData /\ upgrades[u].steps \in [Targets(u) -> Step]
      /\ upgrades[u].code \in Code \cup {None} /\ upgrades[u].steps[c].call # "done"
  BY StepTypes, TargetsType DEF UpgradeInv, TrackInv, UpgradeReturns
<1>2. /\ DOMAIN up.steps = Targets(u) /\ up.code = upgrades[u].code
      /\ up.steps[c] = NextStep(upgrades[u].steps[c])
      /\ \A d \in Targets(u) : d # c => up.steps[d] = upgrades[u].steps[d]
  BY <1>1 DEF UpgradeData
<1>3. \A d \in Targets(u) : up.steps[d].installed = "ok" <=> StepInstalled(upgrades[u].steps[d])
  <2> TAKE d \in Targets(u)
  <2>1. CASE d = c
    BY <1>1, <1>2, <2>1, StepTypes, NextStepTypes
  <2>2. CASE d # c
    BY <1>2, <2>2 DEF StepInstalled
  <2> QED
    BY <2>1, <2>2
<1>4. \A d \in Targets(u) : up.steps[d].installed = "ok" => up.code \in Code
  BY <1>1, <1>2, <1>3, StepTypes DEF StepShape
<1>5. trade_contracts \in Seq(TradeContractData)
  BY DEF UpgradeInv, TrackInv, TypeOK
<1>6. \A i \in 1 .. Len(trade_contracts) :
        /\ Recorded(up)[i] \in TradeContractData
        /\ Recorded(up)[i].canister = trade_contracts[i].canister
        /\ Recorded(up)[i].ledger = trade_contracts[i].ledger
        /\ Recorded(up)[i].module_hash =
             IF trade_contracts[i].canister \in Targets(u)
                  /\ up.steps[trade_contracts[i].canister].installed = "ok"
             THEN up.code ELSE trade_contracts[i].module_hash
  <2> TAKE i \in 1 .. Len(trade_contracts)
  <2>1. trade_contracts[i] \in TradeContractData /\ i \in DOMAIN trade_contracts
    BY <1>5
  <2>2. Recorded(up)[i] =
          IF trade_contracts[i].canister \in Targets(u)
               /\ up.steps[trade_contracts[i].canister].installed = "ok"
          THEN [trade_contracts[i] EXCEPT !.module_hash = up.code] ELSE trade_contracts[i]
    BY <1>2, <2>1 DEF Recorded
  <2> QED
    BY <1>4, <2>1, <2>2 DEF TradeContractData
<1>7. DOMAIN Recorded(up) = 1 .. Len(trade_contracts)
  BY <1>5 DEF Recorded
<1>8. Recorded(up) \in Seq(TradeContractData) /\ Len(Recorded(up)) = Len(trade_contracts)
  <2>1. Len(trade_contracts) \in Nat
    BY <1>5
  <2>2. Recorded(up) = [i \in 1 .. Len(trade_contracts) |-> Recorded(up)[i]]
    BY <1>5 DEF Recorded
  <2>3. Recorded(up) \in [1 .. Len(trade_contracts) -> TradeContractData]
    BY <1>6, <2>2
  <2> QED
    BY <2>1, <2>3
<1> QED
  BY <1>2, <1>3, <1>6, <1>8, InstalledStep DEF SameContracts

LEMMA UpgradeReturnsUpgrades ==
  ASSUME UpgradeInv, NEW u \in Upgrade, NEW c \in Targets(u), UpgradeReturns(u, c)
  PROVE  UpgradeInv'
<1> DEFINE old == upgrades[u].steps[c]
           up  == [upgrades[u] EXCEPT !.steps[c] = NextStep(@)]
<1>1. /\ old \in Step /\ StepShape(old, upgrades[u].code) /\ old.call # "done"
      /\ canisters[c] \in CanisterData
      /\ canisters \in [Canister -> CanisterData \cup {None}]
  BY StepTypes DEF UpgradeReturns
<1>2. UNCHANGED <<tc_canister_code, mid_call_data, creation, canisters, raced, calls>>
  BY DEF UpgradeReturns
<1>3. CASE \E d \in DOMAIN up.steps : up.steps[d].call # "done"
  <2>1. upgrades' = [upgrades EXCEPT ![u] = up] /\ UNCHANGED trade_contracts
    BY <1>3 DEF UpgradeReturns
  <2>2. SetStep(u, c, NextStep(old))
    BY <2>1 DEF SetStep
  <2>3. canisters' = [canisters EXCEPT ![c] = canisters[c]]
    BY <1>1, <1>2
  <2>4. /\ NextStep(old) \in Step /\ StepShape(NextStep(old), upgrades[u].code)
        /\ StepInstalled(NextStep(old)) <=> StepInstalled(old)
        /\ StepOK(old, upgrades[u].code, canisters[c])
             => StepOK(NextStep(old), upgrades[u].code, canisters[c])
    BY <1>1, NextStepTypes
  <2> QED
    BY <1>1, <1>2, <2>1, <2>2, <2>3, <2>4, StepUpgrades DEF mainVars
<1>4. CASE \A d \in DOMAIN up.steps : up.steps[d].call = "done"
  <2> DEFINE tcs == Recorded(up)
  <2>1. upgrades' = [upgrades EXCEPT ![u] = None] /\ trade_contracts' = tcs
    BY <1>4 DEF UpgradeReturns
  <2>2. /\ tcs \in Seq(TradeContractData) /\ SameContracts(trade_contracts, tcs)
        /\ \A i \in 1 .. Len(trade_contracts) :
             tcs[i].module_hash =
               IF Installed(u, trade_contracts[i].canister) THEN upgrades[u].code
               ELSE trade_contracts[i].module_hash
    BY <1>4, RecordedHashes
  <2> HIDE DEF tcs, up
  <2>3. trade_contracts \in Seq(TradeContractData)
        /\ upgrades \in [Upgrade -> UpgradeData \cup {None}]
    BY DEF UpgradeInv, TrackInv, TypeOK
  <2>4. /\ Targets(u)' = {} /\ upgrades' \in [Upgrade -> UpgradeData \cup {None}]
        /\ \A v \in Upgrade : v # u => upgrades'[v] = upgrades[v] /\ Targets(v)' = Targets(v)
    BY <2>1, <2>3 DEF Targets
  <2>5. TypeOK'
    BY <1>2, <2>1, <2>2, <2>4 DEF UpgradeInv, TrackInv, TypeOK
  <2>6. TrackInv'
    <3>1. CreationShape' /\ Held' = Held /\ Created' = Created
      BY <1>2 DEF UpgradeInv, TrackInv, CreationShape, Held, Created
    <3>2. Listed(tcs) = Listed(trade_contracts) /\ Ledgers(tcs) = Ledgers(trade_contracts)
          /\ Len(tcs) = Len(trade_contracts)
      BY <2>2, <2>3, ListedSame DEF SameContracts
    <3>3. Tracked(tcs, Created, Held, mid_call_data)
      BY <3>2 DEF UpgradeInv, TrackInv, Tracked
    <3> QED
      BY <1>2, <2>1, <2>5, <3>1, <3>3 DEF TrackInv
  <2>7. UnderUpgrade' \subseteq UnderUpgrade
    BY <2>4 DEF UnderUpgrade
  <2>8. TargetsCreated' /\ RacesKnown'
    BY <1>2, <2>4, <2>7 DEF UpgradeInv, TargetsCreated, RacesKnown, Created
  <2>9. StepsShaped' /\ StepsOK' /\ CreatedWithCode'
    BY <1>2, <2>4 DEF UpgradeInv, StepsShaped, StepsOK, CreatedWithCode
  <2>10. ListHashes'
    <3> SUFFICES ASSUME NEW i \in 1 .. Len(tcs), tcs[i].canister \notin raced,
                        \A v \in Upgrade : tcs[i].canister \in Targets(v)' =>
                          ~StepInstalled(upgrades'[v].steps[tcs[i].canister])
                 PROVE  canisters[tcs[i].canister].module = tcs[i].module_hash
      BY <1>2, <2>1 DEF ListHashes, HashOK, Installed, StepInstalled
    <3> DEFINE d == trade_contracts[i].canister
    <3>1. i \in 1 .. Len(trade_contracts) /\ tcs[i].canister = d
      BY <2>2 DEF SameContracts
    <3>2. CASE Installed(u, d)
      BY <2>2, <3>1, <3>2, InstalledStep DEF UpgradeInv, StepsOK, StepOK
    <3>3. CASE ~Installed(u, d)
      <4>1. \A v \in Upgrade : ~Installed(v, d)
        BY <2>4, <3>1, <3>3, InstalledStep
      <4> QED
        BY <2>2, <3>1, <3>3, <4>1 DEF UpgradeInv, ListHashes, HashOK
    <3> QED
      BY <3>2, <3>3
  <2> QED
    BY <2>6, <2>8, <2>9, <2>10 DEF UpgradeInv
<1> QED
  BY <1>3, <1>4

(* The canisters that an upgrade takes. *)
LEMMA OutdatedListed ==
  ASSUME NEW code
  PROVE  Outdated(code) \subseteq Listed(trade_contracts)
BY DEF Outdated, Listed, ToSet

LEMMA UpgradeTcsUpgrades ==
  ASSUME UpgradeInv, NEW u \in Upgrade, NEW new_code \in Code \cup {None},
         NEW specific \in {None} \cup SUBSET Created, UpgradeTcs(u, new_code, specific)
  PROVE  UpgradeInv'
<1> DEFINE code == IF new_code = None THEN tc_canister_code ELSE new_code
           tcs  == IF specific = None THEN Outdated(code) ELSE specific
           steps == [c \in tcs |-> FirstStep]
           up == [code |-> code, steps |-> steps]
<1>1. /\ upgrades[u] = None /\ tc_canister_code' = code
      /\ upgrades' = [upgrades EXCEPT ![u] = IF tcs = {} THEN None ELSE up]
      /\ raced' = raced \cup (tcs \cap (UnderUpgrade \cup {creation.canister}))
      /\ UNCHANGED <<trade_contracts, mid_call_data, creation, canisters>>
      /\ calls < MaxCalls /\ calls' = calls + 1
  BY DEF UpgradeTcs, ControllerCalls
<1>2. code \in Code \cup {None}
  BY DEF UpgradeInv, TrackInv, TypeOK
<1>3. tcs \subseteq Created
  BY OutdatedListed DEF UpgradeInv, TrackInv, Tracked
<1> HIDE DEF tcs, code
<1>4. /\ tcs \subseteq Canister /\ None \notin tcs
      /\ upgrades \in [Upgrade -> UpgradeData \cup {None}]
  BY <1>3, CMMainAssumption DEF Created, UpgradeInv, TrackInv, TypeOK
<1>5. /\ steps \in [tcs -> Step] /\ DOMAIN steps = tcs
      /\ \A c \in tcs : steps[c] = FirstStep
  BY DEF FirstStep, Step
<1> HIDE DEF steps
<1>6. up \in UpgradeData /\ up # None /\ up.steps = steps /\ up.code = code
  BY <1>2, <1>4, <1>5, UpgradeDataOf
<1> HIDE DEF up
<1>7. /\ upgrades'[u] = IF tcs = {} THEN None ELSE up
      /\ upgrades' \in [Upgrade -> UpgradeData \cup {None}]
      /\ \A v \in Upgrade : v # u => upgrades'[v] = upgrades[v]
  BY <1>1, <1>4, <1>6
<1>8. Targets(u) = {} /\ Targets(u)' = tcs
  BY <1>1, <1>5, <1>6, <1>7 DEF Targets
<1>9. \A v \in Upgrade : v # u => Targets(v)' = Targets(v)
  BY <1>7 DEF Targets
<1>10. UnderUpgrade' = UnderUpgrade \cup tcs
  BY <1>8, <1>9 DEF UnderUpgrade
<1>11. Created' = Created
  BY <1>1 DEF Created
<1>12. TypeOK'
  <2>1. raced' \subseteq Canister \cup {None} /\ calls' \in 0 .. MaxCalls
    BY <1>1, <1>4, CMMainAssumption DEF UpgradeInv, TrackInv, TypeOK
  <2> QED
    BY <1>1, <1>2, <1>7, <2>1 DEF UpgradeInv, TrackInv, TypeOK
<1>13. TrackInv'
  BY <1>1, <1>11, <1>12, SameTrack DEF UpgradeInv
<1>14. TargetsCreated'
  BY <1>3, <1>10, <1>11 DEF UpgradeInv, TargetsCreated
<1>15. RacesKnown'
  <2>1. \A v, w \in Upgrade : v # w => Targets(v)' \cap Targets(w)' \subseteq raced'
    <3> SUFFICES ASSUME NEW v \in Upgrade, NEW w \in Upgrade, v # w
                 PROVE  Targets(v)' \cap Targets(w)' \subseteq raced'
      OBVIOUS
    <3>1. CASE v # u /\ w # u
      BY <1>1, <1>9, <3>1 DEF UpgradeInv, RacesKnown
    <3>2. CASE v = u
      BY <1>1, <1>8, <1>9, <3>2 DEF UnderUpgrade
    <3>3. CASE w = u
      BY <1>1, <1>8, <1>9, <3>3 DEF UnderUpgrade
    <3> QED
      BY <3>1, <3>2, <3>3
  <2>2. creation.canister \in UnderUpgrade' => creation.canister \in raced'
    BY <1>1, <1>10 DEF UpgradeInv, RacesKnown
  <2> QED
    BY <1>1, <2>1, <2>2 DEF RacesKnown
<1>16. \A v \in Upgrade : \A d \in Targets(v)' :
         \/ v = u /\ upgrades'[v].steps[d] = FirstStep
         \/ v # u /\ d \in Targets(v) /\ upgrades'[v] = upgrades[v]
  BY <1>5, <1>6, <1>7, <1>8, <1>9
<1>17. StepsShaped' /\ StepsOK'
  <2>1. \A codes, canister : StepShape(FirstStep, codes) /\ StepOK(FirstStep, codes, canister)
    BY DEF StepShape, StepOK, StepInstalled, FirstStep
  <2>2. StepsShaped'
    BY <1>16, <2>1 DEF UpgradeInv, StepsShaped
  <2>3. StepsOK'
    BY <1>1, <1>16, <2>1 DEF UpgradeInv, StepsOK
  <2> QED
    BY <2>2, <2>3
<1>18. CreatedWithCode'
  BY <1>1 DEF UpgradeInv, CreatedWithCode
<1>19. ListHashes'
  <2> SUFFICES ASSUME NEW i \in 1 .. Len(trade_contracts),
                      trade_contracts[i].canister \notin raced',
                      \A v \in Upgrade : trade_contracts[i].canister \in Targets(v)' =>
                        ~StepInstalled(upgrades'[v].steps[trade_contracts[i].canister])
               PROVE  canisters[trade_contracts[i].canister].module = trade_contracts[i].module_hash
    BY <1>1, ZenonT(60) DEF ListHashes, HashOK, Installed, StepInstalled
  <2>1. \A v \in Upgrade : ~Installed(v, trade_contracts[i].canister)
    BY <1>7, <1>8, <1>9, InstalledStep
  <2> QED
    BY <1>1, <2>1 DEF UpgradeInv, ListHashes, HashOK
<1> QED
  BY <1>13, <1>14, <1>15, <1>17, <1>18, <1>19 DEF UpgradeInv

----------------------------------------------------------------------------
(* Creations, next to the upgrades *)

(* A step of a creation changes at most a canister that is not listed, and *)
(* one that no upgrade takes, unless it is known to be raced.              *)
LEMMA CreationUpgrades ==
  ASSUME UpgradeInv, TrackInv', UNCHANGED upgrades, raced \subseteq raced',
         Created \subseteq Created',
         \A d \in UnderUpgrade \ raced' : canisters'[d] = canisters[d],
         creation'.canister \in UnderUpgrade => creation'.canister \in raced',
         CreatedWithCode', ListHashes'
  PROVE  UpgradeInv'
<1>1. UnderUpgrade' = UnderUpgrade /\ \A v \in Upgrade : Targets(v)' = Targets(v)
  BY DEF UnderUpgrade, Targets
<1>2. TargetsCreated' /\ RacesKnown' /\ StepsShaped'
  BY <1>1 DEF UpgradeInv, TargetsCreated, RacesKnown, StepsShaped
<1>3. StepsOK'
  BY <1>1 DEF UpgradeInv, StepsOK, UnderUpgrade
<1> QED
  BY <1>2, <1>3 DEF UpgradeInv

LEMMA SameHashes ==
  ASSUME UpgradeInv, UNCHANGED <<upgrades, trade_contracts>>, raced \subseteq raced',
         \A d \in Listed(trade_contracts) : canisters'[d] = canisters[d]
  PROVE  ListHashes'
<1> SUFFICES ASSUME NEW i \in 1 .. Len(trade_contracts),
                    trade_contracts[i].canister \notin raced',
                    \A v \in Upgrade : ~Installed(v, trade_contracts[i].canister)
             PROVE  canisters'[trade_contracts[i].canister].module = trade_contracts[i].module_hash
  BY DEF ListHashes, HashOK, Installed, Targets
<1>1. trade_contracts[i].canister \in Listed(trade_contracts)
  BY DEF UpgradeInv, TrackInv, TypeOK, Listed, ToSet
<1> QED
  BY <1>1 DEF UpgradeInv, ListHashes, HashOK

(* What no other step knows: the held canister is created and not listed. *)
LEMMA HeldCreated ==
  ASSUME TrackInv
  PROVE  /\ Listed(trade_contracts) \subseteq Created /\ Created \subseteq Canister
         /\ Held \notin Listed(trade_contracts)
         /\ Held # None => Held \in Created
         /\ None \notin Created
         /\ creation.pc # "idle" => Held = creation.canister
         /\ canisters \in [Canister -> CanisterData \cup {None}]
BY CMMainAssumption DEF TrackInv, Tracked, Created, Held, TypeOK

LEMMA UploadUpgrades ==
  ASSUME UpgradeInv, NEW code \in Code, controller_upload_canister_code(code)
  PROVE  UpgradeInv'
<1>1. UNCHANGED <<trade_contracts, mid_call_data, creation, upgrades, canisters, raced>>
  BY DEF controller_upload_canister_code
<1>2. ListHashes' /\ CreatedWithCode' /\ Created' = Created
  BY <1>1, SameHashes DEF UpgradeInv, CreatedWithCode, Created
<1> QED
  BY <1>1, <1>2, UploadTrack, CreationUpgrades DEF UpgradeInv, RacesKnown

LEMMA CreateUpgrades ==
  ASSUME UpgradeInv, NEW l \in Ledger, CreateTradeContract(l)
  PROVE  UpgradeInv'
<1>1. /\ UNCHANGED <<trade_contracts, upgrades, canisters, raced>>
      /\ creation'.pc = "create" /\ creation'.canister = None
  BY DEF CreateTradeContract, NoCreation
<1>2. TrackInv' /\ None \notin UnderUpgrade
  BY CreateTrack, HeldCreated DEF UpgradeInv, TargetsCreated
<1>3. ListHashes' /\ CreatedWithCode' /\ Created' = Created
  BY <1>1, SameHashes DEF CreatedWithCode, Created
<1> QED
  BY <1>1, <1>2, <1>3, CreationUpgrades

LEMMA ContinueUpgrades ==
  ASSUME UpgradeInv, ContinueCreate
  PROVE  UpgradeInv'
<1>1. /\ UNCHANGED <<trade_contracts, upgrades, canisters>>
      /\ raced' = raced \cup ({mid_call_data.canister} \cap UnderUpgrade)
      /\ mid_call_data # None
  BY DEF ContinueCreate
<1>2. MayCreate(mid_call_data.ledger)
  BY <1>1 DEF UpgradeInv, TrackInv, Tracked, MayCreate, ListedLedgers, Ledgers
<1>3. creation'.answer = "none" /\ creation'.canister = mid_call_data.canister
  BY <1>2 DEF ContinueCreate, Installation, NoCreation
<1>4. TrackInv'
  BY ContinueTrack DEF UpgradeInv
<1>5. ListHashes' /\ CreatedWithCode' /\ Created' = Created
  BY <1>1, <1>3, SameHashes DEF CreatedWithCode, Created
<1> QED
  BY <1>1, <1>3, <1>4, <1>5, CreationUpgrades

LEMMA CreateCanisterUpgrades ==
  ASSUME UpgradeInv, NEW c \in Canister, CreateCanister(c)
  PROVE  UpgradeInv'
<1> DEFINE new == [module |-> None, status |-> "running"]
<1>1. /\ canisters[c] = None /\ canisters' = [canisters EXCEPT ![c] = new]
      /\ UNCHANGED <<trade_contracts, upgrades, raced>>
  BY DEF CreateCanister, mainVars
<1> HIDE DEF new
<1>2. c \notin Created /\ c \notin UnderUpgrade /\ c \notin Listed(trade_contracts)
  BY <1>1, HeldCreated DEF Created, UpgradeInv, TargetsCreated
<1>3. \A d \in Created : canisters'[d] = canisters[d]
  BY <1>1, <1>2, HeldCreated DEF UpgradeInv
<1>4. Created \subseteq Created'
  BY <1>3 DEF Created
<1>5. creation'.pc = "create" /\ creation'.canister = c
  BY DEF CreateCanister, UpgradeInv, TrackInv, TypeOK, CreationType
<1>6. TrackInv'
  BY CreateCanisterTrack DEF UpgradeInv
<1>7. ListHashes' /\ CreatedWithCode'
  BY <1>1, <1>3, <1>5, SameHashes, HeldCreated DEF CreatedWithCode, UpgradeInv
<1> QED
  BY <1>1, <1>2, <1>3, <1>4, <1>5, <1>6, <1>7, CreationUpgrades DEF UpgradeInv, TargetsCreated

LEMMA InstallCodeUpgrades ==
  ASSUME UpgradeInv, InstallCode
  PROVE  UpgradeInv'
<1> DEFINE c == creation.canister
           installed == [canisters[c] EXCEPT !.module = creation.code]
<1>1. /\ creation.pc = "install" /\ canisters' = [canisters EXCEPT ![c] = installed]
      /\ UNCHANGED <<trade_contracts, upgrades, raced>>
  BY DEF InstallCode, mainVars
<1>2. Held = c /\ c # None /\ c \in Created /\ c \in Canister /\ c \notin Listed(trade_contracts)
  <2>1. TrackInv
    BY DEF UpgradeInv
  <2>2. c # None
    BY <1>1, <2>1 DEF TrackInv, CreationShape
  <2> QED
    BY <1>1, <2>1, <2>2, HeldCreated
<1>3. installed.module = creation.code /\ installed # None
  <2>1. canisters[c] \in CanisterData
    BY <1>2, HeldCreated DEF Created, UpgradeInv
  <2>2. creation.code \in Code \cup {None}
    BY DEF UpgradeInv, TrackInv, TypeOK, CreationType
  <2>3. installed \in CanisterData /\ installed.module = creation.code
    BY <2>1, <2>2 DEF CanisterData
  <2> QED
    BY <2>3, CMMainAssumption
<1> HIDE DEF installed
<1>4. canisters'[c] = installed /\ \A d \in Canister : d # c => canisters'[d] = canisters[d]
  BY <1>1, <1>2, HeldCreated DEF UpgradeInv
<1>5. Created' = Created
  BY <1>2, <1>3, <1>4 DEF Created
<1>6. creation'.canister = c /\ creation'.code = creation.code
  BY DEF InstallCode, UpgradeInv, TrackInv, TypeOK, CreationType
<1>7. TrackInv'
  BY CreationCallTrack DEF UpgradeInv
<1>8. CreatedWithCode'
  BY <1>3, <1>4, <1>6 DEF CreatedWithCode
<1>9. ListHashes'
  BY <1>1, <1>2, <1>4, SameHashes, HeldCreated DEF UpgradeInv
<1>10. \A d \in UnderUpgrade \ raced' : canisters'[d] = canisters[d]
  <2>1. UnderUpgrade \subseteq Canister /\ (c \in UnderUpgrade => c \in raced)
    BY HeldCreated DEF UpgradeInv, TargetsCreated, RacesKnown
  <2> QED
    BY <1>1, <1>4, <2>1
<1> QED
  BY <1>1, <1>5, <1>6, <1>7, <1>8, <1>9, <1>10, CreationUpgrades DEF UpgradeInv, RacesKnown

LEMMA CreationFailsUpgrades ==
  ASSUME UpgradeInv, CreationCallFails
  PROVE  UpgradeInv'
<1>1. UNCHANGED <<trade_contracts, upgrades, canisters, raced>>
  BY DEF CreationCallFails, mainVars
<1>2. creation'.answer = "err" /\ creation'.canister = creation.canister
  BY DEF CreationCallFails, UpgradeInv, TrackInv, TypeOK, CreationType
<1>3. TrackInv'
  BY CreationCallTrack DEF UpgradeInv
<1>4. ListHashes' /\ CreatedWithCode' /\ Created' = Created
  BY <1>1, <1>2, SameHashes DEF CreatedWithCode, Created
<1> QED
  BY <1>1, <1>2, <1>3, <1>4, CreationUpgrades DEF UpgradeInv, RacesKnown

LEMMA CreateReturnsUpgrades ==
  ASSUME UpgradeInv, CreateReturns
  PROVE  UpgradeInv'
<1>1. UNCHANGED <<trade_contracts, upgrades, canisters, raced>>
  BY DEF CreateReturns
<1>2. creation'.answer = "none" /\ creation'.canister \in {creation.canister, None}
  <2>1. CASE creation.answer = "ok"
    <3>1. creation' = Installation(creation.ledger, creation.canister)
      BY <2>1 DEF CreateReturns
    <3> QED
      BY <3>1 DEF Installation, NoCreation
  <2>2. CASE creation.answer # "ok"
    BY <2>2 DEF CreateReturns, NoCreation
  <2> QED
    BY <2>1, <2>2
<1>3. TrackInv' /\ None \notin UnderUpgrade
  BY CreateReturnsTrack, HeldCreated DEF UpgradeInv, TargetsCreated
<1>4. ListHashes' /\ CreatedWithCode' /\ Created' = Created
  BY <1>1, <1>2, SameHashes DEF CreatedWithCode, Created
<1> QED
  BY <1>1, <1>2, <1>3, <1>4, CreationUpgrades DEF UpgradeInv, RacesKnown

LEMMA InstallReturnsUpgrades ==
  ASSUME UpgradeInv, InstallReturns
  PROVE  UpgradeInv'
<1>1. UNCHANGED <<upgrades, canisters, raced>> /\ creation' = NoCreation
      /\ creation.pc = "install"
  BY DEF InstallReturns
<1>2. creation'.answer = "none" /\ creation'.canister = None
  BY <1>1 DEF NoCreation
<1>3. TrackInv' /\ None \notin UnderUpgrade
  BY InstallReturnsTrack, HeldCreated DEF UpgradeInv, TargetsCreated
<1>4. CreatedWithCode' /\ Created' = Created
  BY <1>1, <1>2 DEF CreatedWithCode, Created
<1>5. ListHashes'
  <2>1. CASE creation.answer # "ok"
    BY <1>1, <2>1, SameHashes DEF InstallReturns
  <2>2. CASE creation.answer = "ok"
    <3> DEFINE tc == [ledger |-> creation.ledger, canister |-> creation.canister,
                      module_hash |-> HashSent]
    <3>1. trade_contracts' = Append(trade_contracts, tc)
      BY <2>2 DEF InstallReturns
    <3>2. tc.canister = creation.canister /\ tc.module_hash = creation.code
      BY DEF HashSent
    <3> HIDE DEF tc
    <3>3. trade_contracts \in Seq(TradeContractData)
      BY DEF UpgradeInv, TrackInv, TypeOK
    <3>4. HashOK(tc)
      BY <1>1, <2>2, <3>2 DEF HashOK, UpgradeInv, CreatedWithCode
    <3>5. \A i \in 1 .. Len(trade_contracts') : HashOK(trade_contracts'[i])
      BY <3>1, <3>3, <3>4 DEF UpgradeInv, ListHashes
    <3> QED
      BY <1>1, <3>5 DEF ListHashes, HashOK, Installed, Targets
  <2> QED
    BY <2>1, <2>2
<1> QED
  BY <1>1, <1>2, <1>3, <1>4, <1>5, CreationUpgrades

----------------------------------------------------------------------------
(* Theorems *)

LEMMA InitUpgrades == Init => UpgradeInv
<1> SUFFICES ASSUME Init
             PROVE  UpgradeInv
  OBVIOUS
<1>1. \A u \in Upgrade : Targets(u) = {}
  BY DEF Init, Targets
<1>2. UnderUpgrade = {}
  BY <1>1 DEF UnderUpgrade
<1>3. TargetsCreated /\ RacesKnown /\ StepsShaped /\ StepsOK
  BY <1>1, <1>2 DEF TargetsCreated, RacesKnown, StepsShaped, StepsOK
<1>4. CreatedWithCode
  BY DEF Init, NoCreation, CreatedWithCode
<1>5. ListHashes
  BY DEF Init, ListHashes
<1> QED
  BY <1>3, <1>4, <1>5, InitTrack DEF UpgradeInv

LEMMA NextUpgrades == UpgradeInv /\ [Next]_vars => UpgradeInv'
<1> SUFFICES ASSUME UpgradeInv, [Next]_vars
             PROVE  UpgradeInv'
  OBVIOUS
<1>1. CASE \E code \in Code : controller_upload_canister_code(code)
  BY <1>1, UploadUpgrades
<1>2. CASE \E l \in Ledger : CreateTradeContract(l)
  BY <1>2, CreateUpgrades
<1>3. CASE ContinueCreate
  BY <1>3, ContinueUpgrades
<1>4. CASE \E u \in Upgrade, code \in Code \cup {None}, cs \in {None} \cup SUBSET Created :
             UpgradeTcs(u, code, cs)
  BY <1>4, UpgradeTcsUpgrades
<1>5. CASE \E c \in Canister : CreateCanister(c)
  BY <1>5, CreateCanisterUpgrades
<1>6. CASE InstallCode
  BY <1>6, InstallCodeUpgrades
<1>7. CASE CreationCallFails
  BY <1>7, CreationFailsUpgrades
<1>8. CASE \E u \in Upgrade : \E c \in Targets(u) :
             StopCanister(u, c) \/ UpgradeCode(u, c) \/ StartCanister(u, c) \/ UpgradeCallFails(u, c)
  BY <1>8, AnswerUpgrades
<1>9. CASE CreateReturns
  BY <1>9, CreateReturnsUpgrades
<1>10. CASE InstallReturns
  BY <1>10, InstallReturnsUpgrades
<1>11. CASE \E u \in Upgrade : \E c \in Targets(u) : UpgradeReturns(u, c)
  BY <1>11, UpgradeReturnsUpgrades
<1>12. CASE UNCHANGED vars
  <2>1. UNCHANGED <<tc_canister_code, trade_contracts, mid_call_data, creation, upgrades,
                    canisters, raced, calls>>
    BY <1>12 DEF vars, mainVars
  <2>2. TypeOK'
    BY <2>1 DEF UpgradeInv, TrackInv, TypeOK
  <2>3. TrackInv' /\ CreatedWithCode' /\ ListHashes' /\ Created' = Created
    BY <2>1, <2>2, SameTrack, SameHashes DEF UpgradeInv, CreatedWithCode, Created
  <2> QED
    BY <2>1, <2>3, CreationUpgrades DEF UpgradeInv, RacesKnown
<1> QED
  BY <1>1, <1>2, <1>3, <1>4, <1>5, <1>6, <1>7, <1>8, <1>9, <1>10, <1>11, <1>12
     DEF Next, Controller, ManagementCanister, Returns

(* The inductive invariant: what creations hold and list, and what each    *)
(* step of each upgrade knows of its canister.                             *)
THEOREM UpgradeInvariant == Spec => []UpgradeInv
<1>1. Init => UpgradeInv
  BY InitUpgrades
<1>2. UpgradeInv /\ [Next]_vars => UpgradeInv'
  BY NextUpgrades
<1> QED
  BY <1>1, <1>2, PTL DEF Spec

(* No canister that a creation has paid is lost, whichever of its calls    *)
(* fails, and no ledger has two trade contracts.                           *)
THEOREM CreationsTracked == Spec => []CreationInv
<1>1. UpgradeInv => CreationInv
  <2> SUFFICES ASSUME UpgradeInv
               PROVE  ContractsTracked
    BY DEF CreationInv, UpgradeInv, TrackInv
  <2> DEFINE listed == {tc.canister : tc \in ToSet(trade_contracts)}
             holding == {creation.canister} \cup
                          (IF mid_call_data = None THEN {} ELSE {mid_call_data.canister})
  <2>1. listed = Listed(trade_contracts) /\ ListedLedgers = Ledgers(trade_contracts)
    BY DEF Listed, Ledgers, ListedLedgers
  <2>2. CreationShape /\ Tracked(trade_contracts, Created, Held, mid_call_data)
    BY DEF UpgradeInv, TrackInv
  <2>3. holding \ {None} = {Held} \ {None} /\ holding \subseteq {Held, None}
    <3>1. CASE creation.pc = "idle"
      BY <2>2, <3>1 DEF CreationShape, Held
    <3>2. CASE creation.pc # "idle"
      <4>1. /\ mid_call_data # None /\ mid_call_data.canister \in {None, creation.canister}
            /\ Held = creation.canister
        BY <2>2, <3>2 DEF CreationShape, Held
      <4> QED
        BY <4>1
    <3> QED
      BY <3>1, <3>2
  <2>4. None \notin listed /\ Held \notin listed
    BY <2>1, HeldCreated DEF UpgradeInv
  <2>5. Created = listed \cup (holding \ {None}) /\ listed \cap holding = {}
    BY <2>1, <2>2, <2>3, <2>4 DEF Tracked
  <2>6. Cardinality(listed) = Len(trade_contracts)
        /\ Cardinality(ListedLedgers) = Len(trade_contracts)
    BY <2>1, <2>2 DEF Tracked
  <2>7. /\ (creation.pc # "idle") <=> (mid_call_data # None /\ mid_call_data.lock)
        /\ mid_call_data # None => mid_call_data.lock \/ mid_call_data.canister # None
    BY <2>2 DEF CreationShape
  <2>8. mid_call_data # None => mid_call_data.ledger \notin ListedLedgers
    BY <2>1, <2>2 DEF Tracked
  <2> QED
    BY <2>5, <2>6, <2>7, <2>8 DEF ContractsTracked
<1> QED
  BY <1>1, UpgradeInvariant, PTL

(* The hash by which the next upgrade finds the outdated trade contracts   *)
(* is that of the code that runs, or will be when the upgrade that         *)
(* installed it has ended.                                                 *)
THEOREM HashesAreRecorded == Spec => []HashesRecorded
<1>1. UpgradeInv => HashesRecorded
  <2> SUFFICES ASSUME UpgradeInv, NEW tc \in ToSet(trade_contracts), tc.canister \notin raced
               PROVE  canisters[tc.canister].module \in
                        (IF \E u \in Upgrade : Installed(u, tc.canister)
                         THEN {upgrades[u].code : u \in {v \in Upgrade : Installed(v, tc.canister)}}
                         ELSE {tc.module_hash})
    BY DEF HashesRecorded
  <2>1. PICK i \in 1 .. Len(trade_contracts) : tc = trade_contracts[i]
    BY DEF ToSet, UpgradeInv, TrackInv, TypeOK
  <2>2. CASE \E u \in Upgrade : Installed(u, tc.canister)
    <3>1. PICK u \in Upgrade : Installed(u, tc.canister)
      BY <2>2
    <3>2. canisters[tc.canister].module = upgrades[u].code
      BY <3>1, InstalledStep DEF UpgradeInv, StepsOK, StepOK
    <3> QED
      BY <2>2, <3>1, <3>2
  <2>3. CASE ~\E u \in Upgrade : Installed(u, tc.canister)
    BY <2>1, <2>3 DEF UpgradeInv, ListHashes, HashOK
  <2> QED
    BY <2>2, <2>3
<1> QED
  BY <1>1, UpgradeInvariant, PTL

(* The code of a trade contract is replaced only while it is stopped. *)
THEOREM CodeReplacedWhileStopped == Spec => ReplacedWhileStopped
<1> DEFINE Stopped == \A c \in Created : (canisters[c].module # None /\ c \notin raced
                                            /\ canisters'[c].module # canisters[c].module)
                        => canisters[c].status = "stopped"
<1>1. UpgradeInv /\ [Next]_vars => [Stopped]_vars
  <2> SUFFICES ASSUME UpgradeInv, Next, NEW d \in Created, canisters[d].module # None,
                      d \notin raced, canisters'[d].module # canisters[d].module
               PROVE  canisters[d].status = "stopped"
    OBVIOUS
  <2>1. /\ canisters \in [Canister -> CanisterData \cup {None}]
        /\ d \in Canister /\ canisters[d] \in CanisterData /\ canisters[d] # None
        /\ canisters' # canisters
    BY HeldCreated DEF UpgradeInv, Created
  <2>2. CASE \E c \in Canister : CreateCanister(c)
    BY <2>1, <2>2 DEF CreateCanister
  <2>3. CASE InstallCode
    <3> DEFINE installed == [canisters[creation.canister] EXCEPT !.module = creation.code]
    <3>1. canisters' = [canisters EXCEPT ![creation.canister] = installed]
          /\ canisters[creation.canister].module = None
      BY <2>3 DEF InstallCode
    <3> HIDE DEF installed
    <3> QED
      BY <2>1, <3>1
  <2>4. CASE \E u \in Upgrade : \E c \in Targets(u) :
               StopCanister(u, c) \/ StartCanister(u, c)
    <3>0. PICK u \in Upgrade : \E c \in Targets(u) : StopCanister(u, c) \/ StartCanister(u, c)
      BY <2>4
    <3>4. PICK c \in Targets(u) : StopCanister(u, c) \/ StartCanister(u, c)
      BY <3>0
    <3>1. PICK status \in {"running", "stopped"} :
            canisters' = [canisters EXCEPT ![c].status = status]
      BY <3>4 DEF StopCanister, StartCanister
    <3>2. canisters[c] \in CanisterData /\ c \in Canister
      BY StepTypes
    <3> DEFINE other == [canisters[c] EXCEPT !.status = status]
    <3>3. other.module = canisters[c].module /\ canisters' = [canisters EXCEPT ![c] = other]
      BY <3>1, <3>2 DEF CanisterData
    <3> HIDE DEF other
    <3> QED
      BY <2>1, <3>2, <3>3
  <2>5. CASE \E u \in Upgrade : \E c \in Targets(u) : UpgradeCode(u, c)
    <3>0. PICK u \in Upgrade : \E c \in Targets(u) : UpgradeCode(u, c)
      BY <2>5
    <3>1. PICK c \in Targets(u) : UpgradeCode(u, c)
      BY <3>0
    <3> DEFINE other == [canisters[c] EXCEPT !.module = upgrades[u].code]
    <3>2. canisters' = [canisters EXCEPT ![c] = other]
          /\ upgrades[u].steps[c].call = "install_code"
      BY <3>1 DEF UpgradeCode, Waiting
    <3> HIDE DEF other
    <3>3. d = c
      BY <2>1, <3>2
    <3> QED
      BY <3>2, <3>3 DEF UpgradeInv, StepsOK, StepOK
  <2> QED
    BY <2>1, <2>2, <2>3, <2>4, <2>5
       DEF Next, Controller, ManagementCanister, Returns, controller_upload_canister_code,
           CreateTradeContract, ContinueCreate, UpgradeTcs, CreationCallFails, UpgradeCallFails,
           CreateReturns, InstallReturns, UpgradeReturns
<1> QED
  BY <1>1, UpgradeInvariant, PTL DEF Spec, ReplacedWhileStopped
=============================================================================
