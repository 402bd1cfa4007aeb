------------------------------- MODULE CMMain -------------------------------
(***************************************************************************)
(* CM-main (cm_main/src/lib.rs) creates and upgrades the trade contracts.  *)
(*                                                                         *)
(* A creation is a call of create_canister and a call of install_code; what *)
(* failed in the middle is kept and continued by another method.  An        *)
(* upgrade (cts_lib tools.rs, upgrade_canisters) stops, installs and starts *)
(* each of its canisters, all of them at once, and then records the hash    *)
(* of the code for those whose code was installed.  The methods are the     *)
(* controller's, who may call them while earlier ones are in progress.      *)
(*                                                                         *)
(* A code stands for its module and its hash.  The management canister is   *)
(* external: its steps are those that its callers handle.                   *)
(***************************************************************************)
EXTENDS Naturals, Sequences, FiniteSets, SequencesExt

CONSTANTS
  Ledger, Canister, Code,
  Upgrade,    \* slots for upgrades in progress
  MaxUpgrade, \* the 200 of controller_upgrade_tcs
  MaxCalls,   \* bound of the controller's calls
  None        \* Rust's None; also the empty code

MidCallData == [lock : BOOLEAN, ledger : Ledger, canister : Canister \cup {None}]
CanisterData == [module : Code \cup {None}, status : {"running", "stopped"}]

Step == [call : {"stop_canister", "install_code", "start_canister", "done"},
         answer : {"none", "ok", "err"}, installed : {"none", "ok", "err"}]
UpgradeData == [code : Code \cup {None}, steps : UNION {[cs -> Step] : cs \in SUBSET Canister}]

ASSUME CMMainAssumption ==
  /\ MaxUpgrade \in Nat /\ MaxCalls \in Nat
  /\ None \notin Ledger \cup Canister \cup Code
  /\ None \notin MidCallData \cup CanisterData \cup UpgradeData

VARIABLES
  tc_canister_code,
  trade_contracts,
  mid_call_data,   \* controller_create_icrc1token_trade_contract_mid_call_data
  creation,        \* the creation in progress
  upgrades,        \* [Upgrade -> the upgrade in progress]
  canisters,       \* [Canister -> the canister, at the management canister]
  raced,           \* canisters that two calls installed code on at a time
  calls            \* calls of the controller so far

mainVars == <<tc_canister_code, trade_contracts, mid_call_data>>
vars == <<mainVars, creation, upgrades, canisters, raced, calls>>

NoCreation == [pc |-> "idle", ledger |-> None, canister |-> None, code |-> None,
               answer |-> "none"]

Init ==
  /\ tc_canister_code = None
  /\ trade_contracts = <<>>
  /\ mid_call_data = None
  /\ creation = NoCreation
  /\ upgrades = [u \in Upgrade |-> None]
  /\ canisters = [c \in Canister |-> None]
  /\ raced = {}
  /\ calls = 0

ControllerCalls == calls < MaxCalls /\ calls' = calls + 1

controller_upload_canister_code(code) ==
  /\ ControllerCalls
  /\ tc_canister_code' = code
  /\ UNCHANGED <<trade_contracts, mid_call_data, creation, upgrades, canisters, raced>>

----------------------------------------------------------------------------
(* controller_create_trade_contract *)

ListedLedgers == {tc.ledger : tc \in ToSet(trade_contracts)}

Targets(u) == IF upgrades[u] = None THEN {} ELSE DOMAIN upgrades[u].steps
UnderUpgrade == UNION {Targets(u) : u \in Upgrade}

MayCreate(l) == l \notin ListedLedgers

(* Up to the first await.  The errors before it change nothing, because    *)
(* they remove the mid-call data that the call has just written.           *)
CreateTradeContract(l) ==
  /\ ControllerCalls
  /\ mid_call_data = None
  /\ MayCreate(l)
  /\ mid_call_data' = [lock |-> TRUE, ledger |-> l, canister |-> None]
  /\ creation' = [NoCreation EXCEPT !.pc = "create", !.ledger = l]
  /\ UNCHANGED <<tc_canister_code, trade_contracts, upgrades, canisters, raced>>

(* The code to install, and its hash, are read when the call is made. *)
Installation(l, c) ==
  [NoCreation EXCEPT !.pc = "install", !.ledger = l, !.canister = c,
                     !.code = tc_canister_code]

(* continue_controller_create_trade_contract, up to its await. *)
ContinueCreate ==
  /\ ControllerCalls
  /\ mid_call_data # None /\ ~mid_call_data.lock
  /\ IF MayCreate(mid_call_data.ledger)
     THEN /\ mid_call_data' = [mid_call_data EXCEPT !.lock = TRUE]
          /\ creation' = Installation(mid_call_data.ledger, mid_call_data.canister)
     ELSE mid_call_data' = None /\ creation' = creation
  /\ raced' = raced \cup ({mid_call_data.canister} \cap UnderUpgrade)
  /\ UNCHANGED <<tc_canister_code, trade_contracts, upgrades, canisters>>

(* The management canister answers. *)
CreateCanister(c) ==
  /\ creation.pc = "create" /\ creation.answer = "none"
  /\ canisters[c] = None
  /\ canisters' = [canisters EXCEPT ![c] = [module |-> None, status |-> "running"]]
  /\ creation' = [creation EXCEPT !.canister = c, !.answer = "ok"]
  /\ UNCHANGED <<mainVars, upgrades, raced, calls>>

InstallCode ==
  /\ creation.pc = "install" /\ creation.answer = "none"
  /\ creation.code # None
  /\ canisters[creation.canister].module = None
  /\ canisters' = [canisters EXCEPT ![creation.canister].module = creation.code]
  /\ creation' = [creation EXCEPT !.answer = "ok"]
  /\ UNCHANGED <<mainVars, upgrades, raced, calls>>

CreationCallFails ==
  /\ creation.pc # "idle" /\ creation.answer = "none"
  /\ creation' = [creation EXCEPT !.answer = "err"]
  /\ UNCHANGED <<mainVars, upgrades, canisters, raced, calls>>

CreateReturns ==
  /\ creation.pc = "create" /\ creation.answer # "none"
  /\ IF creation.answer = "ok"
     THEN /\ creation' = Installation(creation.ledger, creation.canister)
          /\ UNCHANGED mid_call_data
     ELSE creation' = NoCreation /\ mid_call_data' = None
  /\ UNCHANGED <<tc_canister_code, trade_contracts, upgrades, canisters, raced, calls>>

(* Mutant: a failed installation drops the mid-call data. *)
DroppedMidCall == None
(* Mutant: the hash is read when the installation returns. *)
HashNow == tc_canister_code
(* The hash of the code that was sent. *)
HashSent == creation.code

(* unlock_and_write_..._mid_call_data *)
UnlockedMidCall == [lock |-> FALSE, ledger |-> creation.ledger, canister |-> creation.canister]

InstallReturns ==
  /\ creation.pc = "install" /\ creation.answer # "none"
  /\ IF creation.answer = "ok"
     THEN /\ mid_call_data' = None
          /\ trade_contracts' = Append(trade_contracts,
               [ledger |-> creation.ledger, canister |-> creation.canister,
                module_hash |-> HashSent])
     ELSE /\ mid_call_data' = UnlockedMidCall
          /\ UNCHANGED trade_contracts
  /\ creation' = NoCreation
  /\ UNCHANGED <<tc_canister_code, upgrades, canisters, raced, calls>>

----------------------------------------------------------------------------
(* controller_upgrade_tcs *)

(* The trade contracts whose hash is another one, at most MaxUpgrade. *)
Outdated(code) ==
  LET outdated == {i \in DOMAIN trade_contracts : trade_contracts[i].module_hash # code}
  IN {trade_contracts[i].canister :
        i \in {j \in outdated : Cardinality({l \in outdated : l < j}) < MaxUpgrade}}

FirstStep == [call |-> "stop_canister", answer |-> "none", installed |-> "none"]

(* Up to its await, with the canisters named or the outdated ones; with    *)
(* none of them it ends at once.                                           *)
UpgradeTcs(u, new_code, specific) ==
  LET code == IF new_code = None THEN tc_canister_code ELSE new_code
      tcs  == IF specific = None THEN Outdated(code) ELSE specific
  IN /\ ControllerCalls
     /\ upgrades[u] = None
     /\ tc_canister_code' = code
     /\ upgrades' = [upgrades EXCEPT ![u] =
          IF tcs = {} THEN None ELSE [code |-> code, steps |-> [c \in tcs |-> FirstStep]]]
     /\ raced' = raced \cup (tcs \cap (UnderUpgrade \cup {creation.canister}))
     /\ UNCHANGED <<trade_contracts, mid_call_data, creation, canisters>>

Waiting(u, c, call) ==
  /\ upgrades[u] # None /\ c \in DOMAIN upgrades[u].steps
  /\ upgrades[u].steps[c].call = call /\ upgrades[u].steps[c].answer = "none"
Answer(u, c, answer) ==
  /\ upgrades' = [upgrades EXCEPT ![u].steps[c].answer = answer]
  /\ UNCHANGED <<mainVars, creation, raced, calls>>

(* The management canister answers.  A stop that takes too long is         *)
(* answered with an error and stays in force.                              *)
StopCanister(u, c) ==
  /\ Waiting(u, c, "stop_canister")
  /\ \E answer \in {"ok", "err"} : Answer(u, c, answer)
  /\ canisters' = [canisters EXCEPT ![c].status = "stopped"]

UpgradeCode(u, c) ==
  /\ Waiting(u, c, "install_code")
  /\ canisters[c].module # None /\ upgrades[u].code # None
  /\ Answer(u, c, "ok")
  /\ canisters' = [canisters EXCEPT ![c].module = upgrades[u].code]

StartCanister(u, c) ==
  /\ Waiting(u, c, "start_canister")
  /\ Answer(u, c, "ok")
  /\ canisters' = [canisters EXCEPT ![c].status = "running"]

UpgradeCallFails(u, c) ==
  /\ \E call \in {"stop_canister", "install_code", "start_canister"} : Waiting(u, c, call)
  /\ Answer(u, c, "err")
  /\ UNCHANGED canisters

(* Mutant: the code is installed whether or not the canister stopped. *)
NextStepAnyway(step) ==
  CASE step.call = "stop_canister" -> [FirstStep EXCEPT !.call = "install_code"]
    [] step.call = "install_code"  -> [FirstStep EXCEPT !.call = "start_canister",
                                                        !.installed = step.answer]
    [] step.call = "start_canister" -> [step EXCEPT !.call = "done"]
(* What upgrade_canister_ does with an answer. *)
NextStep(step) ==
  CASE step.call = "stop_canister" ->
         [FirstStep EXCEPT !.call = IF step.answer = "ok" THEN "install_code" ELSE "done"]
    [] step.call = "install_code"  -> [FirstStep EXCEPT !.call = "start_canister",
                                                        !.installed = step.answer]
    [] step.call = "start_canister" -> [step EXCEPT !.call = "done"]

(* The trade contracts with the successes of an upgrade. *)
Recorded(up) ==
  [i \in DOMAIN trade_contracts |->
     LET c == trade_contracts[i].canister
     IN IF c \in DOMAIN up.steps /\ up.steps[c].installed = "ok"
        THEN [trade_contracts[i] EXCEPT !.module_hash = up.code] ELSE trade_contracts[i]]

(* The upgrade goes on when all of its canisters are done (join_all). *)
UpgradeReturns(u, c) ==
  /\ upgrades[u] # None /\ c \in DOMAIN upgrades[u].steps
  /\ upgrades[u].steps[c].answer # "none" /\ upgrades[u].steps[c].call # "done"
  /\ LET up == [upgrades[u] EXCEPT !.steps[c] = NextStep(@)]
     IN IF \A d \in DOMAIN up.steps : up.steps[d].call = "done"
        THEN /\ upgrades' = [upgrades EXCEPT ![u] = None]
             /\ trade_contracts' = Recorded(up)
        ELSE /\ upgrades' = [upgrades EXCEPT ![u] = up]
             /\ UNCHANGED trade_contracts
  /\ UNCHANGED <<tc_canister_code, mid_call_data, creation, canisters, raced, calls>>

----------------------------------------------------------------------------
Created == {c \in Canister : canisters[c] # None}

Controller ==
  \/ \E code \in Code : controller_upload_canister_code(code)
  \/ \E l \in Ledger : CreateTradeContract(l)
  \/ ContinueCreate
  \/ \E u \in Upgrade, code \in Code \cup {None}, cs \in {None} \cup SUBSET Created :
       UpgradeTcs(u, code, cs)

ManagementCanister ==
  \/ \E c \in Canister : CreateCanister(c)
  \/ InstallCode \/ CreationCallFails
  \/ \E u \in Upgrade : \E c \in Targets(u) :
       StopCanister(u, c) \/ UpgradeCode(u, c) \/ StartCanister(u, c) \/ UpgradeCallFails(u, c)

Returns ==
  \/ CreateReturns \/ InstallReturns
  \/ \E u \in Upgrade : \E c \in Targets(u) : UpgradeReturns(u, c)

Next == Controller \/ ManagementCanister \/ Returns
Spec == Init /\ [][Next]_vars
----------------------------------------------------------------------------
(* Type invariant *)

TradeContractData == [ledger : Ledger, canister : Canister, module_hash : Code]
CreationType ==
  [pc : {"idle", "create", "install"}, ledger : Ledger \cup {None},
   canister : Canister \cup {None}, code : Code \cup {None}, answer : {"none", "ok", "err"}]

(* The contents of the state variables have the types of the code's data.  *)
TypeOK ==
  /\ tc_canister_code \in Code \cup {None}
  /\ trade_contracts \in Seq(TradeContractData)
  /\ mid_call_data \in MidCallData \cup {None}
  /\ creation \in CreationType
  /\ upgrades \in [Upgrade -> UpgradeData \cup {None}]
  /\ canisters \in [Canister -> CanisterData \cup {None}]
  /\ raced \subseteq Canister \cup {None}
  /\ calls \in 0 .. MaxCalls
----------------------------------------------------------------------------
(* Properties *)

(* Creations fail and are continued, and neither pays for a canister in    *)
(* vain nor gives a ledger two trade contracts: every canister created is  *)
(* listed, or the one that the mid-call data or the creation holds.  The   *)
(* lock is on exactly while a creation is in progress; off, the data have  *)
(* the canister to go on with.                                             *)
ContractsTracked ==
  LET listed  == {tc.canister : tc \in ToSet(trade_contracts)}
      holding == {creation.canister} \cup
                   (IF mid_call_data = None THEN {} ELSE {mid_call_data.canister})
  IN /\ Created = listed \cup (holding \ {None})
     /\ listed \cap holding = {}
     /\ Cardinality(listed) = Len(trade_contracts)
     /\ Cardinality(ListedLedgers) = Len(trade_contracts)
     /\ (creation.pc # "idle") <=> (mid_call_data # None /\ mid_call_data.lock)
     /\ mid_call_data # None => /\ mid_call_data.ledger \notin ListedLedgers
                                /\ mid_call_data.lock \/ mid_call_data.canister # None

(* The list, the mid-call data and the canisters there are, with the types *)
(* of them.                                                                *)
CreationInv == TypeOK /\ ContractsTracked

(* The hash in the list, by which the next upgrade finds the outdated      *)
(* canisters, is that of the code that runs, or will be when the upgrade   *)
(* that installed the code has ended: although new codes are uploaded      *)
(* while canisters are installed, and upgrades fail for some of them.  It  *)
(* may be wrong for a canister that two calls installed code on at a time. *)
Installed(u, c) ==
  /\ c \in Targets(u)
  /\ LET step == upgrades[u].steps[c]
     IN step.installed = "ok" \/ (step.call = "install_code" /\ step.answer = "ok")
HashesRecorded ==
  \A tc \in ToSet(trade_contracts) : tc.canister \notin raced =>
    canisters[tc.canister].module \in
      (IF \E u \in Upgrade : Installed(u, tc.canister)
       THEN {upgrades[u].code : u \in {v \in Upgrade : Installed(v, tc.canister)}}
       ELSE {tc.module_hash})

(* The code of a trade contract is replaced only while the contract is     *)
(* stopped, so that no call of it is in progress and comes back to the new *)
(* code; with the same exception.                                          *)
ReplacedWhileStopped ==
  [][\A c \in Created : (canisters[c].module # None /\ c \notin raced
                            /\ canisters'[c].module # canisters[c].module)
       => canisters[c].status = "stopped"]_vars
=============================================================================
