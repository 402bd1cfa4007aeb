------------------------------- MODULE Calls -------------------------------
(***************************************************************************)
(* The calls of users that await a ledger (cm_tc/src/lib.rs, _trade and    *)
(* _transfer_balance): a set of locks keeps a user to one such call per    *)
(* ledger.                                                                 *)
(***************************************************************************)
EXTENDS Matching, Functions

CONSTANTS
  Call,             \* slots for the calls of users in progress
  MaxLocks          \* MAX_MID_CALL_USER_BALANCE_LOCKS

ASSUME CallsAssumption == MaxLocks \in Nat

VARIABLES
  locks,            \* [Kind -> mid_call_user_.._balance_locks]
  calls             \* [Call -> a user's call in progress]

NoCall == [op |-> "none"]

CallType ==
  {NoCall} \cup [op : {"trade", "transfer"}, user : User, kind : Kind, quantity : Nat,
                 rate : Nat, answer : {"none", "ok", "err"}]

(* A call takes the lock of its user before it awaits the ledger. *)
CallBegins(c, call) ==
  /\ calls[c] = NoCall
  /\ call.user \notin locks[call.kind]
  /\ Cardinality(locks[call.kind]) < MaxLocks
  /\ locks' = [locks EXCEPT ![call.kind] = @ \cup {call.user}]
  /\ calls' = [calls EXCEPT ![c] = call]

(* Mutant: an error keeps the lock. *)
CallEndsOnSuccess(c) ==
  /\ locks' = IF calls[c].answer = "ok"
              THEN [locks EXCEPT ![calls[c].kind] = @ \ {calls[c].user}] ELSE locks
  /\ calls' = [calls EXCEPT ![c] = NoCall]

(* The canister goes on with the ledger's answer. *)
CallEnds(c) ==
  /\ locks' = [locks EXCEPT ![calls[c].kind] = @ \ {calls[c].user}]
  /\ calls' = [calls EXCEPT ![c] = NoCall]

(* What the ledgers have taken in for the trades in progress. *)
PaidIn(k) ==
  SumFunction([c \in {d \in Call : calls[d].op = "trade" /\ calls[d].kind = k /\ calls[d].answer = "ok"}
                 |-> calls[c].quantity])

(* A lock is held exactly while its user has one call in progress at that  *)
(* ledger: a user's balance is never used by two calls, and no lock stays. *)
OneCallPerBalance ==
  /\ \A k \in Kind : locks[k] = {calls[c].user : c \in
                                   {d \in Call : calls[d].op # "none" /\ calls[d].kind = k}}
  /\ \A c, d \in Call :
       /\ calls[c].op # "none" /\ calls[d].op # "none"
       /\ calls[c].kind = calls[d].kind /\ calls[c].user = calls[d].user
       => c = d
=============================================================================
