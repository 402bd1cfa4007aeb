------------------------------ MODULE StoredLog ------------------------------
(***************************************************************************)
(* What the log storage promises to its trade contract: one sequence of    *)
(* logs, numbered in the order of their creation, that only grows.  A log  *)
(* keeps its place and its key for ever; it may become final.              *)
(***************************************************************************)
EXTENDS Naturals, Sequences

CONSTANTS
  Key       \* what the logs are indexed by: the positor, or the positions

Log == [id : Nat, key : Key, final : BOOLEAN]
NewLog(i, k) == [id |-> i, key |-> k, final |-> FALSE]

VARIABLE logs

Init == logs = <<>>

AppendLog(k) == logs' = Append(logs, NewLog(Len(logs), k))

(* One message of the contract may write several final logs. *)
Finalize(ids) ==
  logs' = [i \in 1 .. Len(logs) |-> [logs[i] EXCEPT !.final = @ \/ logs[i].id \in ids]]

Next == \/ \E k \in Key : AppendLog(k)
        \/ \E ids \in SUBSET (0 .. Len(logs) - 1) : Finalize(ids)

Spec == Init /\ [][Next]_logs
=============================================================================
