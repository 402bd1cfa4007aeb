----------------------------- MODULE LogStorage -----------------------------
(***************************************************************************)
(* The log storage of a trade contract: LogStorageData, flush_logs and     *)
(* do_update_storage_position of cm_tc, and the storage canisters          *)
(* (cm_storage_lib) that keep the flushed logs.                            *)
(*                                                                         *)
(* New logs are appended to a buffer.  A flush sends the buffer, one chunk *)
(* per call, to the last storage canister, and creates a new one when the  *)
(* last is full.  A log that becomes final is overwritten where it is: in  *)
(* the buffer, or by a call of its canister.  One lock keeps flushes and   *)
(* updates apart.  The module is about one of the two logs; the trade logs *)
(* are never updated.                                                      *)
(*                                                                         *)
(* Bytes are counted in logs.  An action is one message execution at the   *)
(* contract, the management canister or a storage canister.                *)
(***************************************************************************)
EXTENDS Integers, Sequences, FiniteSets

CONSTANTS
  Key,        \* what the logs are indexed by: the positor, or the positions
  Canister,   \* the canisters that may be created
  MaxLogs,    \* bound of the logs that are made
  MaxMarks,   \* bound of the calls of controller_mark_full
  FlushAt,    \* FLUSH_STORAGE_BUFFER_AT_SIZE
  ChunkSize,  \* FLUSH_STORAGE_BUFFER_CHUNK_SIZE_BEFORE_MODULO, whole logs
  UpdateChunk,\* the most logs that one _do_payouts updates
  Capacity,   \* MAX_STABLE_LOGS_STORAGE_BYTES, MAX_HEAP_HASHMAP_SIZE
  None        \* Rust's None

ASSUME LogStorageAssumption ==
  /\ MaxLogs \in Nat /\ MaxMarks \in Nat /\ UpdateChunk \in Nat /\ Capacity \in Nat
  /\ FlushAt \in Nat \ {0} /\ ChunkSize \in Nat \ {0}
  /\ None \notin Canister

VARIABLES
  storage_buffer,
  storage_flush_lock,
  storage_canisters, \* what the contract knows of its storage canisters
  temp_holder,       \* create_storage_canister_temp_holder
  canisters,         \* [the canisters there are -> what they keep]
  flush,             \* the flush_logs in progress
  updates,           \* [ids being updated -> how far]
  updated,           \* ids whose update_storage_position_data.status is true
  log_count,         \* positions_id_counter
  marks

contractVars == <<storage_buffer, storage_flush_lock, storage_canisters, temp_holder>>
boundVars    == <<log_count, marks>>
vars == <<contractVars, canisters, flush, updates, updated, boundVars>>

Log == [id : Nat, key : Key, final : BOOLEAN]
NewLog(i, k) == [id |-> i, key |-> k, final |-> FALSE]

NoUpdates == [i \in {} |-> "none"]
NoFlush   == [pc |-> "idle", canister |-> None, chunks |-> <<>>, bytes |-> <<>>,
              answer |-> "none"]

NewStorageData == [installed |-> FALSE, first_log_id |-> 0, logs |-> <<>>,
                   index |-> [k \in Key |-> <<>>], mark_full |-> FALSE]

Init ==
  /\ storage_buffer = <<>>
  /\ storage_flush_lock = FALSE
  /\ storage_canisters = <<>>
  /\ temp_holder = None
  /\ canisters = [c \in {} |-> NewStorageData]
  /\ flush = NoFlush
  /\ updates = NoUpdates
  /\ updated = {}
  /\ log_count = 0
  /\ marks = 0

----------------------------------------------------------------------------
(* A position is made, or a trade log leaves the queue. *)
AppendLog(k) ==
  /\ log_count < MaxLogs
  /\ storage_buffer' = Append(storage_buffer, NewLog(log_count, k))
  /\ log_count' = log_count + 1
  /\ UNCHANGED <<storage_flush_lock, storage_canisters, temp_holder, canisters, flush,
                 updates, updated, marks>>

----------------------------------------------------------------------------
(* flush_logs *)

LastCanister == storage_canisters[Len(storage_canisters)]

(* The id of the first log that is not on a storage canister. *)
FirstUnflushed(scs) ==
  IF scs = <<>> THEN 0 ELSE scs[Len(scs)].first_log_id + scs[Len(scs)].length

(* The sizes of the chunks of n logs. *)
Chunks(n) == [i \in 1 .. (n + ChunkSize - 1) \div ChunkSize |->
                IF i * ChunkSize <= n THEN ChunkSize ELSE n - (i - 1) * ChunkSize]

SendChunk(c, chunks, buffer) ==
  [pc |-> "flush", canister |-> c, chunks |-> chunks,
   bytes |-> SubSeq(buffer, 1, chunks[1]), answer |-> "none"]

(* Up to the first await.  When the cycles of the contract do not pay for  *)
(* a new canister, the lock is released at once: nothing changes.          *)
FlushLogs ==
  /\ Len(storage_buffer) >= FlushAt
  /\ ~storage_flush_lock
  /\ storage_flush_lock' = TRUE
  /\ IF storage_canisters # <<>> /\ ~LastCanister.is_full
     THEN /\ flush' = SendChunk(LastCanister.canister_id, Chunks(Len(storage_buffer)),
                               storage_buffer)
          /\ temp_holder' = temp_holder
     ELSE /\ flush' = [NoFlush EXCEPT !.pc = IF temp_holder = None THEN "create" ELSE "install",
                                      !.canister = temp_holder]
          /\ temp_holder' = None
  /\ UNCHANGED <<storage_buffer, storage_canisters, canisters, updates, updated, boundVars>>

(* Mutant: the early return after a failed create_canister or install_code *)
(* keeps the lock.                                                         *)
ReleaseAfterChunks ==
  storage_flush_lock' = (flush.pc # "flush") /\ flush' = NoFlush
Release == storage_flush_lock' = FALSE /\ flush' = NoFlush

(* The management canister creates a canister for the contract. *)
CreateCanister(c) ==
  /\ flush.pc = "create" /\ flush.answer = "none"
  /\ c \notin DOMAIN canisters
  /\ canisters' = [d \in DOMAIN canisters \cup {c} |-> IF d = c THEN NewStorageData ELSE canisters[d]]
  /\ flush' = [flush EXCEPT !.canister = c, !.answer = "ok"]
  /\ UNCHANGED <<contractVars, updates, updated, boundVars>>

InstallCode ==
  /\ flush.pc = "install" /\ flush.answer = "none"
  /\ canisters' = [canisters EXCEPT ![flush.canister].installed = TRUE]
  /\ flush' = [flush EXCEPT !.answer = "ok"]
  /\ UNCHANGED <<contractVars, updates, updated, boundVars>>

(* Any call of a flush is rejected without having been executed. *)
FlushCallFails ==
  /\ flush.pc # "idle" /\ flush.answer = "none"
  /\ flush' = [flush EXCEPT !.answer = "err"]
  /\ UNCHANGED <<contractVars, canisters, updates, updated, boundVars>>

CreateReturns ==
  /\ flush.pc = "create" /\ flush.answer # "none"
  /\ IF flush.answer = "ok"
     THEN /\ flush' = [NoFlush EXCEPT !.pc = "install", !.canister = flush.canister]
          /\ storage_flush_lock' = storage_flush_lock
     ELSE Release
  /\ UNCHANGED <<storage_buffer, storage_canisters, temp_holder, canisters, updates,
                 updated, boundVars>>

NewStorageCanister(c) ==
  [canister_id |-> c, first_log_id |-> FirstUnflushed(storage_canisters), length |-> 0,
   is_full |-> FALSE]

(* With the canister installed, the flush goes on with its first chunk. *)
InstallReturns ==
  /\ flush.pc = "install" /\ flush.answer # "none"
  /\ IF flush.answer = "ok"
     THEN /\ storage_canisters' = Append(storage_canisters, NewStorageCanister(flush.canister))
          /\ flush' = SendChunk(flush.canister, Chunks(Len(storage_buffer)), storage_buffer)
          /\ UNCHANGED <<temp_holder, storage_flush_lock>>
     ELSE /\ temp_holder' = flush.canister
          /\ Release
          /\ UNCHANGED storage_canisters
  /\ UNCHANGED <<storage_buffer, canisters, updates, updated, boundVars>>

(* flush of a storage canister (cm_storage_lib). *)
Fits(sd, bytes) == ~sd.mark_full /\ Len(sd.logs) + Len(bytes) <= Capacity

(* The ids of the logs of a key, in the order in which they come. *)
IdsWithKey(bytes, k) ==
  LET ids[i \in 0 .. Len(bytes)] ==
        IF i = 0 THEN <<>>
        ELSE IF bytes[i].key = k THEN Append(ids[i - 1], bytes[i].id) ELSE ids[i - 1]
  IN ids[Len(bytes)]

(* Mutant: each flush sets the first id, not only the first flush. *)
StoredAnew(sd, bytes) ==
  [sd EXCEPT !.first_log_id = bytes[1].id,
             !.logs = @ \o bytes,
             !.index = [k \in Key |-> @[k] \o IdsWithKey(bytes, k)]]
Stored(sd, bytes) ==
  [sd EXCEPT !.first_log_id = IF sd.logs = <<>> THEN bytes[1].id ELSE @,
             !.logs = @ \o bytes,
             !.index = [k \in Key |-> @[k] \o IdsWithKey(bytes, k)]]

StorageFlush ==
  /\ flush.pc = "flush" /\ flush.answer = "none"
  /\ Fits(canisters[flush.canister], flush.bytes)
  /\ canisters' = [canisters EXCEPT ![flush.canister] = Stored(@, flush.bytes)]
  /\ flush' = [flush EXCEPT !.answer = "ok"]
  /\ UNCHANGED <<contractVars, updates, updated, boundVars>>

(* It is marked full, has no room, or its memory cannot grow. *)
StorageIsFull ==
  /\ flush.pc = "flush" /\ flush.answer = "none"
  /\ flush' = [flush EXCEPT !.answer = "full"]
  /\ UNCHANGED <<contractVars, canisters, updates, updated, boundVars>>

(* Mutant: the buffer keeps what was stored. *)
DrainNothing(buffer, n) == buffer
Drain(buffer, n) == SubSeq(buffer, n + 1, Len(buffer))

FlushReturns ==
  /\ flush.pc = "flush" /\ flush.answer # "none"
  /\ IF flush.answer = "ok"
     THEN LET n    == Head(flush.chunks)
              rest == Drain(storage_buffer, n)
          IN /\ storage_canisters' = [storage_canisters EXCEPT
                  ![Len(storage_canisters)].length = @ + n]
             /\ storage_buffer' = rest
             /\ IF Len(flush.chunks) > 1
                THEN /\ flush' = SendChunk(flush.canister, Tail(flush.chunks), rest)
                     /\ UNCHANGED storage_flush_lock
                ELSE Release
     ELSE /\ storage_canisters' = [storage_canisters EXCEPT
               ![Len(storage_canisters)].is_full = @ \/ flush.answer = "full"]
          /\ Release
          /\ UNCHANGED storage_buffer
  /\ UNCHANGED <<temp_holder, canisters, updates, updated, boundVars>>

----------------------------------------------------------------------------
(* The updates of one _do_payouts. *)

(* The storage canister that has a log, as the contract knows it. *)
CanisterOf(id) ==
  LET S == {i \in 1 .. Len(storage_canisters) :
              LET sc == storage_canisters[i]
              IN sc.first_log_id <= id /\ id < sc.first_log_id + sc.length}
  IN IF S = {} THEN None
     ELSE storage_canisters[CHOOSE i \in S : \A j \in S : i <= j].canister_id

Finished(us) == \A i \in DOMAIN us : us[i] \in {"ok", "err"}

(* When all of the updates are answered the lock is released and the       *)
(* results are recorded.                                                   *)
UpdatesPolled(us) ==
  IF Finished(us)
  THEN /\ updates' = NoUpdates
       /\ updated' = updated \cup {i \in DOMAIN us : us[i] = "ok"}
       /\ storage_flush_lock' = FALSE
  ELSE /\ updates' = us
       /\ storage_flush_lock' = TRUE
       /\ UNCHANGED updated

(* Mutant: the flush lock is not looked at. *)
MayAlwaysUpdate == updates = NoUpdates
MayUpdate == ~storage_flush_lock

(* A log in the buffer is overwritten there. *)
StartUpdates(ids) ==
  /\ MayUpdate
  /\ ids # {} /\ Cardinality(ids) <= UpdateChunk
  /\ ids \cap updated = {}
  /\ storage_buffer' = [i \in 1 .. Len(storage_buffer) |->
       [storage_buffer[i] EXCEPT !.final = @ \/ \E id \in ids :
          CanisterOf(id) = None /\ i = id - FirstUnflushed(storage_canisters) + 1]]
  /\ UpdatesPolled([id \in ids |-> IF CanisterOf(id) = None THEN "ok" ELSE "sent"])
  /\ UNCHANGED <<storage_canisters, temp_holder, canisters, flush, boundVars>>

(* cm_update_log of a storage canister, which traps when it does not have  *)
(* the log; or the call is rejected.                                       *)
CmUpdateLog(id) ==
  LET c  == CanisterOf(id)
      at == id - canisters[c].first_log_id + 1
  IN /\ updates[id] = "sent"
     /\ canisters[c].first_log_id <= id /\ at <= Len(canisters[c].logs)
     /\ canisters' = [canisters EXCEPT ![c].logs[at].final = TRUE]
     /\ updates' = [updates EXCEPT ![id] = "stored"]
     /\ UNCHANGED <<contractVars, flush, updated, boundVars>>

UpdateFails(id) ==
  /\ updates[id] = "sent"
  /\ updates' = [updates EXCEPT ![id] = "failed"]
  /\ UNCHANGED <<contractVars, canisters, flush, updated, boundVars>>

UpdateReturns(id) ==
  /\ updates[id] \in {"stored", "failed"}
  /\ UpdatesPolled([updates EXCEPT ![id] = IF @ = "stored" THEN "ok" ELSE "err"])
  /\ UNCHANGED <<storage_buffer, storage_canisters, temp_holder, canisters, flush, boundVars>>

----------------------------------------------------------------------------
ControllerMarkFull(c) ==
  /\ marks < MaxMarks
  /\ canisters[c].installed
  /\ \E mark \in BOOLEAN : canisters' = [canisters EXCEPT ![c].mark_full = mark]
  /\ marks' = marks + 1
  /\ UNCHANGED <<contractVars, flush, updates, updated, log_count>>

Callee ==
  \/ \E c \in Canister : CreateCanister(c)
  \/ InstallCode \/ FlushCallFails \/ StorageFlush \/ StorageIsFull
  \/ \E id \in DOMAIN updates : CmUpdateLog(id) \/ UpdateFails(id)

Returns ==
  \/ CreateReturns \/ InstallReturns \/ FlushReturns
  \/ \E id \in DOMAIN updates : UpdateReturns(id)

Next ==
  \/ \E k \in Key : AppendLog(k)
  \/ FlushLogs
  \/ Callee
  \/ Returns
  \/ \E ids \in SUBSET (0 .. log_count - 1) : StartUpdates(ids)
  \/ \E c \in DOMAIN canisters : ControllerMarkFull(c)

Spec == Init /\ [][Next]_vars
----------------------------------------------------------------------------
(* Type invariant *)

StorageCanisterData ==
  [canister_id : Canister, first_log_id : Nat, length : Nat, is_full : BOOLEAN]
StorageData ==
  [installed : BOOLEAN, first_log_id : Nat, logs : Seq(Log), index : [Key -> Seq(Nat)],
   mark_full : BOOLEAN]
FlushType ==
  [pc : {"idle", "create", "install", "flush"}, canister : Canister \cup {None},
   chunks : Seq(Nat), bytes : Seq(Log), answer : {"none", "ok", "full", "err"}]

(* The contents of the state variables have the types of the code's data.  *)
TypeOK ==
  /\ storage_buffer \in Seq(Log)
  /\ storage_flush_lock \in BOOLEAN
  /\ storage_canisters \in Seq(StorageCanisterData)
  /\ temp_holder \in Canister \cup {None}
  /\ DOMAIN canisters \subseteq Canister
  /\ canisters \in [DOMAIN canisters -> StorageData]
  /\ flush \in FlushType
  /\ DOMAIN updates \subseteq Nat
  /\ updates \in [DOMAIN updates -> {"sent", "stored", "failed", "ok", "err"}]
  /\ updated \subseteq Nat
  /\ log_count \in 0 .. MaxLogs
  /\ marks \in 0 .. MaxMarks
----------------------------------------------------------------------------
(* Properties *)

(* The log with an id, where the contract looks for it: the positions of   *)
(* its bytes on a storage canister or in the buffer.                       *)
At(ls, i) == IF i \in 1 .. Len(ls) THEN ls[i] ELSE None
LogAt(id) ==
  IF CanisterOf(id) = None
  THEN At(storage_buffer, id - FirstUnflushed(storage_canisters) + 1)
  ELSE LET sd == canisters[CanisterOf(id)] IN At(sd.logs, id - sd.first_log_id + 1)

Kept == INSTANCE StoredLog WITH logs <- [i \in 1 .. log_count |-> LogAt(i - 1)]

(* Through chunks, full canisters, failed calls and updates, what can be   *)
(* read by id is one log that only grows: nothing is lost, stored twice    *)
(* out of place, or renumbered, and only an update makes a log final.      *)
LogsKept == Kept!Spec

(* An update that the contract believes in is not undone by a flush of the *)
(* buffer as it was before.                                                *)
UpdatesKept ==
  \A id \in updated : \E k \in Key : LogAt(id) = [NewLog(id, k) EXCEPT !.final = TRUE]

(* What the contract knows of its storage canisters is what they have: the *)
(* ids go on from one to the next, only the last one may take more, and a  *)
(* chunk whose answer is on the way is the only difference.                *)
InFlight(i) ==
  IF i = Len(storage_canisters) /\ flush.pc = "flush" /\ flush.answer = "ok"
  THEN Len(flush.bytes) ELSE 0

RecordsMatchCanisters ==
  \A i \in 1 .. Len(storage_canisters) :
    LET sc == storage_canisters[i]
        sd == canisters[sc.canister_id]
    IN /\ sc.first_log_id = FirstUnflushed(SubSeq(storage_canisters, 1, i - 1))
       /\ i < Len(storage_canisters) => sc.is_full
       /\ sd.installed
       /\ Len(sd.logs) = sc.length + InFlight(i)
       /\ Len(sd.logs) <= Capacity
       /\ \A j \in 1 .. Len(sd.logs) : sd.logs[j].id = sc.first_log_id + j - 1
       /\ sd.logs # <<>> => sd.first_log_id = sc.first_log_id

(* A canister finds all its logs under their keys, in order.               *)
LogsIndexed ==
  \A c \in DOMAIN canisters, k \in Key :
    canisters[c].index[k] = IdsWithKey(canisters[c].logs, k)

(* No canister is created and paid for in vain: each is in the list once,  *)
(* or the one that waits to be installed.                                  *)
CanistersTracked ==
  LET listed  == {storage_canisters[i].canister_id : i \in 1 .. Len(storage_canisters)}
      waiting == {c \in Canister : c = temp_holder \/
                    (flush.pc \in {"create", "install"} /\ c = flush.canister)}
  IN /\ DOMAIN canisters = listed \cup waiting
     /\ listed \cap waiting = {}
     /\ Cardinality(listed) = Len(storage_canisters)
     /\ Cardinality(waiting) <= 1

(* The records of the contract, its canisters and their types together.    *)
StorageInv == TypeOK /\ RecordsMatchCanisters /\ LogsIndexed /\ CanistersTracked

(* Calls are answered, whatever the answer is.                             *)
Fairness == WF_vars(Callee) /\ WF_vars(Returns)
FairSpec == Spec /\ Fairness

(* The lock is always released again, on every path of the code through    *)
(* errors and early returns: neither flushes nor updates stop for good.    *)
LockReleased == storage_flush_lock ~> ~storage_flush_lock
=============================================================================
