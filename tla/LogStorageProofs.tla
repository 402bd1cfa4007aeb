-------------------------- MODULE LogStorageProofs --------------------------
(***************************************************************************)
(* The log storage implements StoredLog: through chunks, full canisters,   *)
(* failed calls and updates, what is found by id is one log that only      *)
(* grows.                                                                  *)
(*                                                                         *)
(* Every log can be read where its id says (Readable), and a step that     *)
(* moves logs from the buffer to a canister leaves what is read as it was  *)
(* (FoundStep).  That the chunk taken by a canister is the one drained     *)
(* from the buffer rests on the lock (LockInv): while a flush waits for    *)
(* its answer, logs are only appended and none is updated.                 *)
(***************************************************************************)
EXTENDS LogStorage, SequenceTheorems, FiniteSetTheorems, Sums, TLAPS

----------------------------------------------------------------------------
(* Chunks *)

LEMMA Division ==
  ASSUME NEW a \in Nat, NEW C \in Nat \ {0}
  PROVE  /\ a \div C \in Nat
         /\ C * (a \div C) <= a
         /\ a < C * (a \div C) + C
OBVIOUS

LEMMA DivisionNext ==
  ASSUME NEW a \in Nat, NEW C \in Nat \ {0}
  PROVE  (a + C) \div C = (a \div C) + 1
OBVIOUS

LEMMA Products ==
  ASSUME NEW a \in Int, NEW b \in Int, NEW C \in Nat
  PROVE  /\ a <= b => a * C <= b * C
         /\ (a + 1) * C = a * C + C
         /\ (a - 1) * C = a * C - C
         /\ a * C \in Int /\ a * C = C * a
OBVIOUS

(* The chunks of n logs are not empty, and after the first come those of   *)
(* the logs that are left.                                                 *)
LEMMA ChunksSplit ==
  ASSUME NEW n \in Nat \ {0}
  PROVE  /\ Chunks(n) \in Seq(Nat)
         /\ Len(Chunks(n)) >= 1
         /\ Chunks(n)[1] \in 1 .. n
         /\ Len(Chunks(n)) > 1 => /\ n - Chunks(n)[1] \in Nat \ {0}
                                  /\ Tail(Chunks(n)) = Chunks(n - Chunks(n)[1])
<1> DEFINE C == ChunkSize
           q == (n + C - 1) \div C
           chunk(i) == IF i * C <= n THEN C ELSE n - (i - 1) * C
<1>1. C \in Nat \ {0} /\ n + C - 1 \in Nat
  BY LogStorageAssumption
<1>2. Chunks(n) = [i \in 1 .. q |-> chunk(i)]
  BY DEF Chunks
<1> HIDE DEF C
<1>3. q \in Nat /\ C * q <= n + C - 1 /\ n + C - 1 < C * q + C
  BY <1>1, Division
<1> HIDE DEF q
<1>4. q >= 1
  BY <1>1, <1>3
<1>5. ASSUME NEW i \in 1 .. q PROVE chunk(i) \in Nat
  <2>1. (i - 1) * C <= (q - 1) * C
    BY <1>1, <1>3, Products
  <2>2. (q - 1) * C = C * q - C
    BY <1>1, <1>3, Products
  <2>3. /\ (i - 1) * C \in Int /\ i * C \in Int /\ C * q \in Int
    BY <1>1, <1>3, Products
  <2> QED
    BY <1>1, <1>3, <2>1, <2>2, <2>3
<1>6. chunk(1) \in 1 .. n
  BY <1>1
<1>7. /\ Chunks(n) \in Seq(Nat) /\ Len(Chunks(n)) = q
      /\ \A i \in 1 .. q : Chunks(n)[i] = chunk(i)
  <2> HIDE DEF chunk
  <2> QED
    BY <1>2, <1>3, <1>5
<1>8. ASSUME q > 1
      PROVE  n - C \in Nat \ {0} /\ chunk(1) = C /\ Tail(Chunks(n)) = Chunks(n - C)
  <2>1. n - C \in Nat \ {0}
    <3>1. 2 * C <= q * C /\ q * C = C * q
      BY <1>1, <1>3, <1>8, Products
    <3> QED
      BY <1>1, <1>3, <3>1
  <2>2. chunk(1) = C
    BY <1>1, <2>1
  <2> DEFINE r == (n - C + C - 1) \div C
             late(i) == IF i * C <= n - C THEN C ELSE n - C - (i - 1) * C
  <2>3. Chunks(n - C) = [i \in 1 .. r |-> late(i)]
    BY DEF Chunks, C
  <2>4. r + 1 = q
    <3>1. n - 1 \in Nat
      OBVIOUS
    <3>2. ((n - 1) + C) \div C = ((n - 1) \div C) + 1
      BY <1>1, <3>1, DivisionNext
    <3>3. (n - 1) + C = n + C - 1 /\ n - C + C - 1 = n - 1
      BY <1>1
    <3> QED
      BY <3>2, <3>3 DEF q
  <2>5. r = q - 1 /\ r \in Nat
    <3>1. r \in Nat
      BY <1>1, <2>1, Division
    <3> HIDE DEF r
    <3> QED
      BY <1>3, <1>4, <2>4, <3>1
  <2> HIDE DEF r
  <2>6. ASSUME NEW i \in 1 .. r PROVE chunk(i + 1) = late(i)
    <3>1. (i + 1) * C = i * C + C /\ i * C \in Int /\ (i - 1) * C = i * C - C
      BY <1>1, <2>5, Products
    <3>2. (i + 1) - 1 = i
      BY <2>5
    <3> QED
      BY <1>1, <3>1, <3>2
  <2>7. Len(Tail(Chunks(n))) = r /\ \A i \in 1 .. r : Tail(Chunks(n))[i] = chunk(i + 1)
    <3> HIDE DEF chunk
    <3> QED
      BY <1>7, <1>8, <2>5
  <2>8. Tail(Chunks(n)) = [i \in 1 .. r |-> late(i)]
    <3>1. Tail(Chunks(n)) \in Seq(Nat)
      BY <1>4, <1>7
    <3>2. \A i \in 1 .. r : late(i) \in Nat
      <4>1. \A i \in 1 .. r : i + 1 \in 1 .. q
        BY <1>3, <2>5
      <4> HIDE DEF chunk, late
      <4> QED
        BY <1>5, <2>6, <4>1
    <3> HIDE DEF chunk, late
    <3>3. [i \in 1 .. r |-> late(i)] \in Seq(Nat) /\ Len([i \in 1 .. r |-> late(i)]) = r
      BY <2>5, <3>2
    <3> QED
      BY <2>6, <2>7, <3>1, <3>3, SeqEqual
  <2> QED
    BY <2>1, <2>2, <2>3, <2>8
<1> QED
  <2> HIDE DEF chunk
  <2> QED
    BY <1>4, <1>6, <1>7, <1>8

----------------------------------------------------------------------------
(* The list of the storage canisters *)

End(sc) == sc.first_log_id + sc.length
Has(sc, id) == sc.first_log_id <= id /\ id < End(sc)

(* The canisters are different, and their ids do not overlap and leave     *)
(* nothing out.                                                            *)
Ordered(scs) ==
  /\ scs \in Seq(StorageCanisterData)
  /\ \A i, j \in 1 .. Len(scs) : i < j => /\ End(scs[i]) <= scs[j].first_log_id
                                          /\ scs[i].canister_id # scs[j].canister_id
  /\ \A id \in Nat : id < FirstUnflushed(scs) => \E i \in 1 .. Len(scs) : Has(scs[i], id)

LEMMA ListType ==
  ASSUME NEW scs \in Seq(StorageCanisterData), NEW i \in 1 .. Len(scs)
  PROVE  /\ scs[i].first_log_id \in Nat /\ scs[i].length \in Nat /\ End(scs[i]) \in Nat
         /\ scs[i].canister_id \in Canister /\ scs[i].is_full \in BOOLEAN
         /\ scs[i] \in StorageCanisterData
<1>1. scs[i] \in StorageCanisterData
  OBVIOUS
<1> QED
  BY <1>1 DEF StorageCanisterData, End

(* What is not flushed begins behind all canisters.                        *)
LEMMA UnflushedLast ==
  ASSUME NEW scs, Ordered(scs)
  PROVE  /\ FirstUnflushed(scs) \in Nat
         /\ \A i \in 1 .. Len(scs) : End(scs[i]) <= FirstUnflushed(scs)
         /\ scs # <<>> => Len(scs) \in 1 .. Len(scs) /\ FirstUnflushed(scs) = End(scs[Len(scs)])
<1>1. scs \in Seq(StorageCanisterData)
  BY DEF Ordered
<1>2. CASE scs = <<>>
  BY <1>2 DEF FirstUnflushed
<1>3. CASE scs # <<>>
  <2>1. Len(scs) \in 1 .. Len(scs)
    BY <1>1, <1>3
  <2>2. FirstUnflushed(scs) = End(scs[Len(scs)])
    BY <1>3 DEF FirstUnflushed, End
  <2>3. ASSUME NEW i \in 1 .. Len(scs) PROVE End(scs[i]) <= End(scs[Len(scs)])
    <3>1. CASE i = Len(scs)
      BY <1>1, <2>1, <3>1, ListType
    <3>2. CASE i < Len(scs)
      <4>1. End(scs[i]) <= scs[Len(scs)].first_log_id
        BY <2>1, <3>2 DEF Ordered
      <4>2. /\ scs[Len(scs)].first_log_id \in Nat /\ scs[Len(scs)].length \in Nat
            /\ End(scs[i]) \in Nat
        BY <1>1, <2>1, ListType
      <4> QED
        BY <4>1, <4>2 DEF End
    <3> QED
      BY <2>1, <3>1, <3>2
  <2> QED
    BY <1>1, <2>1, <2>2, <2>3, ListType
<1> QED
  BY <1>2, <1>3

(* A new canister takes the ids from there on.                             *)
LEMMA ListAppend ==
  ASSUME NEW scs, Ordered(scs), NEW sc \in StorageCanisterData,
         sc.first_log_id = FirstUnflushed(scs), sc.length = 0,
         \A i \in 1 .. Len(scs) : scs[i].canister_id # sc.canister_id,
         NEW scs2, scs2 = Append(scs, sc)
  PROVE  /\ Ordered(scs2) /\ FirstUnflushed(scs2) = FirstUnflushed(scs)
         /\ scs2 # <<>> /\ Len(scs2) = Len(scs) + 1
         /\ \A i \in 1 .. Len(scs) : scs2[i] = scs[i]
         /\ scs2[Len(scs2)] = sc
<1> DEFINE F == FirstUnflushed(scs)
<1>1. scs \in Seq(StorageCanisterData) /\ F \in Nat
  BY UnflushedLast DEF Ordered
<1>2. sc.first_log_id = F /\ End(sc) = F
  BY <1>1 DEF End
<1> HIDE DEF F
<1>4. /\ scs2 \in Seq(StorageCanisterData) /\ scs2 # <<>> /\ Len(scs2) = Len(scs) + 1
      /\ \A i \in 1 .. Len(scs) : scs2[i] = scs[i]
      /\ scs2[Len(scs2)] = sc /\ Len(scs) \in Nat
  BY <1>1
<1>5. FirstUnflushed(scs2) = F
  BY <1>1, <1>2, <1>4 DEF FirstUnflushed
<1>6. ASSUME NEW i \in 1 .. Len(scs2), NEW j \in 1 .. Len(scs2), i < j
      PROVE  End(scs2[i]) <= scs2[j].first_log_id /\ scs2[i].canister_id # scs2[j].canister_id
  <2>1. i \in 1 .. Len(scs) /\ scs2[i] = scs[i]
    BY <1>4, <1>6
  <2>2. CASE j \in 1 .. Len(scs)
    BY <1>4, <1>6, <2>1, <2>2 DEF Ordered
  <2>3. CASE j = Len(scs2)
    <3>1. End(scs[i]) <= F
      BY <2>1, UnflushedLast DEF F
    <3> QED
      BY <1>2, <1>4, <2>1, <2>3, <3>1
  <2> QED
    BY <1>4, <2>2, <2>3
<1>7. ASSUME NEW id \in Nat, id < F PROVE \E i \in 1 .. Len(scs2) : Has(scs2[i], id)
  <2>1. PICK i \in 1 .. Len(scs) : Has(scs[i], id)
    BY <1>7 DEF Ordered, F
  <2> QED
    BY <1>4, <2>1
<1> QED
  BY <1>4, <1>5, <1>6, <1>7 DEF Ordered, F

(* The last canister takes n more, or is full.                             *)
LEMMA ListGrow ==
  ASSUME NEW scs, Ordered(scs), scs # <<>>, NEW n \in Nat, NEW scs2 \in Seq(StorageCanisterData),
         Len(scs2) = Len(scs), \A i \in 1 .. Len(scs) : i # Len(scs) => scs2[i] = scs[i],
         LET sc == scs[Len(scs)]  sc2 == scs2[Len(scs)]
         IN /\ sc2.canister_id = sc.canister_id /\ sc2.first_log_id = sc.first_log_id
            /\ sc2.length = sc.length + n
  PROVE  Ordered(scs2) /\ scs2 # <<>> /\ FirstUnflushed(scs2) = FirstUnflushed(scs) + n
<1> DEFINE F == FirstUnflushed(scs)
           last == Len(scs)
<1>1. scs \in Seq(StorageCanisterData) /\ F \in Nat /\ last \in 1 .. last /\ F = End(scs[last])
  BY UnflushedLast DEF Ordered
<1>2. scs2 # <<>> /\ FirstUnflushed(scs2) = End(scs2[last])
  BY <1>1 DEF FirstUnflushed, End
<1>3. End(scs2[last]) = F + n
  <2>1. scs[last].first_log_id \in Nat /\ scs[last].length \in Nat
    BY <1>1, ListType
  <2> QED
    BY <1>1, <2>1 DEF End
<1> HIDE DEF F
<1>4. ASSUME NEW i \in 1 .. last, NEW j \in 1 .. last, i < j
      PROVE  End(scs2[i]) <= scs2[j].first_log_id /\ scs2[i].canister_id # scs2[j].canister_id
  <2>1. i # last /\ scs2[i] = scs[i]
    BY <1>1, <1>4
  <2>2. scs2[j].first_log_id = scs[j].first_log_id /\ scs2[j].canister_id = scs[j].canister_id
    OBVIOUS
  <2> QED
    BY <1>4, <2>1, <2>2 DEF Ordered
<1>5. ASSUME NEW id \in Nat, id < F + n PROVE \E i \in 1 .. last : Has(scs2[i], id)
  <2>1. CASE id < F
    <3>1. PICK i \in 1 .. last : Has(scs[i], id)
      BY <2>1 DEF Ordered, F
    <3>2. CASE i # last
      BY <3>1, <3>2
    <3>3. CASE i = last
      BY <1>1, <1>3, <1>5, <3>1, <3>3 DEF Has
    <3> QED
      BY <3>2, <3>3
  <2>2. CASE id >= F
    <3>1. scs[last].first_log_id <= F
      BY <1>1, ListType DEF End
    <3>2. scs[last].first_log_id \in Nat
      BY <1>1, ListType
    <3> QED
      BY <1>1, <1>3, <1>5, <2>2, <3>1, <3>2 DEF Has
  <2> QED
    BY <1>1, <2>1, <2>2
<1> QED
  BY <1>1, <1>2, <1>3, <1>4, <1>5 DEF Ordered, F

----------------------------------------------------------------------------
(* Where a log is *)

(* CanisterOf and LogAt of any buffer, list and canisters.                 *)
Where(scs, id) ==
  LET S == {i \in 1 .. Len(scs) :
              LET sc == scs[i]
              IN sc.first_log_id <= id /\ id < sc.first_log_id + sc.length}
  IN IF S = {} THEN None
     ELSE scs[CHOOSE i \in S : \A j \in S : i <= j].canister_id

Found(buffer, scs, cans, id) ==
  IF Where(scs, id) = None
  THEN At(buffer, id - FirstUnflushed(scs) + 1)
  ELSE LET sd == cans[Where(scs, id)] IN At(sd.logs, id - sd.first_log_id + 1)

LEMMA FoundLogAt ==
  ASSUME NEW id
  PROVE  /\ CanisterOf(id) = Where(storage_canisters, id)
         /\ LogAt(id) = Found(storage_buffer, storage_canisters, canisters, id)
         /\ LogAt(id)' = Found(storage_buffer', storage_canisters', canisters', id)
BY DEF CanisterOf, Where, LogAt, Found

(* An installed canister that has the logs that the contract knows of, and *)
(* perhaps more.                                                           *)
StorageShape(sd) ==
  /\ sd = [installed |-> sd.installed, first_log_id |-> sd.first_log_id, logs |-> sd.logs,
           index |-> sd.index, mark_full |-> sd.mark_full]
  /\ sd.logs \in Seq(Log) /\ sd.first_log_id \in Nat

Stores(sc, sd) ==
  /\ StorageShape(sd) /\ sd.installed
  /\ Len(sd.logs) >= sc.length
  /\ sd.logs # <<>> => sd.first_log_id = sc.first_log_id
  /\ \A j \in 1 .. Len(sd.logs) : sd.logs[j].id = sc.first_log_id + j - 1

Buffers(buffer, first) ==
  /\ buffer \in Seq(Log)
  /\ \A i \in 1 .. Len(buffer) : buffer[i].id = first + i - 1

Readable(buffer, scs, cans) ==
  /\ Ordered(scs)
  /\ \A i \in 1 .. Len(scs) : Stores(scs[i], cans[scs[i].canister_id])
  /\ Buffers(buffer, FirstUnflushed(scs))

LEMMA Places ==
  ASSUME NEW scs, Ordered(scs), NEW id \in Nat
  PROVE  /\ \A i \in 1 .. Len(scs) : Has(scs[i], id) => Where(scs, id) = scs[i].canister_id
         /\ id >= FirstUnflushed(scs) => Where(scs, id) = None
         /\ id < FirstUnflushed(scs) => /\ \E i \in 1 .. Len(scs) : Has(scs[i], id)
                                        /\ Where(scs, id) # None
<1> DEFINE S == {i \in 1 .. Len(scs) : Has(scs[i], id)}
<1>1. Where(scs, id) = IF S = {} THEN None
                       ELSE scs[CHOOSE i \in S : \A j \in S : i <= j].canister_id
  BY DEF Where, Has, End
<1>2. scs \in Seq(StorageCanisterData)
  BY DEF Ordered
<1>3. ASSUME NEW i \in S, NEW j \in S PROVE i = j
  <2>1. ASSUME NEW m \in S, NEW n \in S, m < n PROVE FALSE
    <3>1. End(scs[m]) <= scs[n].first_log_id
      BY <2>1 DEF Ordered
    <3>2. End(scs[m]) \in Nat /\ scs[n].first_log_id \in Nat
      BY <1>2, ListType
    <3> QED
      BY <3>1, <3>2 DEF Has
  <2>2. i \in 1 .. Len(scs) /\ j \in 1 .. Len(scs) /\ Len(scs) \in Nat
    BY <1>2
  <2> HIDE DEF S
  <2> QED
    BY <2>1, <2>2
<1>4. \A i \in S : i \in 1 .. Len(scs) /\ i <= i
  BY <1>2
<1>5. ASSUME NEW i \in S PROVE Where(scs, id) = scs[i].canister_id
  <2>1. (CHOOSE m \in S : \A j \in S : m <= j) = i
    <3> HIDE DEF S
    <3> QED
      BY <1>3, <1>4
  <2> HIDE DEF S
  <2> QED
    BY <1>1, <2>1
<1>6. ASSUME id >= FirstUnflushed(scs) PROVE S = {}
  <2>1. ASSUME NEW i \in S PROVE FALSE
    <3>1. End(scs[i]) <= FirstUnflushed(scs) /\ FirstUnflushed(scs) \in Nat
      BY UnflushedLast
    <3>2. End(scs[i]) \in Nat
      BY <1>2, ListType
    <3> QED
      BY <1>6, <3>1, <3>2 DEF Has
  <2> QED
    BY <2>1
<1>7. ASSUME id < FirstUnflushed(scs)
      PROVE  (\E i \in 1 .. Len(scs) : Has(scs[i], id)) /\ Where(scs, id) # None
  <2>1. PICK i \in 1 .. Len(scs) : Has(scs[i], id)
    BY <1>7 DEF Ordered
  <2>2. Where(scs, id) = scs[i].canister_id /\ scs[i].canister_id \in Canister
    BY <1>2, <1>5, <2>1, ListType
  <2> QED
    BY <2>1, <2>2, LogStorageAssumption
<1> QED
  BY <1>1, <1>5, <1>6, <1>7

(* A log is found where its id says.                                       *)
LEMMA FoundIs ==
  ASSUME NEW buffer, NEW scs, NEW cans, Readable(buffer, scs, cans), NEW id \in Nat
  PROVE  /\ \A i \in 1 .. Len(scs) : Has(scs[i], id) =>
              LET n == id - scs[i].first_log_id + 1
              IN /\ n \in 1 .. Len(cans[scs[i].canister_id].logs)
                 /\ Found(buffer, scs, cans, id) = cans[scs[i].canister_id].logs[n]
         /\ LET n == id - FirstUnflushed(scs) + 1
            IN n \in 1 .. Len(buffer) => Found(buffer, scs, cans, id) = buffer[n]
<1>1. ASSUME NEW i \in 1 .. Len(scs), Has(scs[i], id)
      PROVE  LET n == id - scs[i].first_log_id + 1
             IN /\ n \in 1 .. Len(cans[scs[i].canister_id].logs)
                /\ Found(buffer, scs, cans, id) = cans[scs[i].canister_id].logs[n]
  <2> DEFINE sd == cans[scs[i].canister_id]
             n  == id - scs[i].first_log_id + 1
  <2>1. Where(scs, id) = scs[i].canister_id /\ Where(scs, id) # None
    BY <1>1, Places, ListType, LogStorageAssumption DEF Readable, Ordered
  <2>2. Stores(scs[i], sd)
    BY DEF Readable
  <2>3. scs[i].first_log_id \in Nat /\ scs[i].length \in Nat
    BY ListType DEF Readable, Ordered
  <2> HIDE DEF sd
  <2>4. n \in 1 .. Len(sd.logs)
    BY <1>1, <2>2, <2>3 DEF Stores, StorageShape, Has, End
  <2>5. sd.first_log_id = scs[i].first_log_id
    BY <2>2, <2>4 DEF Stores
  <2>6. Found(buffer, scs, cans, id) = At(sd.logs, n)
    BY <2>1, <2>5 DEF Found, sd
  <2> QED
    BY <2>4, <2>6 DEF At, sd
<1>2. ASSUME id - FirstUnflushed(scs) + 1 \in 1 .. Len(buffer)
      PROVE  Found(buffer, scs, cans, id) = buffer[id - FirstUnflushed(scs) + 1]
  <2>1. FirstUnflushed(scs) \in Nat
    BY UnflushedLast DEF Readable
  <2>2. Where(scs, id) = None
    BY <1>2, <2>1, Places DEF Readable
  <2> QED
    BY <1>2, <2>2 DEF Found, At
<1> QED
  BY <1>1, <1>2

(* It is a log with that id.                                               *)
LEMMA FoundLog ==
  ASSUME NEW buffer, NEW scs, NEW cans, Readable(buffer, scs, cans),
         NEW id \in Nat, id < FirstUnflushed(scs) + Len(buffer)
  PROVE  Found(buffer, scs, cans, id) \in Log /\ Found(buffer, scs, cans, id).id = id
<1>1. FirstUnflushed(scs) \in Nat
  BY UnflushedLast DEF Readable
<1>2. CASE id < FirstUnflushed(scs)
  <2>1. PICK i \in 1 .. Len(scs) : Has(scs[i], id)
    BY <1>2, Places DEF Readable
  <2> DEFINE sd == cans[scs[i].canister_id]
             n  == id - scs[i].first_log_id + 1
  <2>2. n \in 1 .. Len(sd.logs) /\ Found(buffer, scs, cans, id) = sd.logs[n]
    BY <2>1, FoundIs
  <2>3. Stores(scs[i], sd) /\ scs[i].first_log_id \in Nat
    BY ListType DEF Readable, Ordered
  <2> HIDE DEF sd
  <2> QED
    BY <2>2, <2>3, SMTT(30) DEF Stores, StorageShape
<1>3. CASE id >= FirstUnflushed(scs)
  <2> DEFINE n == id - FirstUnflushed(scs) + 1
  <2>1. n \in 1 .. Len(buffer)
    <3>1. Len(buffer) \in Nat
      BY DEF Readable, Buffers
    <3> QED
      BY <1>1, <1>3, <3>1
  <2>2. Found(buffer, scs, cans, id) = buffer[n]
    BY <2>1, FoundIs
  <2> QED
    BY <1>1, <2>1, <2>2 DEF Readable, Buffers
<1> QED
  BY <1>1, <1>2, <1>3

(* The log after a step that makes some logs final.                        *)
Marked(log, ids) == [log EXCEPT !.final = @ \/ log.id \in ids]

LEMMA MarkedLog ==
  ASSUME NEW log \in Log, NEW ids
  PROVE  /\ Marked(log, ids) \in Log /\ Marked(log, ids).id = log.id
         /\ Marked(log, ids).key = log.key
         /\ Marked(log, ids).final <=> (log.final \/ log.id \in ids)
         /\ log.id \notin ids => Marked(log, ids) = log
BY DEF Marked, Log

(* A step leaves every log where it is on its canister.                    *)
StoredStay(scs, cans, scs2, cans2, ids) ==
  \A i \in 1 .. Len(scs), id \in Nat : Has(scs[i], id) =>
    LET n == id - scs[i].first_log_id + 1
    IN /\ i \in 1 .. Len(scs2) /\ Has(scs2[i], id)
       /\ scs2[i].canister_id = scs[i].canister_id
       /\ scs2[i].first_log_id = scs[i].first_log_id
       /\ cans2[scs[i].canister_id].logs[n] = Marked(cans[scs[i].canister_id].logs[n], ids)

(* It leaves the logs of the buffer there or moves them to a canister.     *)
BufferedStay(buffer, scs, buffer2, scs2, cans2, ids) ==
  \A id \in Nat : (id >= FirstUnflushed(scs) /\ id < FirstUnflushed(scs) + Len(buffer)) =>
    LET log == Marked(buffer[id - FirstUnflushed(scs) + 1], ids)
    IN \/ /\ id >= FirstUnflushed(scs2)
          /\ buffer2[id - FirstUnflushed(scs2) + 1] = log
       \/ \E i \in 1 .. Len(scs2) :
            /\ Has(scs2[i], id)
            /\ cans2[scs2[i].canister_id].logs[id - scs2[i].first_log_id + 1] = log

(* Then the same logs are found as before, those with the ids made final.  *)
LEMMA FoundStep ==
  ASSUME NEW buffer, NEW scs, NEW cans, Readable(buffer, scs, cans),
         NEW buffer2, NEW scs2, NEW cans2, Readable(buffer2, scs2, cans2), NEW ids,
         FirstUnflushed(scs2) + Len(buffer2) >= FirstUnflushed(scs) + Len(buffer),
         StoredStay(scs, cans, scs2, cans2, ids),
         BufferedStay(buffer, scs, buffer2, scs2, cans2, ids)
  PROVE  \A id \in Nat : id < FirstUnflushed(scs) + Len(buffer) =>
           Found(buffer2, scs2, cans2, id) = Marked(Found(buffer, scs, cans, id), ids)
<1> DEFINE F  == FirstUnflushed(scs)
           F2 == FirstUnflushed(scs2)
<1>1. /\ F \in Nat /\ F2 \in Nat /\ Len(buffer) \in Nat /\ Len(buffer2) \in Nat
      /\ Ordered(scs) /\ F2 + Len(buffer2) >= F + Len(buffer)
  BY UnflushedLast DEF Readable, Buffers
<1> SUFFICES ASSUME NEW id \in Nat, id < F + Len(buffer)
             PROVE  Found(buffer2, scs2, cans2, id) = Marked(Found(buffer, scs, cans, id), ids)
  OBVIOUS
<1>2. CASE id < F
  <2>1. PICK i \in 1 .. Len(scs) : Has(scs[i], id)
    BY <1>1, <1>2, Places
  <2> DEFINE n == id - scs[i].first_log_id + 1
             c == scs[i].canister_id
  <2>2. Found(buffer, scs, cans, id) = cans[c].logs[n]
    BY <2>1, FoundIs
  <2>3. /\ i \in 1 .. Len(scs2) /\ Has(scs2[i], id) /\ scs2[i].canister_id = c
        /\ scs2[i].first_log_id = scs[i].first_log_id
        /\ cans2[c].logs[n] = Marked(cans[c].logs[n], ids)
    BY <2>1 DEF StoredStay
  <2>4. Found(buffer2, scs2, cans2, id) = cans2[c].logs[n]
    BY <2>3, FoundIs
  <2> QED
    BY <2>2, <2>3, <2>4
<1>3. CASE id >= F
  <2> DEFINE log == Marked(buffer[id - F + 1], ids)
  <2>1. Found(buffer, scs, cans, id) = buffer[id - F + 1]
    <3>1. id - F + 1 \in 1 .. Len(buffer)
      BY <1>1, <1>3
    <3> QED
      BY <3>1, FoundIs
  <2>2. CASE id >= F2 /\ buffer2[id - F2 + 1] = log
    <3>1. id - F2 + 1 \in 1 .. Len(buffer2)
      BY <1>1, <2>2
    <3> QED
      BY <2>1, <2>2, <3>1, FoundIs
  <2>3. CASE \E i \in 1 .. Len(scs2) :
               /\ Has(scs2[i], id)
               /\ cans2[scs2[i].canister_id].logs[id - scs2[i].first_log_id + 1] = log
    BY <2>1, <2>3, FoundIs
  <2> QED
    BY <1>3, <2>2, <2>3 DEF BufferedStay
<1> QED
  BY <1>1, <1>2, <1>3

----------------------------------------------------------------------------
(* The invariant *)

StoreInv ==
  /\ Readable(storage_buffer, storage_canisters, canisters)
  /\ log_count \in Nat
  /\ FirstUnflushed(storage_canisters) + Len(storage_buffer) = log_count
  /\ \A i \in 1 .. Len(storage_canisters) :
       LET sc == storage_canisters[i]
           sd == canisters[sc.canister_id]
       IN /\ Len(sd.logs) = sc.length + InFlight(i)
          /\ Len(sd.logs) <= Capacity
          /\ i < Len(storage_canisters) => sc.is_full

(* Each canister there is is on the list, or waits to be installed and has *)
(* nothing yet.                                                            *)
Listed  == {storage_canisters[i].canister_id : i \in 1 .. Len(storage_canisters)}
Waiting == {c \in Canister : \/ c = temp_holder
                             \/ flush.pc \in {"create", "install"} /\ c = flush.canister}

TrackInv ==
  /\ canisters = [c \in DOMAIN canisters |-> canisters[c]]
  /\ DOMAIN canisters = Listed \cup Waiting
  /\ Listed \cap Waiting = {}
  /\ \A c, d \in Waiting : c = d
  /\ \A c \in Waiting : StorageShape(canisters[c]) /\ canisters[c].logs = <<>>

(* What a flush in progress knows, and what it sends.                      *)
FlushInv ==
  /\ flush \in FlushType
  /\ temp_holder \in Canister \cup {None}
  /\ flush.pc = "idle" => flush = NoFlush
  /\ flush.pc \in {"create", "install"} =>
       /\ flush.answer # "full" /\ temp_holder = None /\ storage_buffer # <<>>
       /\ storage_canisters # <<>> => LastCanister.is_full
  /\ flush.pc = "create" => (flush.canister # None <=> flush.answer = "ok")
  /\ flush.pc = "install" => /\ flush.canister # None
                             /\ flush.answer = "ok" => canisters[flush.canister].installed
  /\ flush.pc = "flush" =>
       /\ storage_canisters # <<>> /\ flush.canister = LastCanister.canister_id
       /\ \E n \in 1 .. Len(storage_buffer) : flush.chunks = Chunks(n)
       /\ flush.bytes = SubSeq(storage_buffer, 1, flush.chunks[1])
       /\ flush.answer = "ok" => \A j \in 1 .. Len(flush.bytes) :
            canisters[flush.canister].logs[LastCanister.length + j] = flush.bytes[j]

(* The lock is held for a flush or for updates.                            *)
UpdateStatus == {"sent", "stored", "failed", "ok", "err"}
LockInv ==
  /\ storage_flush_lock \in BOOLEAN
  /\ storage_flush_lock <=> flush.pc # "idle" \/ DOMAIN updates # {}
  /\ flush.pc = "idle" \/ DOMAIN updates = {}
  /\ updates \in [DOMAIN updates -> UpdateStatus]
  /\ \A id \in DOMAIN updates : id \in Nat /\ id < log_count
  /\ \A id \in DOMAIN updates : updates[id] = "sent" => id < FirstUnflushed(storage_canisters)

StorageOK == StoreInv /\ TrackInv /\ FlushInv /\ LockInv

(* A log that the contract believes final, or is about to, is final.       *)
FinalInv ==
  /\ \A id \in updated : id \in Nat /\ id < log_count /\ LogAt(id).final
  /\ \A id \in DOMAIN updates : updates[id] \in {"stored", "ok"} => LogAt(id).final

IInv == StorageOK /\ FinalInv

(* What a step does to the logs that can be found. *)
LogsMarked(ids) == \A id \in Nat : id < log_count => LogAt(id)' = Marked(LogAt(id), ids)

LEMMA LogAtLog ==
  ASSUME StoreInv, NEW id \in Nat, id < log_count
  PROVE  LogAt(id) \in Log /\ LogAt(id).id = id
BY FoundLogAt, FoundLog DEF StoreInv

LEMMA InitOK == Init => IInv
<1> SUFFICES ASSUME Init PROVE IInv
  OBVIOUS
<1> USE DEF Init
<1>1. StoreInv
  <2>1. Ordered(<<>>) /\ FirstUnflushed(<<>>) = 0
    BY DEF Ordered, FirstUnflushed
  <2>2. Buffers(<<>>, 0)
    BY DEF Buffers
  <2> QED
    BY <2>1, <2>2 DEF StoreInv, Readable
<1>2. TrackInv
  <2>1. DOMAIN canisters = {} /\ Listed = {} /\ Waiting = {}
    BY LogStorageAssumption DEF Listed, Waiting, NoFlush
  <2> QED
    BY <2>1 DEF TrackInv
<1>3. FlushInv
  <2>1. NoFlush \in FlushType
    BY DEF NoFlush, FlushType
  <2> QED
    BY <2>1 DEF FlushInv, NoFlush
<1>4. LockInv
  BY DEF LockInv, NoFlush, NoUpdates
<1>5. FinalInv
  BY DEF FinalInv, NoUpdates
<1> QED
  BY <1>1, <1>2, <1>3, <1>4, <1>5 DEF IInv, StorageOK

(* A step that leaves the list, the buffer and what the canisters on the   *)
(* list keep.                                                              *)
LEMMA QuietStores ==
  ASSUME StoreInv, UNCHANGED <<storage_canisters, storage_buffer, log_count>>,
         \A c \in Listed : /\ StorageShape(canisters'[c]) /\ canisters'[c].installed
                           /\ canisters'[c].logs = canisters[c].logs
                           /\ canisters'[c].first_log_id = canisters[c].first_log_id,
         \A i \in 1 .. Len(storage_canisters) : InFlight(i)' = InFlight(i)
  PROVE  StoreInv' /\ LogsMarked({})
<1> DEFINE scs == storage_canisters
<1>1. /\ Ordered(scs) /\ Buffers(storage_buffer, FirstUnflushed(scs))
      /\ Readable(storage_buffer, scs, canisters)
      /\ FirstUnflushed(scs) + Len(storage_buffer) = log_count /\ log_count \in Nat
  BY DEF StoreInv, Readable
<1>2. ASSUME NEW i \in 1 .. Len(scs)
      PROVE  /\ Stores(scs[i], canisters'[scs[i].canister_id])
             /\ canisters'[scs[i].canister_id].logs = canisters[scs[i].canister_id].logs
  <2>1. scs[i].canister_id \in Listed
    BY DEF Listed
  <2>2. Stores(scs[i], canisters[scs[i].canister_id])
    BY DEF StoreInv, Readable
  <2> QED
    BY <2>1, <2>2 DEF Stores
<1>3. Readable(storage_buffer, scs, canisters')
  BY <1>1, <1>2 DEF Readable
<1>4. StoreInv'
  BY <1>1, <1>2, <1>3 DEF StoreInv
<1>5. ASSUME NEW id \in Nat, id < log_count PROVE LogAt(id)' = LogAt(id)
  <2>1. CASE id < FirstUnflushed(scs)
    <3>1. PICK i \in 1 .. Len(scs) : Has(scs[i], id)
      BY <1>1, <2>1, Places
    <3> DEFINE n == id - scs[i].first_log_id + 1
               c == scs[i].canister_id
    <3>2. Found(storage_buffer, scs, canisters, id) = canisters[c].logs[n]
      BY <1>1, <3>1, FoundIs
    <3>3. Found(storage_buffer, scs, canisters', id) = canisters'[c].logs[n]
      BY <1>3, <3>1, FoundIs
    <3> QED
      BY <1>2, <3>2, <3>3, FoundLogAt
  <2>2. CASE id >= FirstUnflushed(scs)
    <3>1. id - FirstUnflushed(scs) + 1 \in 1 .. Len(storage_buffer)
      BY <1>1, <1>5, <2>2, UnflushedLast DEF Buffers
    <3> QED
      BY <1>1, <1>3, <3>1, FoundIs, FoundLogAt
  <2> QED
    BY <1>1, <2>1, <2>2, UnflushedLast
<1>6. LogsMarked({})
  BY <1>5, LogAtLog, MarkedLog DEF LogsMarked
<1> QED
  BY <1>4, <1>6

(* As only updates and flushes touch the logs.                             *)
LEMMA SameStores ==
  ASSUME StoreInv, UNCHANGED <<storage_canisters, storage_buffer, log_count, canisters>>,
         flush.pc = "flush" /\ flush.answer = "ok" => UNCHANGED flush,
         flush'.pc = "flush" /\ flush'.answer = "ok" => UNCHANGED flush
  PROVE  StoreInv' /\ LogsMarked({})
<1>1. \A i \in 1 .. Len(storage_canisters) : InFlight(i)' = InFlight(i)
  BY DEF InFlight
<1>2. ASSUME NEW c \in Listed PROVE StorageShape(canisters[c]) /\ canisters[c].installed
  BY DEF Listed, StoreInv, Readable, Stores
<1> QED
  BY <1>1, <1>2, QuietStores

(* The chunk that is sent is at the head of the buffer.                    *)
LEMMA SentChunk ==
  ASSUME StoreInv, FlushInv, flush.pc = "flush"
  PROVE  /\ storage_canisters # <<>> /\ LastCanister \in StorageCanisterData
         /\ flush.canister = LastCanister.canister_id /\ flush.canister \in Listed
         /\ flush.chunks \in Seq(Nat) /\ Len(flush.chunks) >= 1
         /\ flush.chunks[1] \in 1 .. Len(storage_buffer)
         /\ flush.bytes \in Seq(Log) /\ Len(flush.bytes) = flush.chunks[1]
         /\ \A j \in 1 .. flush.chunks[1] : flush.bytes[j] = storage_buffer[j]
<1>1. PICK n \in 1 .. Len(storage_buffer) : flush.chunks = Chunks(n)
  BY DEF FlushInv
<1>2. storage_buffer \in Seq(Log) /\ Len(storage_buffer) \in Nat /\ n \in Nat \ {0}
  BY DEF StoreInv, Readable, Buffers
<1>3. /\ flush.chunks \in Seq(Nat) /\ Len(flush.chunks) >= 1
      /\ flush.chunks[1] \in 1 .. n
  BY <1>1, <1>2, ChunksSplit
<1>4. flush.chunks[1] \in 1 .. Len(storage_buffer)
  BY <1>2, <1>3
<1>5. flush.bytes = SubSeq(storage_buffer, 1, flush.chunks[1])
  BY DEF FlushInv
<1>6. /\ flush.bytes \in Seq(Log) /\ Len(flush.bytes) = flush.chunks[1]
      /\ \A j \in 1 .. flush.chunks[1] : flush.bytes[j] = storage_buffer[j]
  BY <1>2, <1>4, <1>5, SubSeqProperties
<1>7. /\ storage_canisters # <<>> /\ Len(storage_canisters) \in 1 .. Len(storage_canisters)
      /\ storage_canisters \in Seq(StorageCanisterData)
  BY UnflushedLast DEF FlushInv, StoreInv, Readable, Ordered
<1> QED
  BY <1>3, <1>4, <1>6, <1>7 DEF FlushInv, LastCanister, Listed

LEMMA AppendLogOK ==
  ASSUME StorageOK, NEW k \in Key, AppendLog(k)
  PROVE  /\ StorageOK' /\ LogsMarked({})
         /\ \A id \in Nat : id = log_count => LogAt(id)' = NewLog(id, k)
<1> DEFINE scs == storage_canisters
           F   == FirstUnflushed(scs)
           log == NewLog(log_count, k)
           n   == Len(storage_buffer)
<1>1. /\ storage_buffer' = Append(storage_buffer, log) /\ log_count' = log_count + 1
      /\ UNCHANGED <<storage_flush_lock, storage_canisters, temp_holder, canisters, flush,
                     updates, updated>>
  BY DEF AppendLog
<1>2. /\ Ordered(scs) /\ Buffers(storage_buffer, F) /\ Readable(storage_buffer, scs, canisters)
      /\ F + n = log_count /\ log_count \in Nat /\ F \in Nat /\ n \in Nat
  BY UnflushedLast DEF StorageOK, StoreInv, Readable, Buffers
<1>3. log \in Log /\ log.id = log_count
  BY <1>2 DEF NewLog, Log
<1>4. /\ storage_buffer' \in Seq(Log) /\ Len(storage_buffer') = n + 1
      /\ \A i \in 1 .. n : storage_buffer'[i] = storage_buffer[i]
      /\ storage_buffer'[n + 1] = log
  <2> HIDE DEF log
  <2> QED
    BY <1>1, <1>2, <1>3, AppendProperties DEF Buffers
<1> HIDE DEF log, F
<1>5. Readable(storage_buffer', scs, canisters)
  <2>1. \A i \in 1 .. n + 1 : storage_buffer'[i].id = F + i - 1
    <3>1. ASSUME NEW i \in 1 .. n PROVE storage_buffer'[i].id = F + i - 1
      BY <1>2, <1>4 DEF Buffers
    <3>2. storage_buffer'[n + 1].id = F + (n + 1) - 1
      BY <1>2, <1>3, <1>4
    <3>3. \A i \in 1 .. n + 1 : i \in 1 .. n \/ i = n + 1
      BY <1>2
    <3> QED
      BY <3>1, <3>2, <3>3
  <2> QED
    BY <1>2, <1>4, <2>1 DEF Readable, Buffers, F
<1>6. StoreInv'
  <2>1. \A i \in 1 .. Len(scs) : InFlight(i)' = InFlight(i)
    BY <1>1 DEF InFlight
  <2> QED
    BY <1>1, <1>2, <1>4, <1>5, <2>1 DEF StorageOK, StoreInv, F
<1>7. TrackInv'
  BY <1>1 DEF StorageOK, TrackInv, Listed, Waiting
<1>8. FlushInv'
  <2>1. storage_buffer' # <<>>
    BY <1>2, <1>4
  <2>2. LastCanister' = LastCanister
    BY <1>1 DEF LastCanister
  <2>3. ASSUME flush.pc = "flush"
        PROVE  /\ \E m \in 1 .. Len(storage_buffer') : flush.chunks = Chunks(m)
               /\ flush.bytes = SubSeq(storage_buffer', 1, flush.chunks[1])
    <3>1. PICK m \in 1 .. n : flush.chunks = Chunks(m)
      BY <2>3 DEF StorageOK, FlushInv
    <3>2. m \in 1 .. Len(storage_buffer')
      BY <1>2, <1>4
    <3>3. flush.bytes = SubSeq(storage_buffer', 1, flush.chunks[1])
      <4> DEFINE c == flush.chunks[1]
                 new == SubSeq(storage_buffer', 1, c)
      <4>1. /\ c \in 1 .. n /\ flush.bytes \in Seq(Log) /\ Len(flush.bytes) = c
            /\ \A j \in 1 .. c : flush.bytes[j] = storage_buffer[j]
        BY <2>3, SentChunk DEF StorageOK
      <4> HIDE DEF c
      <4>2. \A j \in 1 .. c : storage_buffer'[j] \in Log /\ storage_buffer'[j] = storage_buffer[j]
        BY <1>2, <1>4, <4>1
      <4>3. new \in Seq(Log) /\ Len(new) = c /\ \A j \in 1 .. c : new[j] = storage_buffer[j]
        BY <1>2, <4>1, <4>2, SubSeqProperties
      <4> HIDE DEF new
      <4>4. flush.bytes = new
        BY <4>1, <4>3, SeqEqual
      <4> QED
        BY <4>4 DEF new, c
    <3> QED
      BY <3>1, <3>2, <3>3
  <2> QED
    BY <1>1, <2>1, <2>2, <2>3 DEF StorageOK, FlushInv
<1>9. LockInv'
  BY <1>1, <1>2 DEF StorageOK, LockInv
<1>10. LogsMarked({})
  <2>1. ASSUME NEW id \in Nat, id < log_count PROVE LogAt(id)' = LogAt(id)
    <3>1. CASE id < F
      <4>1. PICK i \in 1 .. Len(scs) : Has(scs[i], id)
        BY <1>2, <3>1, Places DEF F
      <4> DEFINE logs == canisters[scs[i].canister_id].logs
                 m == id - scs[i].first_log_id + 1
      <4>2. Found(storage_buffer, scs, canisters, id) = logs[m]
        BY <1>2, <4>1, FoundIs
      <4>3. Found(storage_buffer', scs, canisters, id) = logs[m]
        BY <1>5, <4>1, FoundIs
      <4> QED
        BY <1>1, <4>2, <4>3, FoundLogAt
    <3>2. CASE id >= F
      <4> DEFINE m == id - F + 1
      <4>1. m \in 1 .. n /\ m \in 1 .. Len(storage_buffer')
        BY <1>2, <1>4, <2>1, <3>2
      <4>2. Found(storage_buffer, scs, canisters, id) = storage_buffer[m]
        BY <1>2, <4>1, FoundIs DEF F
      <4>3. Found(storage_buffer', scs, canisters, id) = storage_buffer'[m]
        BY <1>5, <4>1, FoundIs DEF F
      <4> QED
        BY <1>1, <1>4, <4>1, <4>2, <4>3, FoundLogAt
    <3> QED
      BY <1>2, <3>1, <3>2
  <2> QED
    BY <2>1, LogAtLog, MarkedLog DEF LogsMarked, StorageOK
<1>11. ASSUME NEW id \in Nat, id = log_count PROVE LogAt(id)' = log
  <2>1. id - F + 1 = n + 1 /\ n + 1 \in 1 .. Len(storage_buffer')
    BY <1>2, <1>4, <1>11
  <2>2. Found(storage_buffer', scs, canisters, id) = storage_buffer'[n + 1]
    BY <1>5, <2>1, FoundIs DEF F
  <2> QED
    BY <1>1, <1>4, <2>2, FoundLogAt
<1> QED
  BY <1>6, <1>7, <1>8, <1>9, <1>10, <1>11 DEF StorageOK, log

(* The steps of a flush up to its first chunk                              *)

LEMMA FlushTypes ==
  ASSUME StorageOK
  PROVE  /\ flush = [pc |-> flush.pc, canister |-> flush.canister, chunks |-> flush.chunks,
                     bytes |-> flush.bytes, answer |-> flush.answer]
         /\ flush.pc \in {"idle", "create", "install", "flush"}
         /\ flush.answer \in {"none", "ok", "full", "err"}
         /\ flush.canister \in Canister \cup {None}
         /\ flush.chunks \in Seq(Nat) /\ flush.bytes \in Seq(Log)
         /\ storage_buffer \in Seq(Log)
         /\ storage_canisters \in Seq(StorageCanisterData)
BY DEF StorageOK, FlushInv, FlushType, StoreInv, Readable, Buffers, Ordered

LEMMA SendFirstChunk ==
  ASSUME NEW buffer \in Seq(Log), buffer # <<>>, NEW c \in Canister, NEW fl,
         fl = SendChunk(c, Chunks(Len(buffer)), buffer)
  PROVE  /\ fl \in FlushType /\ fl.pc = "flush" /\ fl.canister = c /\ fl.answer = "none"
         /\ \E n \in 1 .. Len(buffer) : fl.chunks = Chunks(n)
         /\ fl.bytes = SubSeq(buffer, 1, fl.chunks[1])
<1>1. Len(buffer) \in Nat \ {0} /\ Len(buffer) \in 1 .. Len(buffer)
  OBVIOUS
<1>2. Chunks(Len(buffer)) \in Seq(Nat) /\ Chunks(Len(buffer))[1] \in 1 .. Len(buffer)
  BY <1>1, ChunksSplit
<1>3. SubSeq(buffer, 1, Chunks(Len(buffer))[1]) \in Seq(Log)
  BY <1>1, <1>2, SubSeqProperties
<1> QED
  BY <1>1, <1>2, <1>3 DEF SendChunk, FlushType

LEMMA QuietTrack ==
  ASSUME TrackInv, Listed' = Listed, Waiting' = Waiting, UNCHANGED canisters
  PROVE  TrackInv'
BY DEF TrackInv

LEMMA FlushLogsOK ==
  ASSUME StorageOK, FlushLogs
  PROVE  StorageOK' /\ LogsMarked({})
<1>1. flush.pc = "idle" /\ DOMAIN updates = {} /\ flush = NoFlush
  BY DEF FlushLogs, StorageOK, LockInv, FlushInv
<1>2. storage_buffer # <<>>
  BY FlushTypes, LogStorageAssumption DEF FlushLogs
<1>3. /\ storage_flush_lock' = TRUE
      /\ UNCHANGED <<storage_buffer, storage_canisters, canisters, updates, updated, log_count>>
  BY DEF FlushLogs, boundVars
<1>4. CASE storage_canisters # <<>> /\ ~LastCanister.is_full
  <2>1. /\ flush' = SendChunk(LastCanister.canister_id, Chunks(Len(storage_buffer)), storage_buffer)
        /\ temp_holder' = temp_holder
    BY <1>4 DEF FlushLogs
  <2>2. LastCanister.canister_id \in Canister
    BY <1>4, UnflushedLast, ListType, FlushTypes DEF LastCanister, StorageOK, StoreInv, Readable
  <2>3. /\ flush' \in FlushType /\ flush'.pc = "flush" /\ flush'.canister = LastCanister.canister_id
        /\ flush'.answer = "none"
        /\ \E n \in 1 .. Len(storage_buffer) : flush'.chunks = Chunks(n)
        /\ flush'.bytes = SubSeq(storage_buffer, 1, flush'.chunks[1])
    BY <1>2, <2>1, <2>2, FlushTypes, SendFirstChunk
  <2>4. StoreInv' /\ LogsMarked({})
    BY <1>1, <1>3, <2>3, SameStores DEF StorageOK
  <2>5. TrackInv'
    <3>1. Listed' = Listed /\ Waiting' = Waiting
      BY <1>1, <1>3, <2>1, <2>3 DEF Listed, Waiting
    <3> QED
      BY <1>3, <3>1, QuietTrack DEF StorageOK
  <2>6. FlushInv'
    BY <1>3, <1>4, <2>1, <2>3 DEF StorageOK, FlushInv, LastCanister
  <2>7. LockInv'
    BY <1>1, <1>3, <2>3 DEF StorageOK, LockInv
  <2> QED
    BY <2>4, <2>5, <2>6, <2>7 DEF StorageOK
<1>5. CASE ~(storage_canisters # <<>> /\ ~LastCanister.is_full)
  <2>1. /\ flush' = [NoFlush EXCEPT !.pc = IF temp_holder = None THEN "create" ELSE "install",
                                    !.canister = temp_holder]
        /\ temp_holder' = None
    BY <1>5 DEF FlushLogs
  <2>2. /\ flush'.pc = IF temp_holder = None THEN "create" ELSE "install"
        /\ flush'.canister = temp_holder /\ flush'.answer = "none"
        /\ flush' \in FlushType
    <3>1. temp_holder \in Canister \cup {None}
      BY DEF StorageOK, FlushInv
    <3>2. flush' = [pc |-> IF temp_holder = None THEN "create" ELSE "install",
                    canister |-> temp_holder, chunks |-> <<>>, bytes |-> <<>>, answer |-> "none"]
      BY <2>1 DEF NoFlush
    <3>3. <<>> \in Seq(Nat) /\ <<>> \in Seq(Log)
      OBVIOUS
    <3> QED
      BY <3>1, <3>2, <3>3 DEF FlushType
  <2>3. StoreInv' /\ LogsMarked({})
    BY <1>1, <1>3, <2>2, SameStores DEF StorageOK
  <2>4. TrackInv'
    <3>1. Listed' = Listed
      BY <1>3 DEF Listed
    <3>2. Waiting' = Waiting
      BY <1>1, <2>1, <2>2, LogStorageAssumption DEF Waiting
    <3> QED
      BY <1>3, <3>1, <3>2, QuietTrack DEF StorageOK
  <2>5. FlushInv'
    BY <1>2, <1>3, <1>5, <2>1, <2>2 DEF FlushInv, LastCanister
  <2>6. LockInv'
    BY <1>1, <1>3, <2>2 DEF StorageOK, LockInv
  <2> QED
    BY <2>3, <2>4, <2>5, <2>6 DEF StorageOK
<1> QED
  BY <1>4, <1>5

LEMMA CreateCanisterOK ==
  ASSUME StorageOK, NEW c \in Canister, CreateCanister(c)
  PROVE  StorageOK' /\ LogsMarked({})
<1>1. /\ flush.pc = "create" /\ flush.answer = "none" /\ c \notin DOMAIN canisters
      /\ canisters' = [d \in DOMAIN canisters \cup {c} |-> IF d = c THEN NewStorageData ELSE canisters[d]]
      /\ flush' = [flush EXCEPT !.canister = c, !.answer = "ok"]
      /\ UNCHANGED <<storage_buffer, storage_flush_lock, storage_canisters, temp_holder,
                     updates, updated, log_count>>
  BY DEF CreateCanister, contractVars, boundVars
<1>2. /\ flush'.pc = "create" /\ flush'.canister = c /\ flush'.answer = "ok" /\ flush' \in FlushType
  BY <1>1, FlushTypes DEF FlushType
<1>3. flush.canister = None /\ temp_holder = None
  BY <1>1 DEF StorageOK, FlushInv
<1>4. Waiting = {} /\ Waiting' = {c}
  BY <1>1, <1>2, <1>3, LogStorageAssumption DEF Waiting
<1>5. StorageShape(NewStorageData) /\ NewStorageData.logs = <<>>
  BY DEF StorageShape, NewStorageData
<1>6. Listed' = Listed /\ Listed = DOMAIN canisters
  BY <1>1, <1>4 DEF Listed, StorageOK, TrackInv
<1>7. StoreInv' /\ LogsMarked({})
  <2>1. ASSUME NEW d \in Listed
        PROVE  StorageShape(canisters[d]) /\ canisters[d].installed /\ canisters'[d] = canisters[d]
    <3>1. canisters'[d] = canisters[d]
      BY <1>1, <1>6
    <3> QED
      BY <3>1 DEF Listed, StorageOK, StoreInv, Readable, Stores
  <2>2. \A i \in 1 .. Len(storage_canisters) : InFlight(i)' = InFlight(i)
    BY <1>1, <1>2 DEF InFlight
  <2> QED
    BY <1>1, <2>1, <2>2, QuietStores DEF StorageOK
<1>8. TrackInv'
  BY <1>1, <1>4, <1>5, <1>6 DEF TrackInv
<1>9. FlushInv'
  BY <1>1, <1>2, <1>3, LogStorageAssumption DEF StorageOK, FlushInv, LastCanister
<1>10. LockInv'
  BY <1>1, <1>2 DEF StorageOK, LockInv
<1> QED
  BY <1>7, <1>8, <1>9, <1>10 DEF StorageOK

LEMMA InstallCodeOK ==
  ASSUME StorageOK, InstallCode
  PROVE  StorageOK' /\ LogsMarked({})
<1> DEFINE c == flush.canister
<1>1. /\ flush.pc = "install" /\ flush.answer = "none"
      /\ canisters' = [canisters EXCEPT ![c].installed = TRUE]
      /\ flush' = [flush EXCEPT !.answer = "ok"]
      /\ UNCHANGED <<storage_buffer, storage_flush_lock, storage_canisters, temp_holder,
                     updates, updated, log_count>>
  BY DEF InstallCode, contractVars, boundVars
<1>2. /\ flush'.pc = "install" /\ flush'.canister = c /\ flush'.answer = "ok" /\ flush' \in FlushType
  BY <1>1, FlushTypes DEF FlushType
<1>3. temp_holder = None /\ c # None /\ c \in Canister
  BY <1>1, FlushTypes DEF StorageOK, FlushInv
<1>4. Waiting = {c} /\ Waiting' = {c} /\ Listed' = Listed
  BY <1>1, <1>2, <1>3, LogStorageAssumption DEF Waiting, Listed
<1>5. /\ c \in DOMAIN canisters /\ c \notin Listed /\ DOMAIN canisters = Listed \cup {c}
      /\ StorageShape(canisters[c]) /\ canisters[c].logs = <<>>
  BY <1>4 DEF StorageOK, TrackInv
<1>6. /\ canisters' = [d \in DOMAIN canisters |-> canisters'[d]]
      /\ \A d \in Listed : canisters'[d] = canisters[d]
      /\ canisters'[c] = [canisters[c] EXCEPT !.installed = TRUE]
  BY <1>1, <1>5
<1>7. /\ StorageShape(canisters'[c]) /\ canisters'[c].logs = <<>> /\ canisters'[c].installed
  BY <1>5, <1>6 DEF StorageShape
<1>8. StoreInv' /\ LogsMarked({})
  <2>1. ASSUME NEW d \in Listed
        PROVE  StorageShape(canisters[d]) /\ canisters[d].installed
    BY DEF Listed, StorageOK, StoreInv, Readable, Stores
  <2>2. \A i \in 1 .. Len(storage_canisters) : InFlight(i)' = InFlight(i)
    BY <1>1, <1>2 DEF InFlight
  <2> QED
    BY <1>1, <1>6, <2>1, <2>2, QuietStores DEF StorageOK
<1>9. TrackInv'
  BY <1>4, <1>5, <1>6, <1>7 DEF TrackInv
<1>10. FlushInv'
  BY <1>1, <1>2, <1>3, <1>7 DEF StorageOK, FlushInv, LastCanister
<1>11. LockInv'
  BY <1>1, <1>2 DEF StorageOK, LockInv
<1> QED
  BY <1>8, <1>9, <1>10, <1>11 DEF StorageOK

(* A call of the flush is not executed.                                    *)
LEMMA FlushCallFailsOK ==
  ASSUME StorageOK, FlushCallFails \/ StorageIsFull
  PROVE  StorageOK' /\ LogsMarked({})
<1>1. PICK answer \in {"full", "err"} :
        /\ flush' = [flush EXCEPT !.answer = answer]
        /\ answer = "full" => flush.pc = "flush"
  BY DEF FlushCallFails, StorageIsFull
<1>2. /\ flush.pc # "idle" /\ flush.answer = "none"
      /\ UNCHANGED <<storage_buffer, storage_flush_lock, storage_canisters, temp_holder,
                     canisters, updates, updated, log_count>>
  BY DEF FlushCallFails, StorageIsFull, contractVars, boundVars
<1>3. /\ flush'.pc = flush.pc /\ flush'.canister = flush.canister /\ flush'.chunks = flush.chunks
      /\ flush'.bytes = flush.bytes /\ flush'.answer = answer /\ flush' \in FlushType
  BY <1>1, FlushTypes DEF FlushType
<1>4. StoreInv' /\ LogsMarked({})
  BY <1>2, <1>3, SameStores DEF StorageOK
<1>5. TrackInv'
  <2>1. Listed' = Listed /\ Waiting' = Waiting
    BY <1>2, <1>3 DEF Listed, Waiting
  <2> QED
    BY <1>2, <2>1, QuietTrack DEF StorageOK
<1>6. FlushInv'
  BY <1>1, <1>2, <1>3 DEF StorageOK, FlushInv, LastCanister
<1>7. LockInv'
  BY <1>2, <1>3 DEF StorageOK, LockInv
<1> QED
  BY <1>4, <1>5, <1>6, <1>7 DEF StorageOK

(* A flush that ends releases the lock.                                    *)
LEMMA ReleaseLock ==
  ASSUME StorageOK, flush.pc # "idle", Release, UNCHANGED <<updates, log_count>>,
         FirstUnflushed(storage_canisters') \in Nat
  PROVE  /\ LockInv' /\ flush' = NoFlush /\ flush'.pc = "idle" /\ flush'.answer = "none"
         /\ flush' \in FlushType
<1>1. flush' = NoFlush /\ storage_flush_lock' = FALSE
  BY DEF Release
<1>2. NoFlush.pc = "idle" /\ NoFlush.answer = "none" /\ NoFlush \in FlushType
  BY DEF NoFlush, FlushType
<1> QED
  BY <1>1, <1>2 DEF StorageOK, LockInv

LEMMA CreateReturnsOK ==
  ASSUME StorageOK, CreateReturns
  PROVE  StorageOK' /\ LogsMarked({})
<1>1. /\ flush.pc = "create" /\ flush.answer # "none" /\ flush.answer # "full"
      /\ temp_holder = None /\ storage_buffer # <<>>
      /\ storage_canisters # <<>> => LastCanister.is_full
      /\ flush.canister # None <=> flush.answer = "ok"
  BY DEF CreateReturns, StorageOK, FlushInv
<1>2. UNCHANGED <<storage_buffer, storage_canisters, temp_holder, canisters, updates, updated,
                  log_count>>
  BY DEF CreateReturns, boundVars
<1>3. Listed' = Listed
  BY <1>2 DEF Listed
<1>4. CASE flush.answer = "ok"
  <2>1. /\ flush' = [NoFlush EXCEPT !.pc = "install", !.canister = flush.canister]
        /\ UNCHANGED storage_flush_lock
    BY <1>4 DEF CreateReturns
  <2>2. /\ flush'.pc = "install" /\ flush'.canister = flush.canister /\ flush'.answer = "none"
        /\ flush' \in FlushType
    <3>1. flush' = [pc |-> "install", canister |-> flush.canister, chunks |-> <<>>, bytes |-> <<>>,
                    answer |-> "none"]
      BY <2>1 DEF NoFlush
    <3>2. <<>> \in Seq(Nat) /\ <<>> \in Seq(Log)
      OBVIOUS
    <3> QED
      BY <3>1, <3>2, FlushTypes DEF FlushType
  <2>3. StoreInv' /\ LogsMarked({})
    BY <1>1, <1>2, <2>2, SameStores DEF StorageOK
  <2>4. TrackInv'
    <3>1. Waiting' = Waiting
      BY <1>1, <1>2, <2>2 DEF Waiting
    <3> QED
      BY <1>2, <1>3, <3>1, QuietTrack DEF StorageOK
  <2>5. FlushInv'
    BY <1>1, <1>2, <1>4, <2>2 DEF StorageOK, FlushInv, LastCanister
  <2>6. LockInv'
    BY <1>1, <1>2, <2>1, <2>2 DEF StorageOK, LockInv
  <2> QED
    BY <2>3, <2>4, <2>5, <2>6 DEF StorageOK
<1>5. CASE flush.answer # "ok"
  <2>1. Release
    BY <1>5 DEF CreateReturns
  <2>2. /\ LockInv' /\ flush' = NoFlush /\ flush'.pc = "idle" /\ flush'.answer = "none"
        /\ flush' \in FlushType
    BY <1>1, <1>2, <2>1, ReleaseLock, UnflushedLast DEF StorageOK, StoreInv, Readable
  <2>3. StoreInv' /\ LogsMarked({})
    BY <1>1, <1>2, <2>2, SameStores DEF StorageOK
  <2>4. TrackInv'
    <3>1. Waiting' = Waiting
      BY <1>1, <1>2, <1>5, <2>2, LogStorageAssumption DEF Waiting
    <3> QED
      BY <1>2, <1>3, <3>1, QuietTrack DEF StorageOK
  <2>5. FlushInv'
    BY <1>1, <1>2, <2>2 DEF StorageOK, FlushInv
  <2> QED
    BY <2>2, <2>3, <2>4, <2>5 DEF StorageOK
<1> QED
  BY <1>4, <1>5

(* The logs that are on a canister are logs.                               *)
LEMMA StoredLogs ==
  ASSUME NEW buffer, NEW scs, NEW cans, Readable(buffer, scs, cans),
         NEW i \in 1 .. Len(scs), NEW id \in Nat, Has(scs[i], id)
  PROVE  LET n    == id - scs[i].first_log_id + 1
             logs == cans[scs[i].canister_id].logs
         IN n \in 1 .. Len(logs) /\ logs[n] \in Log /\ Marked(logs[n], {}) = logs[n]
<1> DEFINE n    == id - scs[i].first_log_id + 1
           logs == cans[scs[i].canister_id].logs
<1>1. n \in 1 .. Len(logs) /\ logs \in Seq(Log)
  BY FoundIs DEF Readable, Stores, StorageShape
<1> HIDE DEF n, logs
<1>2. logs[n] \in Log
  BY <1>1
<1>3. Marked(logs[n], {}) = logs[n]
  BY <1>2, MarkedLog
<1> QED
  BY <1>1, <1>2, <1>3 DEF n, logs

LEMMA BufferedLogs ==
  ASSUME NEW buffer, NEW scs, NEW cans, Readable(buffer, scs, cans),
         NEW id \in Nat, id >= FirstUnflushed(scs), id < FirstUnflushed(scs) + Len(buffer)
  PROVE  LET n == id - FirstUnflushed(scs) + 1
         IN n \in 1 .. Len(buffer) /\ buffer[n] \in Log /\ Marked(buffer[n], {}) = buffer[n]
<1> DEFINE n == id - FirstUnflushed(scs) + 1
<1>1. FirstUnflushed(scs) \in Nat /\ buffer \in Seq(Log) /\ Len(buffer) \in Nat
  BY UnflushedLast DEF Readable, Buffers
<1>2. n \in 1 .. Len(buffer)
  BY <1>1
<1> HIDE DEF n
<1>3. buffer[n] \in Log
  BY <1>1, <1>2
<1> QED
  BY <1>2, <1>3, MarkedLog DEF n

LEMMA InstallReturnsOK ==
  ASSUME StorageOK, InstallReturns
  PROVE  StorageOK' /\ LogsMarked({})
<1> DEFINE c    == flush.canister
           scs  == storage_canisters
           scs2 == storage_canisters'
           F    == FirstUnflushed(scs)
<1>1. /\ flush.pc = "install" /\ flush.answer # "none" /\ flush.answer # "full"
      /\ temp_holder = None /\ storage_buffer # <<>>
      /\ scs # <<>> => LastCanister.is_full
      /\ c # None /\ c \in Canister
      /\ flush.answer = "ok" => canisters[c].installed
  BY FlushTypes DEF InstallReturns, StorageOK, FlushInv
<1>2. UNCHANGED <<storage_buffer, canisters, updates, updated, log_count>>
  BY DEF InstallReturns, boundVars
<1>3. Waiting = {c}
  BY <1>1, LogStorageAssumption DEF Waiting
<1>4. /\ c \notin Listed /\ DOMAIN canisters = Listed \cup {c}
      /\ StorageShape(canisters[c]) /\ canisters[c].logs = <<>>
      /\ canisters = [d \in DOMAIN canisters |-> canisters[d]]
  BY <1>3 DEF StorageOK, TrackInv
<1>5. Readable(storage_buffer, scs, canisters) /\ Ordered(scs) /\ scs \in Seq(StorageCanisterData)
  BY DEF StorageOK, StoreInv, Readable, Ordered
<1>6. CASE flush.answer = "ok"
  <2> DEFINE sc == [canister_id |-> c, first_log_id |-> F, length |-> 0, is_full |-> FALSE]
  <2>1. /\ scs2 = Append(scs, sc)
        /\ flush' = SendChunk(c, Chunks(Len(storage_buffer)), storage_buffer)
        /\ UNCHANGED <<temp_holder, storage_flush_lock>>
    BY <1>6 DEF InstallReturns, NewStorageCanister
  <2>2. /\ flush' \in FlushType /\ flush'.pc = "flush" /\ flush'.canister = c /\ flush'.answer = "none"
        /\ \E n \in 1 .. Len(storage_buffer) : flush'.chunks = Chunks(n)
        /\ flush'.bytes = SubSeq(storage_buffer, 1, flush'.chunks[1])
    BY <1>1, <2>1, FlushTypes, SendFirstChunk
  <2>3. /\ Ordered(scs2) /\ FirstUnflushed(scs2) = F /\ scs2 # <<>> /\ Len(scs2) = Len(scs) + 1
        /\ \A i \in 1 .. Len(scs) : scs2[i] = scs[i]
        /\ scs2[Len(scs2)] = sc
    <3>1. \A i \in 1 .. Len(scs) : scs[i].canister_id # c
      BY <1>4 DEF Listed
    <3>2. sc \in StorageCanisterData /\ sc.canister_id = c /\ sc.first_log_id = F /\ sc.length = 0
      BY <1>1, <1>5, UnflushedLast DEF StorageCanisterData
    <3>3. scs2 = Append(scs, sc)
      BY <2>1
    <3> HIDE DEF sc, scs, scs2, c
    <3>4. \A i \in 1 .. Len(scs) : scs[i].canister_id # sc.canister_id
      BY <3>1, <3>2
    <3>5. sc.first_log_id = FirstUnflushed(scs) /\ sc.length = 0 /\ sc \in StorageCanisterData
      BY <3>2
    <3> HIDE DEF F
    <3>6. Ordered(scs)
      BY <1>5
    <3>7. Ordered(scs2)
      BY <3>3, <3>4, <3>5, <3>6, ListAppend
    <3>8. FirstUnflushed(scs2) = FirstUnflushed(scs)
      BY <3>3, <3>4, <3>5, <3>6, ListAppend
    <3>9. scs2 # <<>> /\ Len(scs2) = Len(scs) + 1
      BY <3>3, <3>4, <3>5, <3>6, ListAppend
    <3>10. \A i \in 1 .. Len(scs) : scs2[i] = scs[i]
      BY <3>3, <3>4, <3>5, <3>6, ListAppend
    <3>11. scs2[Len(scs2)] = sc
      BY <3>3, <3>4, <3>5, <3>6, ListAppend
    <3> QED
      BY <3>7, <3>8, <3>9, <3>10, <3>11 DEF F
  <2>4. /\ Len(scs) \in Nat
        /\ \A i \in 1 .. Len(scs2) : i \in 1 .. Len(scs) \/ i = Len(scs2)
        /\ \A i \in 1 .. Len(scs) : i \in 1 .. Len(scs2) /\ i # Len(scs2)
        /\ Len(scs2) \in 1 .. Len(scs2)
    BY <1>5, <2>3
  <2>5. sc.canister_id = c /\ sc.length = 0
    OBVIOUS
  <2>6. Stores(sc, canisters[c])
    BY <1>1, <1>4, <1>6, <2>5 DEF Stores
  <2> HIDE DEF sc
  <2>7. Readable(storage_buffer, scs2, canisters)
    BY <1>5, <2>3, <2>4, <2>5, <2>6 DEF Readable
  <2>8. StoreInv'
    <3>1. ASSUME NEW i \in 1 .. Len(scs)
          PROVE  LET sd == canisters[scs2[i].canister_id]
                 IN /\ Len(sd.logs) = scs2[i].length + 0
                    /\ Len(sd.logs) <= Capacity
                    /\ scs2[i].is_full
      <4>1. InFlight(i) = 0
        BY <1>1 DEF InFlight
      <4>2. scs[i].is_full
        <5>1. CASE i < Len(scs)
          BY <5>1 DEF StorageOK, StoreInv
        <5>2. CASE i = Len(scs)
          BY <1>1, <5>2, <2>4 DEF LastCanister
        <5> QED
          BY <2>4, <5>1, <5>2
      <4> QED
        BY <2>3, <4>1, <4>2 DEF StorageOK, StoreInv
    <3>2. LET sd == canisters[scs2[Len(scs2)].canister_id]
          IN Len(sd.logs) = scs2[Len(scs2)].length + 0 /\ Len(sd.logs) <= Capacity
      BY <1>4, <2>3, <2>5, LogStorageAssumption
    <3>3. \A i \in 1 .. Len(scs2) : InFlight(i)' = 0
      BY <2>2 DEF InFlight
    <3>4. F + Len(storage_buffer) = log_count /\ log_count \in Nat
      BY DEF StorageOK, StoreInv
    <3>5. ASSUME NEW i \in 1 .. Len(scs2)
          PROVE  LET sd == canisters[scs2[i].canister_id]
                 IN /\ Len(sd.logs) = scs2[i].length + InFlight(i)'
                    /\ Len(sd.logs) <= Capacity
                    /\ i < Len(scs2) => scs2[i].is_full
      <4>1. CASE i \in 1 .. Len(scs)
        BY <3>1, <3>3, <4>1
      <4>2. CASE i = Len(scs2)
        BY <2>4, <3>2, <3>3, <4>2
      <4> QED
        BY <2>4, <4>1, <4>2
    <3> QED
      BY <1>2, <2>3, <2>7, <3>4, <3>5 DEF StoreInv
  <2>9. TrackInv'
    <3>1. Listed' = Listed \cup {c}
      BY <2>3, <2>4, <2>5 DEF Listed
    <3>2. Waiting' = {}
      BY <1>1, <2>1, <2>2, LogStorageAssumption DEF Waiting
    <3> QED
      BY <1>2, <1>4, <3>1, <3>2 DEF TrackInv
  <2>10. FlushInv'
    BY <1>1, <1>2, <2>1, <2>2, <2>3, <2>5 DEF StorageOK, FlushInv, LastCanister
  <2>11. LockInv'
    BY <1>1, <1>2, <2>1, <2>2, <2>3 DEF StorageOK, LockInv
  <2>12. LogsMarked({})
    <3>1. StoredStay(scs, canisters, scs2, canisters, {})
      BY <1>5, <2>3, <2>4, StoredLogs DEF StoredStay
    <3>2. BufferedStay(storage_buffer, scs, storage_buffer, scs2, canisters, {})
      BY <1>5, <2>3, BufferedLogs DEF BufferedStay
    <3>3. \A id \in Nat : id < FirstUnflushed(scs) + Len(storage_buffer) =>
            Found(storage_buffer, scs2, canisters, id) = Marked(Found(storage_buffer, scs, canisters, id), {})
      <4>1. FirstUnflushed(scs2) + Len(storage_buffer) >= FirstUnflushed(scs) + Len(storage_buffer)
        BY <2>3, UnflushedLast DEF StorageOK, StoreInv, Readable, Buffers
      <4> HIDE DEF scs, scs2
      <4> QED
        BY <1>5, <2>7, <3>1, <3>2, <4>1, FoundStep
    <3> QED
      BY <1>2, <3>3, FoundLogAt DEF LogsMarked, StorageOK, StoreInv
  <2> QED
    BY <2>8, <2>9, <2>10, <2>11, <2>12 DEF StorageOK
<1>7. CASE flush.answer # "ok"
  <2>1. Release /\ temp_holder' = c /\ UNCHANGED storage_canisters
    BY <1>7 DEF InstallReturns
  <2>2. /\ LockInv' /\ flush' = NoFlush /\ flush'.pc = "idle" /\ flush'.answer = "none"
        /\ flush' \in FlushType
    BY <1>1, <1>2, <2>1, ReleaseLock, UnflushedLast DEF StorageOK, StoreInv, Readable
  <2>3. StoreInv' /\ LogsMarked({})
    BY <1>1, <1>2, <2>1, <2>2, SameStores DEF StorageOK
  <2>4. TrackInv'
    <3>1. Waiting' = Waiting /\ Listed' = Listed
      BY <1>1, <1>3, <2>1, <2>2 DEF Waiting, Listed
    <3> QED
      BY <1>2, <3>1, QuietTrack DEF StorageOK
  <2>5. FlushInv'
    BY <1>1, <1>2, <2>1, <2>2 DEF FlushInv
  <2> QED
    BY <2>2, <2>3, <2>4, <2>5 DEF StorageOK
<1> QED
  BY <1>6, <1>7

(* A storage canister takes the chunk.                                     *)
LEMMA StoredChunk ==
  ASSUME NEW sc \in StorageCanisterData, NEW sd, Stores(sc, sd), Len(sd.logs) = sc.length,
         NEW bytes \in Seq(Log), Len(bytes) >= 1,
         \A j \in 1 .. Len(bytes) : bytes[j].id = End(sc) + j - 1,
         NEW sd2, sd2 = Stored(sd, bytes)
  PROVE  /\ Stores(sc, sd2) /\ Len(sd2.logs) = sc.length + Len(bytes)
         /\ \A j \in 1 .. sc.length : sd2.logs[j] = sd.logs[j]
         /\ \A j \in 1 .. Len(bytes) : sd2.logs[sc.length + j] = bytes[j]
<1>1. /\ sd = [installed |-> sd.installed, first_log_id |-> sd.first_log_id, logs |-> sd.logs,
               index |-> sd.index, mark_full |-> sd.mark_full]
      /\ sd.logs \in Seq(Log) /\ sd.first_log_id \in Nat /\ sd.installed
  BY DEF Stores, StorageShape
<1>2. /\ sc.first_log_id \in Nat /\ sc.length \in Nat /\ End(sc) = sc.first_log_id + sc.length
  BY DEF StorageCanisterData, End
<1>3. /\ sd2 = [installed |-> sd2.installed, first_log_id |-> sd2.first_log_id, logs |-> sd2.logs,
                index |-> sd2.index, mark_full |-> sd2.mark_full]
      /\ sd2.logs = sd.logs \o bytes /\ sd2.installed = sd.installed
      /\ sd2.first_log_id = IF sd.logs = <<>> THEN bytes[1].id ELSE sd.first_log_id
  BY <1>1 DEF Stored
<1>4. /\ sd2.logs \in Seq(Log) /\ Len(sd2.logs) = sc.length + Len(bytes)
      /\ \A j \in 1 .. sc.length : sd2.logs[j] = sd.logs[j]
      /\ \A j \in 1 .. Len(bytes) : sd2.logs[sc.length + j] = bytes[j]
  <2>1. /\ sd2.logs \in Seq(Log) /\ Len(sd2.logs) = Len(sd.logs) + Len(bytes)
        /\ \A j \in 1 .. Len(sd.logs) + Len(bytes) :
             sd2.logs[j] = IF j <= Len(sd.logs) THEN sd.logs[j] ELSE bytes[j - Len(sd.logs)]
    BY <1>1, <1>3, ConcatProperties
  <2>2. Len(bytes) \in Nat /\ Len(sd.logs) = sc.length
    OBVIOUS
  <2>3. ASSUME NEW j \in 1 .. sc.length PROVE sd2.logs[j] = sd.logs[j]
    BY <1>2, <2>1, <2>2, SMTT(30)
  <2>4. ASSUME NEW j \in 1 .. Len(bytes) PROVE sd2.logs[sc.length + j] = bytes[j]
    <3>1. /\ sc.length + j \in 1 .. sc.length + Len(bytes) /\ ~(sc.length + j <= sc.length)
          /\ (sc.length + j) - sc.length = j
      BY <1>2, <2>2, SMTT(30)
    <3> QED
      BY <2>1, <2>2, <3>1
  <2> QED
    BY <2>1, <2>2, <2>3, <2>4
<1>5. sd2.first_log_id = sc.first_log_id
  <2>1. CASE sd.logs = <<>>
    <3>1. sc.length = 0
      BY <2>1
    <3>2. bytes[1].id = End(sc) + 1 - 1
      OBVIOUS
    <3> QED
      BY <1>2, <1>3, <2>1, <3>1, <3>2
  <2>2. CASE sd.logs # <<>>
    BY <1>3, <2>2 DEF Stores
  <2> QED
    BY <2>1, <2>2
<1>6. ASSUME NEW j \in 1 .. Len(sd2.logs) PROVE sd2.logs[j].id = sc.first_log_id + j - 1
  <2>1. CASE j \in 1 .. sc.length
    BY <1>4, <2>1 DEF Stores
  <2>2. CASE j \notin 1 .. sc.length
    <3> DEFINE m == j - sc.length
    <3>1. m \in 1 .. Len(bytes) /\ j = sc.length + m
      <4>1. Len(bytes) \in Nat /\ j \in 1 .. sc.length + Len(bytes)
        BY <1>4
      <4> QED
        BY <1>2, <2>2, <4>1
    <3>2. sd2.logs[j] = bytes[m] /\ bytes[m].id = End(sc) + m - 1
      BY <1>4, <3>1
    <3>3. End(sc) + m - 1 = sc.first_log_id + j - 1
      BY <1>2, <3>1
    <3> HIDE DEF m
    <3> QED
      BY <3>2, <3>3
  <2> QED
    BY <2>1, <2>2
<1>7. Len(sd2.logs) >= sc.length
  BY <1>2, <1>4
<1>8. sd2.first_log_id \in Nat /\ sd2.installed
  BY <1>1, <1>2, <1>3, <1>5
<1>9. StorageShape(sd2)
  BY <1>3, <1>4, <1>8 DEF StorageShape
<1> QED
  BY <1>4, <1>5, <1>6, <1>7, <1>8, <1>9 DEF Stores

LEMMA StorageFlushOK ==
  ASSUME StorageOK, StorageFlush
  PROVE  StorageOK' /\ LogsMarked({})
<1> DEFINE c    == flush.canister
           scs  == storage_canisters
           last == Len(storage_canisters)
           F    == FirstUnflushed(scs)
<1>1. /\ flush.pc = "flush" /\ flush.answer = "none"
      /\ Len(canisters[c].logs) + Len(flush.bytes) <= Capacity
      /\ canisters' = [canisters EXCEPT ![c] = Stored(canisters[c], flush.bytes)]
      /\ flush' = [flush EXCEPT !.answer = "ok"]
      /\ UNCHANGED <<storage_buffer, storage_flush_lock, storage_canisters, temp_holder,
                     updates, updated, log_count>>
  BY DEF StorageFlush, Fits, contractVars, boundVars
<1>2. /\ flush'.pc = "flush" /\ flush'.canister = c /\ flush'.chunks = flush.chunks
      /\ flush'.bytes = flush.bytes /\ flush'.answer = "ok" /\ flush' \in FlushType
  BY <1>1, FlushTypes DEF FlushType
<1>3. /\ Readable(storage_buffer, scs, canisters) /\ Ordered(scs) /\ scs \in Seq(StorageCanisterData)
      /\ Buffers(storage_buffer, F) /\ F + Len(storage_buffer) = log_count /\ log_count \in Nat
      /\ storage_buffer \in Seq(Log) /\ Len(storage_buffer) \in Nat
  BY DEF StorageOK, StoreInv, Readable, Ordered, Buffers
<1>4. /\ scs # <<>> /\ LastCanister \in StorageCanisterData /\ c = LastCanister.canister_id
      /\ c \in Listed /\ flush.bytes \in Seq(Log) /\ Len(flush.bytes) \in 1 .. Len(storage_buffer)
      /\ \A j \in 1 .. Len(flush.bytes) : flush.bytes[j] = storage_buffer[j]
  BY <1>1, SentChunk DEF StorageOK
<1>5. last \in 1 .. last /\ F = End(LastCanister) /\ F \in Nat /\ LastCanister = scs[last]
  BY <1>3, <1>4, UnflushedLast DEF LastCanister
<1>6. /\ Stores(LastCanister, canisters[c]) /\ Len(canisters[c].logs) = LastCanister.length
  <2>1. InFlight(last) = 0 /\ LastCanister.length \in Nat
    BY <1>1, <1>4 DEF InFlight, StorageCanisterData
  <2> QED
    BY <1>3, <1>4, <1>5, <2>1 DEF StorageOK, StoreInv, Readable
<1>7. c \in DOMAIN canisters /\ canisters'[c] = Stored(canisters[c], flush.bytes)
      /\ canisters' = [d \in DOMAIN canisters |-> canisters'[d]]
      /\ \A d \in DOMAIN canisters : d # c => canisters'[d] = canisters[d]
  BY <1>1, <1>4 DEF StorageOK, TrackInv
<1>8. /\ Stores(LastCanister, canisters'[c])
      /\ Len(canisters'[c].logs) = LastCanister.length + Len(flush.bytes)
      /\ \A j \in 1 .. LastCanister.length : canisters'[c].logs[j] = canisters[c].logs[j]
      /\ \A j \in 1 .. Len(flush.bytes) : canisters'[c].logs[LastCanister.length + j] = flush.bytes[j]
  <2>1. \A j \in 1 .. Len(flush.bytes) : flush.bytes[j].id = End(LastCanister) + j - 1
    <3>1. \A j \in 1 .. Len(flush.bytes) : j \in 1 .. Len(storage_buffer)
      BY <1>3, <1>4
    <3>2. \A j \in 1 .. Len(storage_buffer) : storage_buffer[j].id = F + j - 1
      BY <1>3 DEF Buffers
    <3> HIDE DEF F
    <3> QED
      BY <1>4, <1>5, <3>1, <3>2
  <2>2. Len(flush.bytes) >= 1
    BY <1>3, <1>4
  <2>3. LastCanister \in StorageCanisterData /\ flush.bytes \in Seq(Log)
    BY <1>4
  <2> QED
    BY <1>6, <1>7, <2>1, <2>2, <2>3, StoredChunk, SMTT(30)
<1>9. ASSUME NEW i \in 1 .. last, i # last
      PROVE  canisters'[scs[i].canister_id] = canisters[scs[i].canister_id]
  <2>1. i < last /\ scs[i].canister_id # c
    BY <1>4, <1>5, <1>9 DEF Ordered, StorageOK, StoreInv, Readable
  <2>2. scs[i].canister_id \in DOMAIN canisters
    BY DEF StorageOK, TrackInv, Listed
  <2> QED
    BY <1>7, <2>1, <2>2
<1>10. Readable(storage_buffer, scs, canisters')
  <2>1. ASSUME NEW i \in 1 .. last PROVE Stores(scs[i], canisters'[scs[i].canister_id])
    <3>1. CASE i = last
      BY <1>4, <1>5, <1>8, <3>1
    <3>2. CASE i # last
      BY <1>3, <1>9, <3>2 DEF Readable
    <3> QED
      BY <3>1, <3>2
  <2> QED
    BY <1>3, <2>1 DEF Readable
<1>11. StoreInv'
  <2>1. ASSUME NEW i \in 1 .. last
        PROVE  LET sd == canisters'[scs[i].canister_id]
               IN /\ Len(sd.logs) = scs[i].length + InFlight(i)'
                  /\ Len(sd.logs) <= Capacity
                  /\ i < last => scs[i].is_full
    <3>1. CASE i = last
      <4>1. InFlight(i)' = Len(flush.bytes)
        BY <1>1, <1>2, <3>1 DEF InFlight
      <4>2. Len(canisters'[c].logs) <= Capacity
        BY <1>1, <1>6, <1>8
      <4> QED
        BY <1>4, <1>5, <1>8, <3>1, <4>1, <4>2
    <3>2. CASE i # last
      <4>1. InFlight(i)' = InFlight(i)
        BY <1>1, <1>2, <3>2 DEF InFlight
      <4> QED
        BY <1>9, <3>2, <4>1 DEF StorageOK, StoreInv
    <3> QED
      BY <3>1, <3>2
  <2> QED
    BY <1>1, <1>3, <1>10, <2>1 DEF StoreInv
<1>12. TrackInv'
  <2>1. Listed' = Listed /\ Waiting' = Waiting
    BY <1>1, <1>2 DEF Listed, Waiting
  <2>2. DOMAIN canisters' = DOMAIN canisters
    BY <1>7
  <2>3. \A d \in Waiting : canisters'[d] = canisters[d]
    BY <1>4, <1>7 DEF StorageOK, TrackInv
  <2> QED
    BY <1>7, <2>1, <2>2, <2>3 DEF StorageOK, TrackInv
<1>13. FlushInv'
  <2>1. LastCanister' = LastCanister
    BY <1>1 DEF LastCanister
  <2> QED
    BY <1>1, <1>2, <1>8, <2>1 DEF StorageOK, FlushInv
<1>14. LockInv'
  BY <1>1, <1>2 DEF StorageOK, LockInv
<1>15. LogsMarked({})
  <2>1. ASSUME NEW i \in 1 .. Len(scs), NEW id \in Nat, Has(scs[i], id)
        PROVE  LET n == id - scs[i].first_log_id + 1
               IN canisters'[scs[i].canister_id].logs[n] = Marked(canisters[scs[i].canister_id].logs[n], {})
    <3> DEFINE n == id - scs[i].first_log_id + 1
    <3>1. Marked(canisters[scs[i].canister_id].logs[n], {}) = canisters[scs[i].canister_id].logs[n]
      BY <1>3, <2>1, StoredLogs
    <3>2. CASE i = last
      <4>1. n \in 1 .. LastCanister.length
        BY <1>4, <1>5, <2>1, <3>2 DEF Has, End, StorageCanisterData
      <4> QED
        BY <1>4, <1>5, <1>8, <3>1, <3>2, <4>1
    <3>3. CASE i # last
      BY <1>9, <3>1, <3>3
    <3> QED
      BY <3>2, <3>3
  <2>2. StoredStay(scs, canisters, scs, canisters', {})
    BY <2>1 DEF StoredStay
  <2>3. BufferedStay(storage_buffer, scs, storage_buffer, scs, canisters', {})
    BY <1>3, BufferedLogs DEF BufferedStay
  <2>4. \A id \in Nat : id < FirstUnflushed(scs) + Len(storage_buffer) =>
          Found(storage_buffer, scs, canisters', id) = Marked(Found(storage_buffer, scs, canisters, id), {})
    <3>1. FirstUnflushed(scs) + Len(storage_buffer) >= FirstUnflushed(scs) + Len(storage_buffer)
      BY <1>3, <1>5
    <3> HIDE DEF scs
    <3> QED
      BY <1>3, <1>10, <2>2, <2>3, <3>1, FoundStep
  <2> QED
    BY <1>1, <1>3, <2>4, FoundLogAt DEF LogsMarked
<1> QED
  BY <1>11, <1>12, <1>13, <1>14, <1>15 DEF StorageOK
(* Where the logs of the buffer are when n of them have moved.             *)
LEMMA Shift ==
  ASSUME NEW first \in Nat, NEW n \in Nat, NEW len \in Nat, n <= len,
         NEW first2, first2 = first + n, NEW len2, len2 = len - n,
         NEW id \in Nat, id >= first, id < first + len
  PROVE  /\ first2 \in Nat /\ first2 + len2 >= first + len
         /\ id - first + 1 \in 1 .. len
         /\ id >= first2 => /\ id - first2 + 1 \in 1 .. len2
                           /\ (id - first2 + 1) + n = id - first + 1
         /\ id < first2 => id - first + 1 \in 1 .. n
OBVIOUS

(* What an answer to a chunk changes: n logs are now on the last canister, *)
(* none of them when the chunk was not taken.                              *)
LEMMA ChunkReturns ==
  ASSUME StorageOK, flush.pc = "flush", NEW n \in Nat,
         n = IF flush.answer = "ok" THEN Len(flush.bytes) ELSE 0,
         storage_canisters' \in Seq(StorageCanisterData),
         Len(storage_canisters') = Len(storage_canisters),
         \A i \in 1 .. Len(storage_canisters) :
           i # Len(storage_canisters) => storage_canisters'[i] = storage_canisters[i],
         LET sc == LastCanister  sc2 == storage_canisters'[Len(storage_canisters)]
         IN /\ sc2.canister_id = sc.canister_id /\ sc2.first_log_id = sc.first_log_id
            /\ sc2.length = sc.length + n,
         storage_buffer' \in Seq(Log), Len(storage_buffer') = Len(storage_buffer) - n,
         \A j \in 1 .. Len(storage_buffer') : storage_buffer'[j] = storage_buffer[j + n],
         UNCHANGED <<canisters, temp_holder, log_count>>,
         flush'.pc \in {"idle", "flush"}, flush'.answer = "none"
  PROVE  /\ StoreInv' /\ TrackInv' /\ LogsMarked({})
         /\ FirstUnflushed(storage_canisters') \in Nat
         /\ storage_canisters' # <<>> /\ LastCanister'.canister_id = LastCanister.canister_id
<1> DEFINE c    == flush.canister
           scs  == storage_canisters
           scs2 == storage_canisters'
           last == Len(scs)
           F    == FirstUnflushed(scs)
           F2   == FirstUnflushed(scs2)
<1>1. /\ Readable(storage_buffer, scs, canisters) /\ Ordered(scs) /\ scs \in Seq(StorageCanisterData)
      /\ Buffers(storage_buffer, F) /\ F + Len(storage_buffer) = log_count /\ log_count \in Nat
      /\ storage_buffer \in Seq(Log) /\ Len(storage_buffer) \in Nat
  <2>1. /\ Readable(storage_buffer, scs, canisters) /\ F + Len(storage_buffer) = log_count
        /\ log_count \in Nat
    BY DEF StorageOK, StoreInv
  <2>2. Ordered(scs) /\ Buffers(storage_buffer, F)
    BY <2>1 DEF Readable
  <2> QED
    BY <2>1, <2>2 DEF Ordered, Buffers
<1>2. /\ scs # <<>> /\ LastCanister \in StorageCanisterData /\ c = LastCanister.canister_id
      /\ Len(flush.bytes) \in 1 .. Len(storage_buffer)
      /\ \A j \in 1 .. Len(flush.bytes) : flush.bytes[j] = storage_buffer[j]
  BY SentChunk DEF StorageOK
<1>3. /\ last \in 1 .. last /\ F = End(LastCanister) /\ F \in Nat /\ LastCanister = scs[last]
      /\ LastCanister.first_log_id \in Nat /\ LastCanister.length \in Nat
      /\ F = LastCanister.first_log_id + LastCanister.length
  <2>1. last \in 1 .. last /\ F = End(scs[last]) /\ F \in Nat
    BY <1>1, <1>2, UnflushedLast
  <2>2. LastCanister = scs[last]
    BY DEF LastCanister
  <2>3. scs[last].first_log_id \in Nat /\ scs[last].length \in Nat
    BY <1>1, <2>1, ListType
  <2> HIDE DEF F, last, scs
  <2> QED
    BY <2>1, <2>2, <2>3 DEF End
<1>4. n <= Len(storage_buffer) /\ Len(storage_buffer') \in Nat
  BY <1>1, <1>2
<1>5. Ordered(scs2) /\ scs2 # <<>> /\ F2 = F + n
  <2>1. /\ scs2 \in Seq(StorageCanisterData) /\ Len(scs2) = Len(scs)
        /\ \A i \in 1 .. Len(scs) : i # Len(scs) => scs2[i] = scs[i]
        /\ scs2[last].canister_id = scs[last].canister_id
        /\ scs2[last].first_log_id = scs[last].first_log_id
        /\ scs2[last].length = scs[last].length + n
    BY <1>3
  <2> HIDE DEF scs, scs2
  <2> QED
    BY <1>1, <1>2, <2>1, ListGrow
<1>6. /\ scs2[last].canister_id = c /\ scs2[last].first_log_id = LastCanister.first_log_id
      /\ scs2[last].length = LastCanister.length + n /\ Len(scs2) = last
      /\ \A i \in 1 .. last : i # last => scs2[i] = scs[i]
  BY <1>2
<1>7. Stores(LastCanister, canisters[c])
  BY <1>1, <1>2, <1>3 DEF Readable
<1>8. Len(canisters[c].logs) = LastCanister.length + n /\ Len(canisters[c].logs) <= Capacity
  <2>1. InFlight(last) = n
    BY DEF InFlight
  <2> QED
    BY <1>2, <1>3, <2>1 DEF StorageOK, StoreInv
<1>9. Readable(storage_buffer', scs2, canisters)
  <2>1. ASSUME NEW i \in 1 .. Len(scs2) PROVE Stores(scs2[i], canisters[scs2[i].canister_id])
    <3>1. CASE i = last
      <4>1. Len(canisters[c].logs) >= scs2[last].length
        BY <1>3, <1>6, <1>8
      <4>2. Stores(scs2[last], canisters[c])
        BY <1>6, <1>7, <4>1 DEF Stores
      <4> QED
        BY <1>6, <3>1, <4>2
    <3>2. CASE i # last
      BY <1>1, <1>6, <3>2 DEF Readable
    <3> QED
      BY <3>1, <3>2
  <2>2. ASSUME NEW i \in 1 .. Len(storage_buffer') PROVE storage_buffer'[i].id = F2 + i - 1
    <3>1. i + n \in 1 .. Len(storage_buffer)
      BY <1>1, <1>4
    <3>2. storage_buffer[i + n].id = F + (i + n) - 1
      BY <1>1, <3>1 DEF Buffers
    <3>3. storage_buffer'[i] = storage_buffer[i + n] /\ i \in Nat
      BY <1>4, SMTT(30)
    <3>4. F2 = F + n /\ F \in Nat
      BY <1>3, <1>5
    <3> HIDE DEF F, F2
    <3> QED
      BY <3>2, <3>3, <3>4
  <2> QED
    BY <1>5, <2>1, <2>2 DEF Readable, Buffers
<1>10. StoreInv'
  <2>1. ASSUME NEW i \in 1 .. Len(scs2)
        PROVE  LET sd == canisters[scs2[i].canister_id]
               IN /\ Len(sd.logs) = scs2[i].length + InFlight(i)'
                  /\ Len(sd.logs) <= Capacity
                  /\ i < Len(scs2) => scs2[i].is_full
    <3>1. InFlight(i)' = 0
      BY DEF InFlight
    <3>2. CASE i = last
      BY <1>3, <1>6, <1>8, <3>1, <3>2
    <3>3. CASE i # last
      <4>1. InFlight(i) = 0
        BY <3>3 DEF InFlight
      <4>2. i \in 1 .. last /\ i < last
        BY <1>3, <1>6, <3>3
      <4>3. scs2[i] = scs[i]
        BY <1>6, <3>3, <4>2
      <4> QED
        BY <1>6, <3>1, <4>1, <4>2, <4>3 DEF StorageOK, StoreInv
    <3> QED
      BY <3>2, <3>3
  <2>2. F2 + Len(storage_buffer') = log_count
    <3> HIDE DEF F, F2
    <3> QED
      BY <1>1, <1>3, <1>4, <1>5
  <2> QED
    BY <1>1, <1>9, <2>1, <2>2 DEF StoreInv
<1>11. TrackInv'
  <2>1. \A i \in 1 .. last : scs2[i].canister_id = scs[i].canister_id
    BY <1>2, <1>3, <1>6
  <2>2. Listed' = Listed
    BY <1>6, <2>1 DEF Listed
  <2>3. Waiting' = Waiting
    BY DEF Waiting
  <2> QED
    BY <2>2, <2>3, QuietTrack DEF StorageOK
<1>12. LogsMarked({})
  <2>1. ASSUME NEW i \in 1 .. Len(scs), NEW id \in Nat, Has(scs[i], id)
        PROVE  LET m == id - scs[i].first_log_id + 1
               IN /\ i \in 1 .. Len(scs2) /\ Has(scs2[i], id)
                  /\ scs2[i].canister_id = scs[i].canister_id
                  /\ scs2[i].first_log_id = scs[i].first_log_id
                  /\ canisters[scs[i].canister_id].logs[m] = Marked(canisters[scs[i].canister_id].logs[m], {})
    <3>1. Marked(canisters[scs[i].canister_id].logs[id - scs[i].first_log_id + 1], {}) =
            canisters[scs[i].canister_id].logs[id - scs[i].first_log_id + 1]
      BY <1>1, <2>1, StoredLogs
    <3>2. CASE i = last
      <4>1. LastCanister.first_log_id <= id /\ id < LastCanister.first_log_id + LastCanister.length
        BY <1>3, <2>1, <3>2 DEF Has, End
      <4>2. /\ scs2[last].first_log_id <= id
            /\ id < scs2[last].first_log_id + scs2[last].length
        BY <1>3, <1>6, <4>1
      <4>3. Has(scs2[last], id)
        BY <4>2 DEF Has, End
      <4> QED
        BY <1>2, <1>3, <1>6, <3>1, <3>2, <4>3
    <3>3. CASE i # last
      BY <1>6, <2>1, <3>1, <3>3
    <3> QED
      BY <3>2, <3>3
  <2>2. ASSUME NEW id \in Nat, id >= F, id < F + Len(storage_buffer)
        PROVE  LET log == Marked(storage_buffer[id - F + 1], {})
               IN \/ /\ id >= F2
                     /\ storage_buffer'[id - F2 + 1] = log
                  \/ \E i \in 1 .. Len(scs2) :
                       /\ Has(scs2[i], id)
                       /\ canisters[scs2[i].canister_id].logs[id - scs2[i].first_log_id + 1] = log
    <3> DEFINE j == id - F + 1
    <3>1. Marked(storage_buffer[j], {}) = storage_buffer[j] /\ j \in 1 .. Len(storage_buffer)
      BY <1>1, <2>2, BufferedLogs
    <3>2. CASE id >= F2
      <4>1. id - F2 + 1 \in 1 .. Len(storage_buffer') /\ (id - F2 + 1) + n = j
        <5>1. /\ F \in Nat /\ Len(storage_buffer) \in Nat /\ n <= Len(storage_buffer)
              /\ F2 = F + n /\ id >= F /\ id < F + Len(storage_buffer) /\ id >= F2
          BY <1>1, <1>3, <1>4, <1>5, <2>2, <3>2
        <5> HIDE DEF F, F2
        <5> QED
          BY <5>1, Shift
      <4> HIDE DEF F2, j
      <4>2. storage_buffer'[id - F2 + 1] = storage_buffer[j]
        BY <4>1
      <4> QED
        BY <3>1, <3>2, <4>2 DEF j
    <3>3. CASE id < F2
      <4>1. j \in 1 .. n
        <5> HIDE DEF F, F2
        <5> QED
          BY <1>1, <1>3, <1>4, <1>5, <2>2, <3>3, Shift, SMTT(30) DEF j
      <4>2. flush.answer = "ok" /\ n = Len(flush.bytes)
        BY <4>1
      <4>3. canisters[c].logs[LastCanister.length + j] = flush.bytes[j]
        <5> HIDE DEF j
        <5> QED
          BY <4>1, <4>2 DEF StorageOK, FlushInv
      <4>4. flush.bytes[j] = storage_buffer[j]
        <5> HIDE DEF j
        <5> QED
          BY <1>2, <4>1, <4>2
      <4>5. /\ LastCanister.length + j = id - LastCanister.first_log_id + 1
            /\ LastCanister.first_log_id <= id
            /\ id < LastCanister.first_log_id + (LastCanister.length + n)
        <5> DEFINE first  == LastCanister.first_log_id
                   length == LastCanister.length
        <5>1. F = first + length /\ F2 = F + n /\ first \in Nat /\ length \in Nat
          BY <1>3, <1>5
        <5>2. id >= F /\ id < F2
          BY <2>2, <3>3
        <5>3. j = id - F + 1
          OBVIOUS
        <5> HIDE DEF F, F2, first, length, j
        <5>4. id >= first + length /\ id < (first + length) + n
          BY <5>1, <5>2
        <5>5. length + (id - (first + length) + 1) = id - first + 1
          BY <5>1
        <5>7. first <= id
          BY <5>1, <5>4
        <5>8. id < first + (length + n)
          <6>1. \A a, b, m \in Nat : id < (a + b) + m => id < a + (b + m)
            OBVIOUS
          <6> QED
            BY <5>1, <5>4, <6>1
        <5>6. length + j = id - first + 1
          BY <5>1, <5>3, <5>5
        <5> QED
          BY <5>6, <5>7, <5>8 DEF first, length
      <4>6. Has(scs2[last], id)
        BY <1>6, <4>5 DEF Has, End
      <4>7. canisters[scs2[last].canister_id].logs[id - scs2[last].first_log_id + 1] = storage_buffer[j]
        BY <1>6, <4>3, <4>4, <4>5
      <4> QED
        BY <1>3, <1>6, <3>1, <4>6, <4>7
    <3> QED
      <4>1. F2 \in Nat
        <5> HIDE DEF F, F2
        <5> QED
          BY <1>3, <1>5
      <4> HIDE DEF F2, F
      <4> QED
        BY <3>2, <3>3, <4>1
  <2>3. \A id \in Nat : id < F + Len(storage_buffer) =>
          Found(storage_buffer', scs2, canisters, id) = Marked(Found(storage_buffer, scs, canisters, id), {})
    <3>1. FirstUnflushed(scs2) + Len(storage_buffer') >= FirstUnflushed(scs) + Len(storage_buffer)
      <4> HIDE DEF F, F2
      <4>1. F2 + Len(storage_buffer') >= F + Len(storage_buffer)
        BY <1>1, <1>3, <1>4, <1>5, SMTT(30)
      <4> QED
        BY <4>1 DEF F, F2
    <3> HIDE DEF scs, scs2
    <3>2. Readable(storage_buffer', scs2, canisters) /\ Readable(storage_buffer, scs, canisters)
      BY <1>1, <1>9
    <3>3. StoredStay(scs, canisters, scs2, canisters, {})
      BY <2>1 DEF StoredStay
    <3>4. BufferedStay(storage_buffer, scs, storage_buffer', scs2, canisters, {})
      BY <2>2 DEF BufferedStay
    <3> DEFINE b2 == storage_buffer'
    <3>5. Readable(b2, scs2, canisters) /\ BufferedStay(storage_buffer, scs, b2, scs2, canisters, {})
      BY <3>2, <3>4
    <3>6. FirstUnflushed(scs2) + Len(b2) >= FirstUnflushed(scs) + Len(storage_buffer)
      BY <3>1
    <3> HIDE DEF b2
    <3>7. \A id \in Nat : id < FirstUnflushed(scs) + Len(storage_buffer) =>
            Found(b2, scs2, canisters, id) = Marked(Found(storage_buffer, scs, canisters, id), {})
      BY <3>2, <3>3, <3>5, <3>6, FoundStep
    <3> QED
      BY <3>7 DEF b2
  <2> QED
    BY <1>1, <2>3, FoundLogAt DEF LogsMarked
<1>13. F2 \in Nat
  <2> HIDE DEF F, F2
  <2> QED
    BY <1>3, <1>5
<1>14. LastCanister'.canister_id = LastCanister.canister_id
  BY <1>2, <1>6 DEF LastCanister
<1> QED
  BY <1>5, <1>10, <1>11, <1>12, <1>13, <1>14

(* The list with the last canister longer, or full.                        *)
LEMMA LastChanged ==
  ASSUME NEW scs \in Seq(StorageCanisterData), scs # <<>>, NEW n \in Nat, NEW full \in BOOLEAN,
         NEW scs2,
         \/ scs2 = [scs EXCEPT ![Len(scs)].length = @ + n] /\ full = scs[Len(scs)].is_full
         \/ scs2 = [scs EXCEPT ![Len(scs)].is_full = full] /\ n = 0
  PROVE  /\ scs2 \in Seq(StorageCanisterData) /\ Len(scs2) = Len(scs)
         /\ \A i \in 1 .. Len(scs) : i # Len(scs) => scs2[i] = scs[i]
         /\ LET sc == scs[Len(scs)]  sc2 == scs2[Len(scs)]
            IN /\ sc2.canister_id = sc.canister_id /\ sc2.first_log_id = sc.first_log_id
               /\ sc2.length = sc.length + n /\ sc2.is_full = full
<1> DEFINE last == Len(scs)
           sc   == scs[last]
           sc2  == [canister_id |-> sc.canister_id, first_log_id |-> sc.first_log_id,
                    length |-> sc.length + n, is_full |-> full]
<1>1. last \in 1 .. last
  OBVIOUS
<1>2. sc \in StorageCanisterData
  BY <1>1
<1>3. sc2 \in StorageCanisterData
  BY <1>2 DEF StorageCanisterData
<1>4. scs2 = [scs EXCEPT ![last] = sc2]
  <2>1. sc = [canister_id |-> sc.canister_id, first_log_id |-> sc.first_log_id,
              length |-> sc.length, is_full |-> sc.is_full] /\ sc.length \in Nat
    BY <1>2 DEF StorageCanisterData
  <2>2. CASE scs2 = [scs EXCEPT ![last].length = @ + n] /\ full = sc.is_full
    <3>1. [sc EXCEPT !.length = @ + n] = sc2
      <4> HIDE DEF sc
      <4> QED
        BY <2>1, <2>2, SMTT(30)
    <3> QED
      BY <2>2, <3>1
  <2>3. CASE scs2 = [scs EXCEPT ![last].is_full = full] /\ n = 0
    <3>1. [sc EXCEPT !.is_full = full] = sc2
      <4> HIDE DEF sc
      <4> QED
        BY <2>1, <2>3
    <3> QED
      BY <2>3, <3>1
  <2> QED
    BY <2>2, <2>3
<1>5. sc2.canister_id = sc.canister_id /\ sc2.first_log_id = sc.first_log_id
      /\ sc2.length = sc.length + n /\ sc2.is_full = full
  OBVIOUS
<1> HIDE DEF sc2
<1>6. scs2 \in Seq(StorageCanisterData) /\ Len(scs2) = last /\ scs2[last] = sc2
      /\ \A i \in 1 .. last : i # last => scs2[i] = scs[i]
  BY <1>1, <1>3, <1>4
<1> QED
  BY <1>5, <1>6

LEMMA FlushReturnsOK ==
  ASSUME StorageOK, FlushReturns
  PROVE  StorageOK' /\ LogsMarked({})
<1> DEFINE scs  == storage_canisters
           scs2 == storage_canisters'
           last == Len(scs)
           len  == Len(storage_buffer)
           n    == IF flush.answer = "ok" THEN Len(flush.bytes) ELSE 0
<1>1. /\ flush.pc = "flush" /\ flush.answer # "none" /\ DOMAIN updates = {}
      /\ UNCHANGED <<temp_holder, canisters, updates, updated, log_count>>
  BY DEF FlushReturns, boundVars, StorageOK, LockInv
<1>2. /\ scs # <<>> /\ LastCanister \in StorageCanisterData /\ LastCanister = scs[last]
      /\ flush.canister = LastCanister.canister_id /\ flush.canister \in Canister
      /\ flush.chunks \in Seq(Nat) /\ Len(flush.chunks) >= 1 /\ Head(flush.chunks) = flush.chunks[1]
      /\ flush.chunks[1] \in 1 .. len /\ Len(flush.bytes) = flush.chunks[1]
      /\ scs \in Seq(StorageCanisterData) /\ storage_buffer \in Seq(Log) /\ len \in Nat
  <2>1. scs # <<>> /\ LastCanister \in StorageCanisterData
        /\ flush.canister = LastCanister.canister_id
        /\ flush.chunks \in Seq(Nat) /\ Len(flush.chunks) >= 1
        /\ flush.chunks[1] \in 1 .. len /\ Len(flush.bytes) = flush.chunks[1]
    BY <1>1, SentChunk DEF StorageOK
  <2>2. LastCanister.canister_id \in Canister
    BY <2>1 DEF StorageCanisterData
  <2> QED
    BY <2>1, <2>2, FlushTypes DEF LastCanister
<1>3. PICK m \in 1 .. len : flush.chunks = Chunks(m)
  BY <1>1 DEF StorageOK, FlushInv
<1>4. n \in Nat /\ n <= len
  BY <1>2
<1>5. /\ storage_buffer' \in Seq(Log) /\ Len(storage_buffer') = len - n
      /\ \A j \in 1 .. Len(storage_buffer') : storage_buffer'[j] = storage_buffer[j + n]
  <2>1. CASE flush.answer = "ok"
    <3>1. storage_buffer' = SubSeq(storage_buffer, n + 1, len) /\ n \in 1 .. len
      BY <1>2, <2>1 DEF FlushReturns, Drain
    <3> HIDE DEF n
    <3>2. \A j \in n + 1 .. len : storage_buffer[j] \in Log
      BY <1>2, <3>1
    <3>3. /\ storage_buffer' \in Seq(Log)
          /\ Len(storage_buffer') = IF n + 1 <= len THEN len - (n + 1) + 1 ELSE 0
          /\ \A j \in 1 .. len - (n + 1) + 1 : storage_buffer'[j] = storage_buffer[(n + 1) + j - 1]
      BY <1>2, <3>1, <3>2, SubSeqProperties
    <3>4. Len(storage_buffer') = len - n
      BY <1>2, <3>1, <3>3
    <3>5. \A j \in 1 .. len - n : (n + 1) + j - 1 = j + n /\ j \in 1 .. len - (n + 1) + 1
      BY <1>2, <3>1
    <3> QED
      BY <3>3, <3>4, <3>5
  <2>2. CASE flush.answer # "ok"
    <3>1. storage_buffer' = storage_buffer /\ n = 0
      BY <2>2 DEF FlushReturns
    <3>2. \A j \in 1 .. len : j + 0 = j
      BY <1>2
    <3> QED
      BY <1>2, <3>1, <3>2
  <2> QED
    BY <2>1, <2>2
<1>6. /\ scs2 \in Seq(StorageCanisterData) /\ Len(scs2) = Len(scs)
      /\ \A i \in 1 .. Len(scs) : i # Len(scs) => scs2[i] = scs[i]
      /\ scs2[last].canister_id = LastCanister.canister_id
      /\ scs2[last].first_log_id = LastCanister.first_log_id
      /\ scs2[last].length = LastCanister.length + n
  <2> DEFINE full == IF flush.answer = "ok" THEN LastCanister.is_full
                     ELSE LastCanister.is_full \/ flush.answer = "full"
  <2>1. full \in BOOLEAN
    BY <1>2 DEF StorageCanisterData
  <2>2. \/ scs2 = [scs EXCEPT ![Len(scs)].length = @ + n] /\ full = scs[Len(scs)].is_full
        \/ scs2 = [scs EXCEPT ![Len(scs)].is_full = full] /\ n = 0
    <3>1. CASE flush.answer = "ok"
      BY <1>2, <3>1 DEF FlushReturns
    <3>2. CASE flush.answer # "ok"
      BY <1>2, <3>2 DEF FlushReturns
    <3> QED
      BY <3>1, <3>2
  <2> HIDE DEF full, n, scs, scs2
  <2> QED
    BY <1>2, <1>4, <2>1, <2>2, LastChanged
<1> HIDE DEF n
<1>7. /\ flush'.answer = "none" /\ flush' \in FlushType
      /\ \/ /\ flush'.pc = "flush" /\ flush'.canister = flush.canister
            /\ \E k \in 1 .. Len(storage_buffer') : flush'.chunks = Chunks(k)
            /\ flush'.bytes = SubSeq(storage_buffer', 1, flush'.chunks[1])
            /\ UNCHANGED storage_flush_lock
         \/ Release /\ flush' = NoFlush /\ flush'.pc = "idle"
  <2>1. CASE flush.answer = "ok" /\ Len(flush.chunks) > 1
    <3> DEFINE k == m - flush.chunks[1]
    <3>1. /\ flush' = SendChunk(flush.canister, Tail(flush.chunks), storage_buffer')
          /\ UNCHANGED storage_flush_lock
      BY <2>1 DEF FlushReturns
    <3>2. k \in Nat \ {0} /\ Tail(flush.chunks) = Chunks(k)
      <4>1. m \in Nat \ {0}
        BY <1>2
      <4> QED
        BY <1>3, <2>1, <4>1, ChunksSplit
    <3>3. k \in 1 .. Len(storage_buffer')
      <4>1. n = flush.chunks[1]
        BY <1>2, <2>1 DEF n
      <4>2. k <= len - n
        BY <1>2, <1>3, <4>1
      <4> HIDE DEF k
      <4> QED
        BY <1>2, <1>4, <1>5, <3>2, <4>2
    <3> HIDE DEF k
    <3>4. Chunks(k) \in Seq(Nat) /\ Chunks(k)[1] \in 1 .. k
      BY <3>2, ChunksSplit
    <3>5. SubSeq(storage_buffer', 1, Chunks(k)[1]) \in Seq(Log)
      <4>1. Chunks(k)[1] \in 1 .. Len(storage_buffer')
        BY <1>2, <1>4, <1>5, <3>2, <3>3, <3>4
      <4> QED
        BY <1>5, <4>1, SubSeqProperties
    <3>6. flush' = [pc |-> "flush", canister |-> flush.canister, chunks |-> Chunks(k),
                    bytes |-> SubSeq(storage_buffer', 1, Chunks(k)[1]), answer |-> "none"]
      BY <3>1, <3>2 DEF SendChunk
    <3>7. flush' \in FlushType
      BY <1>2, <3>4, <3>5, <3>6 DEF FlushType
    <3>8. /\ flush'.pc = "flush" /\ flush'.canister = flush.canister /\ flush'.chunks = Chunks(k)
          /\ flush'.answer = "none" /\ flush'.bytes = SubSeq(storage_buffer', 1, flush'.chunks[1])
      BY <3>6
    <3>9. \E i \in 1 .. Len(storage_buffer') : flush'.chunks = Chunks(i)
      BY <3>3, <3>8
    <3> QED
      BY <3>1, <3>7, <3>8, <3>9
  <2>2. CASE ~(flush.answer = "ok" /\ Len(flush.chunks) > 1)
    <3>1. Release
      BY <2>2 DEF FlushReturns
    <3>2. flush' = NoFlush
      BY <3>1 DEF Release
    <3>3. <<>> \in Seq(Nat) /\ <<>> \in Seq(Log)
      OBVIOUS
    <3> QED
      BY <3>1, <3>2, <3>3 DEF NoFlush, FlushType
  <2> QED
    BY <2>1, <2>2
<1>8. /\ StoreInv' /\ TrackInv' /\ LogsMarked({})
      /\ FirstUnflushed(scs2) \in Nat
      /\ scs2 # <<>> /\ LastCanister'.canister_id = LastCanister.canister_id
  <2>1. n = IF flush.answer = "ok" THEN Len(flush.bytes) ELSE 0
    BY DEF n
  <2>2. flush'.pc \in {"idle", "flush"}
    BY <1>7
  <2> QED
    BY <1>1, <1>4, <1>5, <1>6, <1>7, <2>1, <2>2, ChunkReturns
<1>9. FlushInv'
  <2>1. temp_holder' \in Canister \cup {None}
    BY <1>1 DEF StorageOK, FlushInv
  <2>2. CASE flush'.pc = "flush"
    BY <1>2, <1>7, <1>8, <2>1, <2>2 DEF FlushInv
  <2>3. CASE flush'.pc # "flush"
    <3>1. flush'.pc = "idle" /\ flush' = NoFlush
      BY <1>7, <2>3
    <3> QED
      BY <1>7, <2>1, <3>1 DEF FlushInv
  <2> QED
    BY <2>2, <2>3
<1>10. LockInv'
  <2>1. CASE Release
    BY <1>1, <1>8, <2>1, ReleaseLock
  <2>2. CASE flush'.pc = "flush" /\ UNCHANGED storage_flush_lock
    BY <1>1, <2>2 DEF StorageOK, LockInv
  <2> QED
    BY <1>7, <2>1, <2>2
<1> QED
  BY <1>8, <1>9, <1>10 DEF StorageOK

(* The updates                                                             *)

(* While updates are made no flush is.                                     *)
LEMMA UpdatesAlone ==
  ASSUME StorageOK, DOMAIN updates # {} \/ ~storage_flush_lock
  PROVE  flush.pc = "idle" /\ flush = NoFlush
BY DEF StorageOK, LockInv, FlushInv

LEMMA QuietFlush ==
  ASSUME StorageOK, flush.pc = "idle", UNCHANGED <<flush, temp_holder>>
  PROVE  FlushInv'
BY DEF StorageOK, FlushInv

(* The results of polling the updates.                                     *)
LEMMA Polled ==
  ASSUME NEW us, UpdatesPolled(us), us \in [DOMAIN us -> UpdateStatus], flush'.pc = "idle",
         \A id \in DOMAIN us : id \in Nat /\ id < log_count',
         \A id \in DOMAIN us : us[id] = "sent" => id < FirstUnflushed(storage_canisters')
  PROVE  /\ LockInv'
         /\ \A id \in DOMAIN updates' : id \in DOMAIN us /\ updates'[id] = us[id]
         /\ \A id \in updated' : id \in updated \/ (id \in DOMAIN us /\ us[id] = "ok")
<1>1. CASE Finished(us)
  <2>1. /\ updates' = NoUpdates /\ storage_flush_lock' = FALSE
        /\ updated' = updated \cup {i \in DOMAIN us : us[i] = "ok"}
    BY <1>1 DEF UpdatesPolled
  <2>2. DOMAIN NoUpdates = {} /\ NoUpdates \in [DOMAIN NoUpdates -> UpdateStatus]
    BY DEF NoUpdates
  <2> QED
    BY <2>1, <2>2 DEF LockInv
<1>2. CASE ~Finished(us)
  <2>1. updates' = us /\ storage_flush_lock' = TRUE /\ updated' = updated
    BY <1>2 DEF UpdatesPolled
  <2>2. DOMAIN us # {}
    BY <1>2 DEF Finished
  <2> QED
    BY <2>1, <2>2 DEF LockInv
<1> QED
  BY <1>1, <1>2

(* What was believed final is, and stays final.                            *)
LEMMA FinalStep ==
  ASSUME StoreInv, FinalInv, NEW ids, LogsMarked(ids), log_count \in Nat, log_count' \in Nat,
         log_count' >= log_count,
         \A id \in updated' : \/ id \in updated
                              \/ /\ id \in Nat /\ id < log_count
                                 /\ id \in ids \/ (id \in DOMAIN updates /\ updates[id] \in {"stored", "ok"}),
         \A id \in DOMAIN updates' : updates'[id] \in {"stored", "ok"} =>
            /\ id \in Nat /\ id < log_count
            /\ id \in ids \/ (id \in DOMAIN updates /\ updates[id] \in {"stored", "ok"})
  PROVE  FinalInv'
<1>1. ASSUME NEW id \in Nat, id < log_count, LogAt(id).final \/ id \in ids
      PROVE  LogAt(id)'.final
  <2>1. LogAt(id)' = Marked(LogAt(id), ids)
    BY <1>1 DEF LogsMarked
  <2>2. LogAt(id) \in Log /\ LogAt(id).id = id
    BY <1>1, LogAtLog
  <2>3. Marked(LogAt(id), ids).final
    BY <1>1, <2>2, MarkedLog
  <2> QED
    BY <2>1, <2>3
<1>2. ASSUME NEW id \in updated' PROVE id \in Nat /\ id < log_count' /\ LogAt(id)'.final
  <2>1. id \in Nat /\ id < log_count /\ (LogAt(id).final \/ id \in ids)
    BY <1>2 DEF FinalInv
  <2> QED
    BY <1>1, <2>1
<1>3. ASSUME NEW id \in DOMAIN updates', updates'[id] \in {"stored", "ok"}
      PROVE  LogAt(id)'.final
  <2>1. id \in Nat /\ id < log_count /\ (LogAt(id).final \/ id \in ids)
    BY <1>3 DEF FinalInv
  <2> QED
    BY <1>1, <2>1
<1> QED
  BY <1>2, <1>3 DEF FinalInv

LEMMA StartUpdatesOK ==
  ASSUME IInv, NEW ids \in SUBSET (0 .. log_count - 1), StartUpdates(ids)
  PROVE  /\ IInv'
         /\ \E marked \in SUBSET (0 .. log_count - 1) : LogsMarked(marked)
<1> DEFINE scs == storage_canisters
           F   == FirstUnflushed(scs)
           J   == {id \in ids : CanisterOf(id) = None}
           us  == [id \in ids |-> IF CanisterOf(id) = None THEN "ok" ELSE "sent"]
<1>1. /\ ~storage_flush_lock /\ UpdatesPolled(us)
      /\ storage_buffer' = [i \in 1 .. Len(storage_buffer) |->
           [storage_buffer[i] EXCEPT !.final = @ \/ \E id \in ids :
              CanisterOf(id) = None /\ i = id - F + 1]]
      /\ UNCHANGED <<storage_canisters, temp_holder, canisters, flush, log_count>>
  BY DEF StartUpdates, MayUpdate, boundVars
<1>2. StorageOK /\ FinalInv /\ flush.pc = "idle" /\ flush'.pc = "idle"
  BY <1>1, UpdatesAlone DEF IInv
<1>3. /\ Readable(storage_buffer, scs, canisters) /\ Ordered(scs) /\ scs \in Seq(StorageCanisterData)
      /\ Buffers(storage_buffer, F) /\ F + Len(storage_buffer) = log_count /\ log_count \in Nat
      /\ storage_buffer \in Seq(Log) /\ Len(storage_buffer) \in Nat /\ F \in Nat
  BY <1>2, UnflushedLast DEF StorageOK, StoreInv, Readable, Ordered, Buffers
<1>4. \A id \in ids : id \in Nat /\ id < log_count
  BY <1>3
<1>5. ASSUME NEW id \in ids, CanisterOf(id) # None PROVE id < F
  <2>1. Where(scs, id) # None
    BY <1>5, FoundLogAt
  <2>2. ~(id >= F)
    BY <1>3, <1>4, <2>1, Places
  <2> QED
    BY <1>3, <1>4, <2>2
<1>6. /\ storage_buffer' \in Seq(Log) /\ Len(storage_buffer') = Len(storage_buffer)
      /\ \A i \in 1 .. Len(storage_buffer) : storage_buffer'[i] = Marked(storage_buffer[i], J)
  <2>1. ASSUME NEW i \in 1 .. Len(storage_buffer)
        PROVE  storage_buffer'[i] = Marked(storage_buffer[i], J)
    <3>1. (\E id \in ids : CanisterOf(id) = None /\ i = id - F + 1) <=> storage_buffer[i].id \in J
      <4>1. storage_buffer[i].id = F + i - 1
        BY <1>3 DEF Buffers
      <4>2. ASSUME NEW id \in ids PROVE i = id - F + 1 <=> id = storage_buffer[i].id
        <5> HIDE DEF F
        <5> QED
          BY <1>3, <1>4, <4>1
      <4> QED
        BY <4>2
    <3> QED
      BY <1>1, <3>1 DEF Marked
  <2>2. ASSUME NEW i \in 1 .. Len(storage_buffer) PROVE storage_buffer'[i] \in Log
    <3>1. storage_buffer[i] \in Log
      BY <1>3
    <3> HIDE DEF J
    <3> QED
      BY <2>1, <3>1, MarkedLog
  <2>3. storage_buffer' \in [1 .. Len(storage_buffer) -> Log]
    BY <1>1, <2>2
  <2>4. storage_buffer' \in Seq(Log) /\ Len(storage_buffer') = Len(storage_buffer)
    <3> DEFINE b2 == storage_buffer'
    <3>1. b2 \in [1 .. Len(storage_buffer) -> Log]
      BY <2>3
    <3> HIDE DEF b2
    <3>2. b2 \in Seq(Log) /\ Len(b2) = Len(storage_buffer)
      BY <1>3, <3>1
    <3> QED
      BY <3>2 DEF b2
  <2> QED
    BY <2>1, <2>4
<1>7. Readable(storage_buffer', scs, canisters)
  <2>1. ASSUME NEW i \in 1 .. Len(storage_buffer') PROVE storage_buffer'[i].id = F + i - 1
    <3>1. i \in 1 .. Len(storage_buffer) /\ storage_buffer[i] \in Log
      BY <1>3, <1>6
    <3>2. storage_buffer[i].id = F + i - 1
      BY <1>3, <3>1 DEF Buffers
    <3> HIDE DEF J
    <3> QED
      BY <1>6, <3>1, <3>2, MarkedLog
  <2> QED
    BY <1>3, <1>6, <2>1 DEF Readable, Buffers
<1>8. StoreInv'
  <2>1. \A i \in 1 .. Len(scs) : InFlight(i)' = InFlight(i)
    BY <1>1 DEF InFlight
  <2> QED
    BY <1>1, <1>2, <1>3, <1>6, <1>7, <2>1 DEF StorageOK, StoreInv
<1>9. TrackInv'
  <2>1. Listed' = Listed /\ Waiting' = Waiting
    BY <1>1 DEF Listed, Waiting
  <2> QED
    BY <1>1, <1>2, <2>1, QuietTrack DEF StorageOK
<1>10. FlushInv'
  BY <1>1, <1>2, QuietFlush
<1>11. /\ LockInv'
       /\ \A id \in DOMAIN updates' : id \in DOMAIN us /\ updates'[id] = us[id]
       /\ \A id \in updated' : id \in updated \/ (id \in DOMAIN us /\ us[id] = "ok")
  <2>1. us \in [DOMAIN us -> UpdateStatus] /\ DOMAIN us = ids
    BY DEF UpdateStatus
  <2>2. \A id \in DOMAIN us : id \in Nat /\ id < log_count'
    BY <1>1, <1>4, <2>1
  <2>3. \A id \in DOMAIN us : us[id] = "sent" => id < FirstUnflushed(storage_canisters')
    BY <1>1, <1>5, <2>1
  <2> HIDE DEF us
  <2> QED
    BY <1>1, <1>2, <2>1, <2>2, <2>3, Polled
<1>12. LogsMarked(J)
  <2>1. StoredStay(scs, canisters, scs, canisters, J)
    <3>1. ASSUME NEW i \in 1 .. Len(scs), NEW id \in Nat, Has(scs[i], id)
          PROVE  LET n == id - scs[i].first_log_id + 1
                     logs == canisters[scs[i].canister_id].logs
                 IN logs[n] = Marked(logs[n], J)
      <4> DEFINE log == Found(storage_buffer, scs, canisters, id)
      <4>1. id \notin J
        <5>1. Where(scs, id) = scs[i].canister_id /\ scs[i].canister_id \in Canister
          BY <1>3, <3>1, Places, ListType
        <5> QED
          BY <5>1, FoundLogAt, LogStorageAssumption
      <4>2. log = canisters[scs[i].canister_id].logs[id - scs[i].first_log_id + 1]
        <5>1. Readable(storage_buffer, scs, canisters) /\ Has(scs[i], id)
          BY <1>3, <3>1
        <5> HIDE DEF scs
        <5> QED
          BY <5>1, FoundIs
      <4>3. log \in Log /\ log.id = id
        <5>1. End(scs[i]) <= F /\ End(scs[i]) \in Nat /\ id < End(scs[i])
          BY <1>3, <3>1, UnflushedLast, ListType DEF Has
        <5>2. id < F + Len(storage_buffer)
          <6> HIDE DEF F
          <6> QED
            BY <1>3, <5>1
        <5> QED
          BY <1>3, <5>2, FoundLog
      <4> HIDE DEF log, J
      <4>4. Marked(log, J) = log
        BY <4>1, <4>3, MarkedLog
      <4> QED
        BY <4>2, <4>4
    <3> QED
      BY <3>1 DEF StoredStay
  <2>2. BufferedStay(storage_buffer, scs, storage_buffer', scs, canisters, J)
    <3>1. ASSUME NEW id \in Nat, id >= F, id < F + Len(storage_buffer)
          PROVE  storage_buffer'[id - F + 1] = Marked(storage_buffer[id - F + 1], J)
      <4>1. id - F + 1 \in 1 .. Len(storage_buffer)
        <5> HIDE DEF F
        <5> QED
          BY <1>3, <3>1
      <4> QED
        BY <1>6, <4>1
    <3> QED
      BY <3>1 DEF BufferedStay
  <2> DEFINE b2 == storage_buffer'
  <2>3. Readable(b2, scs, canisters) /\ BufferedStay(storage_buffer, scs, b2, scs, canisters, J)
    BY <1>7, <2>2
  <2>4. FirstUnflushed(scs) + Len(b2) >= FirstUnflushed(scs) + Len(storage_buffer)
    BY <1>3, <1>6
  <2> HIDE DEF b2, scs, J
  <2>5. \A id \in Nat : id < FirstUnflushed(scs) + Len(storage_buffer) =>
          Found(b2, scs, canisters, id) = Marked(Found(storage_buffer, scs, canisters, id), J)
    BY <1>3, <2>1, <2>3, <2>4, FoundStep
  <2> QED
    BY <1>1, <1>3, <2>5, FoundLogAt DEF LogsMarked, b2, scs
<1>13. FinalInv'
  <2>1. \A id \in DOMAIN us : us[id] \in {"stored", "ok"} => id \in J
    OBVIOUS
  <2>2. log_count' \in Nat /\ log_count' >= log_count /\ DOMAIN us = ids
    BY <1>1, <1>3
  <2>3. \A id \in updated' : id \in updated \/ (id \in Nat /\ id < log_count /\ id \in J)
    <3> HIDE DEF us, J
    <3> QED
      BY <1>4, <1>11, <2>1, <2>2
  <2>4. \A id \in DOMAIN updates' : updates'[id] \in {"stored", "ok"} =>
          id \in Nat /\ id < log_count /\ id \in J
    <3> HIDE DEF us, J
    <3> QED
      BY <1>4, <1>11, <2>1, <2>2
  <2> HIDE DEF J
  <2> QED
    BY <1>2, <1>3, <1>12, <2>2, <2>3, <2>4, FinalStep DEF StorageOK
<1> QED
  <2>1. J \in SUBSET (0 .. log_count - 1)
    OBVIOUS
  <2> HIDE DEF J
  <2> QED
    BY <1>8, <1>9, <1>10, <1>11, <1>12, <1>13, <2>1 DEF IInv, StorageOK

(* A call of an update is not executed.                                    *)
LEMMA UpdateFailsOK ==
  ASSUME StorageOK, NEW id \in DOMAIN updates, UpdateFails(id)
  PROVE  StorageOK' /\ LogsMarked({})
<1>1. /\ updates[id] = "sent" /\ updates' = [updates EXCEPT ![id] = "failed"]
      /\ UNCHANGED <<storage_buffer, storage_flush_lock, storage_canisters, temp_holder,
                     canisters, flush, updated, log_count>>
  BY DEF UpdateFails, contractVars, boundVars
<1>2. flush.pc = "idle"
  BY UpdatesAlone
<1>3. StoreInv' /\ LogsMarked({})
  BY <1>1, SameStores DEF StorageOK
<1>4. TrackInv'
  <2>1. Listed' = Listed /\ Waiting' = Waiting
    BY <1>1 DEF Listed, Waiting
  <2> QED
    BY <1>1, <2>1, QuietTrack DEF StorageOK
<1>5. FlushInv'
  BY <1>1, <1>2, QuietFlush
<1>6. LockInv'
  BY <1>1 DEF StorageOK, LockInv, UpdateStatus
<1> QED
  BY <1>3, <1>4, <1>5, <1>6 DEF StorageOK

LEMMA UpdateReturnsOK ==
  ASSUME IInv, NEW id \in DOMAIN updates, UpdateReturns(id)
  PROVE  IInv' /\ LogsMarked({})
<1> DEFINE us == [updates EXCEPT ![id] = IF @ = "stored" THEN "ok" ELSE "err"]
<1>1. /\ updates[id] \in {"stored", "failed"} /\ UpdatesPolled(us)
      /\ UNCHANGED <<storage_buffer, storage_canisters, temp_holder, canisters, flush, log_count>>
  BY DEF UpdateReturns, boundVars
<1>2. StorageOK /\ FinalInv /\ flush.pc = "idle" /\ flush'.pc = "idle"
  BY <1>1, UpdatesAlone DEF IInv
<1>3. StoreInv' /\ LogsMarked({})
  BY <1>1, <1>2, SameStores DEF StorageOK
<1>4. TrackInv'
  <2>1. Listed' = Listed /\ Waiting' = Waiting
    BY <1>1 DEF Listed, Waiting
  <2> QED
    BY <1>1, <1>2, <2>1, QuietTrack DEF StorageOK
<1>5. FlushInv'
  BY <1>1, <1>2, QuietFlush
<1>6. /\ updates \in [DOMAIN updates -> UpdateStatus] /\ log_count \in Nat
      /\ \A i \in DOMAIN updates : i \in Nat /\ i < log_count
      /\ \A i \in DOMAIN updates : updates[i] = "sent" => i < FirstUnflushed(storage_canisters)
  BY <1>2 DEF StorageOK, LockInv, StoreInv
<1>7. /\ us \in [DOMAIN us -> UpdateStatus] /\ DOMAIN us = DOMAIN updates
      /\ \A i \in DOMAIN us : us[i] = "sent" => updates[i] = "sent"
      /\ \A i \in DOMAIN us : us[i] \in {"stored", "ok"} => updates[i] \in {"stored", "ok"}
  BY <1>1, <1>6 DEF UpdateStatus
<1> HIDE DEF us
<1>8. /\ LockInv'
      /\ \A i \in DOMAIN updates' : i \in DOMAIN us /\ updates'[i] = us[i]
      /\ \A i \in updated' : i \in updated \/ (i \in DOMAIN us /\ us[i] = "ok")
  <2>1. \A i \in DOMAIN us : i \in Nat /\ i < log_count'
    BY <1>1, <1>6, <1>7
  <2>2. \A i \in DOMAIN us : us[i] = "sent" => i < FirstUnflushed(storage_canisters')
    BY <1>1, <1>6, <1>7
  <2> QED
    BY <1>1, <1>2, <1>7, <2>1, <2>2, Polled
<1>9. FinalInv'
  <2>1. log_count' \in Nat /\ log_count' >= log_count
    BY <1>1, <1>6
  <2>2. \A i \in updated' : i \in updated \/
          (i \in Nat /\ i < log_count /\ i \in DOMAIN updates /\ updates[i] \in {"stored", "ok"})
    BY <1>6, <1>7, <1>8
  <2>3. \A i \in DOMAIN updates' : updates'[i] \in {"stored", "ok"} =>
          i \in Nat /\ i < log_count /\ i \in DOMAIN updates /\ updates[i] \in {"stored", "ok"}
    BY <1>6, <1>7, <1>8
  <2> QED
    BY <1>2, <1>3, <1>6, <2>1, <2>2, <2>3, FinalStep DEF StorageOK
<1> QED
  BY <1>3, <1>4, <1>5, <1>8, <1>9 DEF IInv, StorageOK

LEMMA ControllerMarkFullOK ==
  ASSUME StorageOK, NEW c \in DOMAIN canisters, ControllerMarkFull(c)
  PROVE  StorageOK' /\ LogsMarked({})
<1>1. PICK mark \in BOOLEAN : canisters' = [canisters EXCEPT ![c].mark_full = mark]
  BY DEF ControllerMarkFull
<1>2. UNCHANGED <<storage_buffer, storage_flush_lock, storage_canisters, temp_holder,
                  flush, updates, updated, log_count>>
  BY DEF ControllerMarkFull, contractVars
<1>3. DOMAIN canisters = Listed \cup Waiting /\ Listed' = Listed /\ Waiting' = Waiting
  BY <1>2 DEF StorageOK, TrackInv, Listed, Waiting
<1>4. ASSUME NEW d \in DOMAIN canisters
      PROVE  /\ StorageShape(canisters[d]) /\ StorageShape(canisters'[d])
             /\ canisters'[d].logs = canisters[d].logs
             /\ canisters'[d].first_log_id = canisters[d].first_log_id
             /\ canisters'[d].installed = canisters[d].installed
  <2>1. StorageShape(canisters[d])
    BY <1>3 DEF StorageOK, TrackInv, Listed, StoreInv, Readable, Stores
  <2>2. canisters'[d] = canisters[d] \/ canisters'[d] = [canisters[d] EXCEPT !.mark_full = mark]
    BY <1>1
  <2> QED
    BY <2>1, <2>2 DEF StorageShape
<1>5. canisters' = [d \in DOMAIN canisters |-> canisters'[d]] /\ DOMAIN canisters' = DOMAIN canisters
  BY <1>1
<1>6. StoreInv' /\ LogsMarked({})
  <2>1. \A d \in Listed : d \in DOMAIN canisters /\ canisters[d].installed
    BY <1>3 DEF Listed, StorageOK, StoreInv, Readable, Stores
  <2>2. \A i \in 1 .. Len(storage_canisters) : InFlight(i)' = InFlight(i)
    BY <1>2 DEF InFlight
  <2> QED
    BY <1>2, <1>4, <2>1, <2>2, QuietStores DEF StorageOK
<1>7. TrackInv'
  BY <1>3, <1>4, <1>5 DEF StorageOK, TrackInv
<1>8. FlushInv'
  <2>1. LastCanister' = LastCanister
    BY <1>2 DEF LastCanister
  <2>2. flush.pc = "install" => flush.canister \in DOMAIN canisters
    BY <1>3 DEF StorageOK, FlushInv, FlushType, Waiting
  <2>3. flush.pc = "flush" => flush.canister \in DOMAIN canisters
    BY <1>3, SentChunk DEF StorageOK
  <2> QED
    BY <1>2, <1>4, <2>1, <2>2, <2>3 DEF StorageOK, FlushInv
<1>9. LockInv'
  BY <1>2 DEF StorageOK, LockInv
<1> QED
  BY <1>6, <1>7, <1>8, <1>9 DEF StorageOK

LEMMA StutterOK ==
  ASSUME StorageOK, UNCHANGED vars
  PROVE  StorageOK' /\ LogsMarked({})
<1>1. UNCHANGED <<storage_buffer, storage_flush_lock, storage_canisters, temp_holder, canisters,
                  flush, updates, updated, log_count>>
  BY DEF vars, contractVars, boundVars
<1>2. StoreInv' /\ LogsMarked({})
  BY <1>1, SameStores DEF StorageOK
<1>3. TrackInv'
  <2>1. Listed' = Listed /\ Waiting' = Waiting
    BY <1>1 DEF Listed, Waiting
  <2> QED
    BY <1>1, <2>1, QuietTrack DEF StorageOK
<1>4. FlushInv'
  <2>1. LastCanister' = LastCanister
    BY <1>1 DEF LastCanister
  <2> QED
    BY <1>1, <2>1 DEF StorageOK, FlushInv
<1>5. LockInv'
  BY <1>1 DEF StorageOK, LockInv
<1> QED
  BY <1>2, <1>3, <1>4, <1>5 DEF StorageOK

(* A storage canister makes a log final.                                   *)
LEMMA CmUpdateLogOK ==
  ASSUME IInv, NEW id \in DOMAIN updates, CmUpdateLog(id)
  PROVE  IInv' /\ LogsMarked({id}) /\ id \in 0 .. log_count - 1
<1> DEFINE scs == storage_canisters
           F   == FirstUnflushed(scs)
           c   == CanisterOf(id)
           at  == id - canisters[c].first_log_id + 1
<1>1. /\ updates[id] = "sent" /\ updates' = [updates EXCEPT ![id] = "stored"]
      /\ canisters' = [canisters EXCEPT ![c].logs[at].final = TRUE]
      /\ UNCHANGED <<storage_buffer, storage_flush_lock, storage_canisters, temp_holder,
                     flush, updated, log_count>>
  BY DEF CmUpdateLog, contractVars, boundVars
<1>2. StorageOK /\ FinalInv /\ flush.pc = "idle"
  BY UpdatesAlone DEF IInv
<1>3. /\ Readable(storage_buffer, scs, canisters) /\ Ordered(scs) /\ scs \in Seq(StorageCanisterData)
      /\ Buffers(storage_buffer, F) /\ F + Len(storage_buffer) = log_count /\ log_count \in Nat
      /\ storage_buffer \in Seq(Log) /\ Len(storage_buffer) \in Nat /\ F \in Nat
  <2>1. /\ Readable(storage_buffer, scs, canisters) /\ F + Len(storage_buffer) = log_count
        /\ log_count \in Nat
    BY <1>2 DEF StorageOK, StoreInv
  <2>2. Ordered(scs) /\ Buffers(storage_buffer, F)
    BY <2>1 DEF Readable
  <2> QED
    BY <2>1, <2>2, UnflushedLast DEF Ordered, Buffers
<1>4. id \in Nat /\ id < log_count /\ id < F
  BY <1>1, <1>2 DEF StorageOK, LockInv
<1>5. PICK i \in 1 .. Len(scs) : Has(scs[i], id)
  BY <1>3, <1>4, Places
<1> DEFINE logs == canisters[c].logs
<1>6. c = scs[i].canister_id /\ c \in Listed
  <2>1. Where(scs, id) = scs[i].canister_id
    BY <1>3, <1>4, <1>5, Places
  <2> QED
    BY <2>1, FoundLogAt DEF Listed
<1>7. /\ at \in 1 .. Len(logs) /\ logs \in Seq(Log) /\ Stores(scs[i], canisters[c])
      /\ canisters[c].first_log_id = scs[i].first_log_id /\ scs[i].first_log_id \in Nat
  <2>1. Stores(scs[i], canisters[c])
    BY <1>3, <1>6 DEF Readable
  <2>2. id - scs[i].first_log_id + 1 \in 1 .. Len(logs)
    <3>1. Readable(storage_buffer, scs, canisters) /\ Has(scs[i], id) /\ id \in Nat
      BY <1>3, <1>4, <1>5
    <3> HIDE DEF scs, c
    <3> QED
      BY <1>6, <3>1, FoundIs
  <2>3. canisters[c].first_log_id = scs[i].first_log_id /\ logs \in Seq(Log)
    BY <2>1, <2>2 DEF Stores, StorageShape
  <2>4. scs[i].first_log_id \in Nat
    BY <1>3, ListType
  <2> QED
    BY <2>1, <2>2, <2>3, <2>4
<1> DEFINE logs2 == canisters'[c].logs
           sd    == canisters[c]
<1>8. /\ canisters' = [d \in DOMAIN canisters |-> canisters'[d]]
      /\ DOMAIN canisters' = DOMAIN canisters
      /\ \A d \in DOMAIN canisters : d # c => canisters'[d] = canisters[d]
      /\ canisters'[c] = [sd EXCEPT !.logs[at].final = TRUE]
  <2>1. c \in DOMAIN canisters
    BY <1>2, <1>6 DEF StorageOK, TrackInv
  <2> HIDE DEF c, at
  <2>2. canisters' = [canisters EXCEPT ![c] = [sd EXCEPT !.logs[at].final = TRUE]]
    BY <1>1
  <2>3. canisters = [d \in DOMAIN canisters |-> canisters[d]]
    BY <1>2 DEF StorageOK, TrackInv
  <2> DEFINE new == [sd EXCEPT !.logs[at].final = TRUE]
  <2>4. canisters' = [canisters EXCEPT ![c] = new]
    BY <2>2
  <2> HIDE DEF new
  <2>5. /\ canisters' = [d \in DOMAIN canisters |-> canisters'[d]]
        /\ DOMAIN canisters' = DOMAIN canisters
        /\ \A d \in DOMAIN canisters : d # c => canisters'[d] = canisters[d]
        /\ canisters'[c] = new
    BY <2>1, <2>3, <2>4
  <2> QED
    BY <2>5 DEF new
<1>9. /\ StorageShape(canisters'[c]) /\ canisters'[c].installed = sd.installed
      /\ canisters'[c].first_log_id = sd.first_log_id
      /\ logs2 = [logs EXCEPT ![at] = [@ EXCEPT !.final = TRUE]]
      /\ logs2 \in Seq(Log) /\ Len(logs2) = Len(logs)
  <2>1. StorageShape(sd)
    BY <1>7 DEF Stores
  <2>2. logs2 = [logs EXCEPT ![at] = [@ EXCEPT !.final = TRUE]]
    <3>1. sd.logs = logs
      OBVIOUS
    <3> HIDE DEF at, sd, logs
    <3>2. canisters'[c].logs = [sd.logs EXCEPT ![at].final = TRUE]
      BY <1>8, <2>1 DEF StorageShape
    <3> QED
      BY <3>1, <3>2
  <2>3. logs2 \in Seq(Log) /\ Len(logs2) = Len(logs)
    <3>1. logs[at] \in Log
      BY <1>7
    <3>2. [logs[at] EXCEPT !.final = TRUE] \in Log
      BY <3>1 DEF Log
    <3> HIDE DEF logs, at, logs2
    <3> QED
      BY <1>7, <2>2, <3>2
  <2> QED
    BY <1>8, <2>1, <2>2, <2>3 DEF StorageShape
<1>10. ASSUME NEW j \in 1 .. Len(logs)
       PROVE  logs2[j] = Marked(logs[j], {id}) /\ logs2[j].id = logs[j].id
  <2>1. logs[j] \in Log /\ logs[j].id = scs[i].first_log_id + j - 1
    BY <1>7 DEF Stores
  <2>2. j = at <=> logs[j].id = id
    <3>1. at = id - scs[i].first_log_id + 1
      BY <1>7
    <3>2. j \in Int /\ id \in Nat /\ scs[i].first_log_id \in Nat
      BY <1>4, <1>7
    <3> HIDE DEF at, logs
    <3> QED
      BY <2>1, <3>1, <3>2
  <2>3. logs2[j] = Marked(logs[j], {id})
    <3>1. CASE j = at
      <4>1. logs2[j] = [logs[j] EXCEPT !.final = TRUE]
        <5> HIDE DEF logs, logs2, at
        <5> QED
          BY <1>7, <1>9, <3>1
      <4>2. Marked(logs[j], {id}) = [logs[j] EXCEPT !.final = TRUE]
        <5>1. logs[j].id \in {id}
          BY <2>2, <3>1
        <5> QED
          BY <2>1, <5>1 DEF Marked, Log
      <4> QED
        BY <4>1, <4>2
    <3>2. CASE j # at
      <4>1. logs2[j] = logs[j]
        <5> HIDE DEF logs, logs2, at
        <5> QED
          BY <1>7, <1>9, <3>2
      <4>2. logs[j].id \notin {id}
        BY <2>2, <3>2
      <4> QED
        BY <2>1, <4>1, <4>2, MarkedLog
    <3> QED
      BY <3>1, <3>2
  <2> HIDE DEF logs, logs2
  <2> QED
    BY <2>1, <2>3, MarkedLog
<1> HIDE DEF logs2, logs, sd, at, c, scs, F
<1>11. ASSUME NEW m \in 1 .. Len(scs), m # i
       PROVE  scs[m].canister_id # c /\ canisters'[scs[m].canister_id] = canisters[scs[m].canister_id]
  <2>1. Len(scs) \in Nat /\ (m < i \/ i < m)
    BY <1>3, <1>11
  <2>2. scs[m].canister_id # scs[i].canister_id
    BY <1>3, <2>1 DEF Ordered
  <2>3. scs[m].canister_id \in DOMAIN canisters
    BY <1>2 DEF StorageOK, TrackInv, Listed, scs
  <2> QED
    BY <1>6, <1>8, <2>2, <2>3
<1>12. Readable(storage_buffer, scs, canisters')
  <2>1. Stores(scs[i], canisters'[c])
    BY <1>7, <1>9, <1>10 DEF Stores, logs, logs2, sd
  <2>2. ASSUME NEW m \in 1 .. Len(scs) PROVE Stores(scs[m], canisters'[scs[m].canister_id])
    BY <1>3, <1>6, <1>11, <2>1 DEF Readable
  <2> QED
    BY <1>3, <2>2 DEF Readable, F
<1>13. StoreInv'
  <2>1. ASSUME NEW m \in 1 .. Len(scs)
        PROVE  /\ InFlight(m)' = InFlight(m)
               /\ Len(canisters'[scs[m].canister_id].logs) = Len(canisters[scs[m].canister_id].logs)
    <3>1. InFlight(m)' = InFlight(m)
      BY <1>1 DEF InFlight
    <3>2. CASE m = i
      BY <1>6, <1>9, <3>1, <3>2 DEF logs, logs2
    <3>3. CASE m # i
      BY <1>11, <3>1, <3>3
    <3> QED
      BY <3>2, <3>3
  <2> QED
    BY <1>1, <1>2, <1>3, <1>12, <2>1 DEF StorageOK, StoreInv, scs
<1>14. TrackInv'
  <2>1. Listed' = Listed /\ Waiting' = Waiting
    BY <1>1 DEF Listed, Waiting
  <2>2. \A d \in Waiting : canisters'[d] = canisters[d]
    BY <1>2, <1>6, <1>8 DEF StorageOK, TrackInv
  <2> QED
    BY <1>2, <1>8, <2>1, <2>2 DEF StorageOK, TrackInv
<1>15. FlushInv'
  BY <1>1, <1>2, QuietFlush
<1>16. LockInv'
  BY <1>1, <1>2 DEF StorageOK, LockInv, UpdateStatus
<1>17. LogsMarked({id})
  <2>1. StoredStay(scs, canisters, scs, canisters', {id})
    <3>1. ASSUME NEW m \in 1 .. Len(scs), NEW id2 \in Nat, Has(scs[m], id2)
          PROVE  LET n == id2 - scs[m].first_log_id + 1
                     d == scs[m].canister_id
                 IN canisters'[d].logs[n] = Marked(canisters[d].logs[n], {id})
      <4> DEFINE n == id2 - scs[m].first_log_id + 1
                 d == scs[m].canister_id
                 log == canisters[d].logs[n]
      <4>1. n \in 1 .. Len(canisters[d].logs)
        BY <1>3, <3>1, StoredLogs
      <4>2. CASE m = i
        <5>1. d = c
          BY <1>6, <4>2
        <5> HIDE DEF n, d
        <5>2. n \in 1 .. Len(logs)
          BY <4>1, <5>1 DEF logs
        <5>3. logs2[n] = Marked(logs[n], {id})
          BY <1>10, <5>2
        <5>4. canisters'[d].logs[n] = Marked(canisters[d].logs[n], {id})
          BY <5>1, <5>3 DEF logs, logs2
        <5> QED
          BY <5>4 DEF n, d
      <4>3. CASE m # i
        <5>1. id2 # id
          BY <1>3, <1>5, <1>6, <1>11, <3>1, <4>3, Places
        <5>2. log \in Log
          BY <1>3, <3>1, StoredLogs
        <5>3. log.id = id2
          <6>1. Stores(scs[m], canisters[d]) /\ scs[m].first_log_id \in Nat
            BY <1>3, ListType DEF Readable
          <6>2. log.id = scs[m].first_log_id + n - 1
            <7> HIDE DEF n, d
            <7> QED
              BY <4>1, <6>1 DEF Stores
          <6> QED
            BY <6>1, <6>2
        <5>4. canisters'[d].logs[n] = log
          BY <1>11, <4>3
        <5> HIDE DEF log
        <5>5. Marked(log, {id}) = log
          BY <5>1, <5>2, <5>3, MarkedLog
        <5> QED
          BY <5>4, <5>5 DEF log
      <4> QED
        BY <4>2, <4>3
    <3> QED
      BY <3>1 DEF StoredStay
  <2>2. BufferedStay(storage_buffer, scs, storage_buffer, scs, canisters', {id})
    <3>1. ASSUME NEW id2 \in Nat, id2 >= FirstUnflushed(scs),
                 id2 < FirstUnflushed(scs) + Len(storage_buffer)
          PROVE  LET log == storage_buffer[id2 - FirstUnflushed(scs) + 1]
                 IN log = Marked(log, {id})
      <4> DEFINE n == id2 - FirstUnflushed(scs) + 1
      <4>1. n \in 1 .. Len(storage_buffer) /\ storage_buffer[n] \in Log
        BY <1>3, <3>1, BufferedLogs
      <4>2. storage_buffer[n].id = FirstUnflushed(scs) + n - 1
        <5> HIDE DEF n
        <5> QED
          BY <1>3, <4>1 DEF Buffers, F
      <4>3. storage_buffer[n].id = id2 /\ id2 # id
        BY <1>3, <1>4, <3>1, <4>2 DEF F
      <4> HIDE DEF n
      <4> QED
        BY <4>1, <4>3, MarkedLog DEF n
    <3> QED
      BY <3>1 DEF BufferedStay
  <2>3. \A id2 \in Nat : id2 < FirstUnflushed(scs) + Len(storage_buffer) =>
          Found(storage_buffer, scs, canisters', id2) = Marked(Found(storage_buffer, scs, canisters, id2), {id})
    <3>1. FirstUnflushed(scs) + Len(storage_buffer) >= FirstUnflushed(scs) + Len(storage_buffer)
      BY <1>3 DEF F
    <3> QED
      BY <1>3, <1>12, <2>1, <2>2, <3>1, FoundStep
  <2> QED
    BY <1>1, <1>3, <2>3, FoundLogAt DEF LogsMarked, scs, F
<1>18. FinalInv'
  <2>1. log_count' \in Nat /\ log_count' >= log_count
    BY <1>1, <1>3
  <2>2. ASSUME NEW i2 \in DOMAIN updates', updates'[i2] \in {"stored", "ok"}
        PROVE  /\ i2 \in Nat /\ i2 < log_count
               /\ i2 \in {id} \/ (i2 \in DOMAIN updates /\ updates[i2] \in {"stored", "ok"})
    BY <1>1, <1>2, <2>2 DEF StorageOK, LockInv
  <2> QED
    BY <1>1, <1>2, <1>3, <1>17, <2>1, <2>2, FinalStep DEF StorageOK
<1>19. id \in 0 .. log_count - 1
  BY <1>3, <1>4
<1> QED
  BY <1>13, <1>14, <1>15, <1>16, <1>17, <1>18, <1>19 DEF IInv, StorageOK

----------------------------------------------------------------------------
(* Every step *)

LEMMA QuietFinal ==
  ASSUME IInv, StorageOK', LogsMarked({}), UNCHANGED <<updates, updated>>,
         log_count' >= log_count
  PROVE  IInv'
<1>1. /\ StoreInv /\ FinalInv /\ log_count \in Nat /\ log_count' \in Nat
      /\ \A id \in DOMAIN updates : id \in Nat /\ id < log_count
      /\ \A id \in updated : id \in Nat /\ id < log_count
  BY DEF IInv, StorageOK, StoreInv, LockInv, FinalInv
<1>2. FinalInv'
  BY <1>1, FinalStep
<1> QED
  BY <1>2 DEF IInv

LEMMA UpdateFailsFinal ==
  ASSUME IInv, NEW id \in DOMAIN updates, UpdateFails(id)
  PROVE  IInv' /\ LogsMarked({})
<1>1. StorageOK' /\ LogsMarked({})
  BY UpdateFailsOK DEF IInv
<1>2. /\ StoreInv /\ FinalInv /\ log_count \in Nat
      /\ \A i \in DOMAIN updates : i \in Nat /\ i < log_count
  BY DEF IInv, StorageOK, StoreInv, LockInv
<1>3. updates' = [updates EXCEPT ![id] = "failed"] /\ UNCHANGED <<updated, log_count>>
  BY DEF UpdateFails, boundVars
<1>4. \A i \in DOMAIN updates' : updates'[i] \in {"stored", "ok"} =>
        i \in Nat /\ i < log_count /\ i \in DOMAIN updates /\ updates[i] \in {"stored", "ok"}
  BY <1>2, <1>3
<1>5. FinalInv'
  BY <1>1, <1>2, <1>3, <1>4, FinalStep
<1> QED
  BY <1>1, <1>5 DEF IInv

(* A step makes the next log, or makes some logs final.                    *)
NextLog ==
  /\ log_count' = log_count + 1 /\ LogsMarked({})
  /\ \E k \in Key : \A id \in Nat : id = log_count => LogAt(id)' = NewLog(id, k)
MarkLogs ==
  /\ log_count' = log_count
  /\ \E ids \in SUBSET (0 .. log_count - 1) : LogsMarked(ids)

(* The invariant is inductive.                                             *)
LEMMA StepOK ==
  ASSUME IInv, [Next]_vars
  PROVE  IInv' /\ (NextLog \/ MarkLogs)
<1>1. StorageOK /\ log_count \in Nat
  BY DEF IInv, StorageOK, StoreInv
<1>2. ASSUME StorageOK', LogsMarked({}), UNCHANGED <<updates, updated, log_count>>
      PROVE  IInv' /\ MarkLogs
  BY <1>1, <1>2, QuietFinal DEF MarkLogs
<1>3. ASSUME NEW k \in Key, AppendLog(k) PROVE IInv' /\ NextLog
  <2>1. log_count' = log_count + 1 /\ UNCHANGED <<updates, updated>>
    BY <1>3 DEF AppendLog
  <2>2. StorageOK' /\ LogsMarked({}) /\ \A id \in Nat : id = log_count => LogAt(id)' = NewLog(id, k)
    BY <1>1, <1>3, AppendLogOK
  <2>3. log_count' >= log_count
    BY <1>1, <2>1
  <2> QED
    BY <2>1, <2>2, <2>3, QuietFinal DEF NextLog
<1>4. CASE FlushLogs
  <2>1. UNCHANGED <<updates, updated, log_count>>
    BY <1>4 DEF FlushLogs, boundVars
  <2> QED
    BY <1>1, <1>2, <1>4, <2>1, FlushLogsOK
<1>5. ASSUME NEW c \in Canister, CreateCanister(c) PROVE IInv' /\ MarkLogs
  <2>1. UNCHANGED <<updates, updated, log_count>>
    BY <1>5 DEF CreateCanister, boundVars
  <2> QED
    BY <1>1, <1>2, <1>5, <2>1, CreateCanisterOK
<1>6. CASE InstallCode
  <2>1. UNCHANGED <<updates, updated, log_count>>
    BY <1>6 DEF InstallCode, boundVars
  <2> QED
    BY <1>1, <1>2, <1>6, <2>1, InstallCodeOK
<1>7. CASE FlushCallFails \/ StorageIsFull
  <2>1. UNCHANGED <<updates, updated, log_count>>
    BY <1>7 DEF FlushCallFails, StorageIsFull, boundVars
  <2> QED
    BY <1>1, <1>2, <1>7, <2>1, FlushCallFailsOK
<1>8. CASE StorageFlush
  <2>1. UNCHANGED <<updates, updated, log_count>>
    BY <1>8 DEF StorageFlush, boundVars
  <2> QED
    BY <1>1, <1>2, <1>8, <2>1, StorageFlushOK
<1>9. ASSUME NEW id \in DOMAIN updates, CmUpdateLog(id) PROVE IInv' /\ MarkLogs
  <2>1. IInv' /\ LogsMarked({id}) /\ {id} \in SUBSET (0 .. log_count - 1)
    BY <1>9, CmUpdateLogOK
  <2>2. log_count' = log_count
    BY <1>9 DEF CmUpdateLog, boundVars
  <2> QED
    BY <2>1, <2>2 DEF MarkLogs
<1>10. ASSUME NEW id \in DOMAIN updates, UpdateFails(id) PROVE IInv' /\ MarkLogs
  <2>1. IInv' /\ LogsMarked({})
    BY <1>10, UpdateFailsFinal
  <2>2. log_count' = log_count
    BY <1>10 DEF UpdateFails, boundVars
  <2> QED
    BY <2>1, <2>2 DEF MarkLogs
<1>11. CASE CreateReturns
  <2>1. UNCHANGED <<updates, updated, log_count>>
    BY <1>11 DEF CreateReturns, boundVars
  <2> QED
    BY <1>1, <1>2, <1>11, <2>1, CreateReturnsOK
<1>12. CASE InstallReturns
  <2>1. UNCHANGED <<updates, updated, log_count>>
    BY <1>12 DEF InstallReturns, boundVars
  <2> QED
    BY <1>1, <1>2, <1>12, <2>1, InstallReturnsOK
<1>13. CASE FlushReturns
  <2>1. UNCHANGED <<updates, updated, log_count>>
    BY <1>13 DEF FlushReturns, boundVars
  <2> QED
    BY <1>1, <1>2, <1>13, <2>1, FlushReturnsOK
<1>14. ASSUME NEW id \in DOMAIN updates, UpdateReturns(id) PROVE IInv' /\ MarkLogs
  <2>1. IInv' /\ LogsMarked({})
    BY <1>14, UpdateReturnsOK
  <2>2. log_count' = log_count
    BY <1>14 DEF UpdateReturns, boundVars
  <2> QED
    BY <2>1, <2>2 DEF MarkLogs
<1>15. ASSUME NEW ids \in SUBSET (0 .. log_count - 1), StartUpdates(ids) PROVE IInv' /\ MarkLogs
  <2>1. log_count' = log_count
    BY <1>15 DEF StartUpdates, boundVars
  <2> QED
    BY <1>15, <2>1, StartUpdatesOK DEF MarkLogs
<1>16. ASSUME NEW c \in DOMAIN canisters, ControllerMarkFull(c) PROVE IInv' /\ MarkLogs
  <2>1. UNCHANGED <<updates, updated, log_count>>
    BY <1>16 DEF ControllerMarkFull
  <2> QED
    BY <1>1, <1>2, <1>16, <2>1, ControllerMarkFullOK
<1>17. CASE UNCHANGED vars
  <2>1. UNCHANGED <<updates, updated, log_count>>
    BY <1>17 DEF vars, boundVars
  <2> QED
    BY <1>1, <1>2, <1>17, <2>1, StutterOK
<1> QED
  BY <1>3, <1>4, <1>5, <1>6, <1>7, <1>8, <1>9, <1>10, <1>11, <1>12, <1>13, <1>14, <1>15, <1>16, <1>17
     DEF Next, Callee, Returns

(* Whatever calls of flush_logs and of do_update_storage_position fail, in *)
(* whatever order the answers come: the canisters have the logs the        *)
(* contract knows of, the chunk that is sent is at the head of the buffer, *)
(* one lock is held for a flush or for updates, and what was recorded as   *)
(* final is final.                                                         *)
THEOREM LogStorageInvariant == Spec => []IInv
<1>1. IInv /\ [Next]_vars => IInv'
  BY StepOK
<1> QED
  BY InitOK, <1>1, PTL DEF Spec

(* A payout step marked as recorded in the log of its position has a final *)
(* log, on whichever canister or in the buffer it is found: no flush       *)
(* writes over an update (flush_logs, do_update_storage_position).         *)
THEOREM UpdatesAreKept == Spec => []UpdatesKept
<1>1. IInv => UpdatesKept
  <2> SUFFICES ASSUME IInv, NEW id \in updated
               PROVE  \E k \in Key : LogAt(id) = [NewLog(id, k) EXCEPT !.final = TRUE]
    BY DEF UpdatesKept
  <2>1. StoreInv /\ id \in Nat /\ id < log_count /\ LogAt(id).final
    BY DEF IInv, StorageOK, FinalInv
  <2> DEFINE log == LogAt(id)
  <2>2. log \in Log /\ log.id = id /\ log.final
    BY <2>1, LogAtLog
  <2> HIDE DEF log
  <2>3. log.key \in Key /\ log = [NewLog(id, log.key) EXCEPT !.final = TRUE]
    BY <2>2 DEF Log, NewLog
  <2> QED
    BY <2>3 DEF log
<1> QED
  BY <1>1, LogStorageInvariant, PTL

(* The logs that are found by id, over the storage canisters and the       *)
(* buffer of the contract, behave as the one growing log of StoredLog.     *)
THEOREM StorageIsALog == Spec => LogsKept
<1> DEFINE logs == [i \in 1 .. log_count |-> LogAt(i - 1)]
<1>1. Init => Kept!Init
  BY DEF Init, Kept!Init
<1>2. ASSUME IInv, [Next]_vars PROVE Kept!Next
  <2>1. StoreInv /\ log_count \in Nat
    BY <1>2 DEF IInv, StorageOK, StoreInv
  <2>2. logs \in Seq(Log) /\ Len(logs) = log_count /\ \A i \in 1 .. log_count : logs[i].id = i - 1
    <3>1. \A i \in 1 .. log_count : LogAt(i - 1) \in Log /\ LogAt(i - 1).id = i - 1
      BY <2>1, LogAtLog
    <3> QED
      BY <2>1, <3>1
  <2>3. CASE NextLog
    <3>1. PICK k \in Key : \A id \in Nat : id = log_count => LogAt(id)' = NewLog(id, k)
      BY <2>3 DEF NextLog
    <3>2. log_count' = log_count + 1 /\ LogsMarked({})
      BY <2>3 DEF NextLog
    <3>3. logs' = Append(logs, NewLog(log_count, k))
      <4> DEFINE new == NewLog(log_count, k)
                 logs2 == [i \in 1 .. log_count + 1 |-> LogAt(i - 1)']
      <4>1. new \in Log
        BY <2>1 DEF NewLog, Log
      <4>2. logs' = logs2
        BY <3>2
      <4>3. \A i \in 1 .. log_count : LogAt(i - 1)' = logs[i]
        <5> SUFFICES ASSUME NEW i \in 1 .. log_count PROVE LogAt(i - 1)' = logs[i]
          OBVIOUS
        <5> DEFINE id == i - 1
        <5>1. id \in Nat /\ id < log_count
          BY <2>1
        <5>2. LogAt(id) \in Log /\ LogAt(id)' = Marked(LogAt(id), {})
          BY <2>1, <3>2, <5>1, LogAtLog DEF LogsMarked
        <5>3. Marked(LogAt(id), {}) = LogAt(id)
          BY <5>2, MarkedLog
        <5> QED
          BY <5>2, <5>3
      <4>4. \A i \in 1 .. log_count + 1 : i = log_count + 1 => LogAt(i - 1)' = new
        <5> SUFFICES ASSUME NEW i \in 1 .. log_count + 1, i = log_count + 1
                     PROVE  LogAt(i - 1)' = NewLog(log_count, k)
          OBVIOUS
        <5> DEFINE id == i - 1
        <5>1. id \in Nat /\ id = log_count
          BY <2>1
        <5> HIDE DEF id
        <5>2. LogAt(id)' = NewLog(log_count, k)
          BY <3>1, <5>1
        <5> QED
          BY <5>2 DEF id
      <4> HIDE DEF new, logs
      <4>5. \A i \in 1 .. log_count + 1 :
              logs2[i] = IF i <= log_count THEN logs[i] ELSE new
        <5> SUFFICES ASSUME NEW i \in 1 .. log_count + 1
                     PROVE  LogAt(i - 1)' = IF i <= log_count THEN logs[i] ELSE new
          OBVIOUS
        <5> QED
          BY <2>1, <4>3, <4>4
      <4>6. logs2 \in [1 .. log_count + 1 -> Log]
        <5>1. \A i \in 1 .. log_count + 1 : logs2[i] \in Log
          <6> HIDE DEF logs2
          <6> QED
            BY <2>1, <2>2, <4>1, <4>5
        <5> QED
          BY <5>1
      <4> HIDE DEF logs2
      <4>7. logs2 \in Seq(Log) /\ Len(logs2) = log_count + 1
        BY <2>1, <4>6
      <4>8. Append(logs, new) \in Seq(Log) /\ Len(Append(logs, new)) = log_count + 1
        BY <2>2, <4>1, AppendProperties
      <4>9. \A i \in 1 .. log_count + 1 : Append(logs, new)[i] = IF i <= log_count THEN logs[i] ELSE new
        BY <2>1, <2>2, <4>1, AppendProperties
      <4>10. logs2 = Append(logs, new)
        BY <4>5, <4>7, <4>8, <4>9, SeqEqual
      <4> QED
        BY <4>2, <4>10 DEF new, logs
    <3> QED
      BY <2>2, <3>3 DEF Kept!Next, Kept!AppendLog, Kept!NewLog, NewLog
  <2>4. CASE MarkLogs
    <3>1. PICK ids \in SUBSET (0 .. log_count - 1) : LogsMarked(ids)
      BY <2>4 DEF MarkLogs
    <3>2. log_count' = log_count
      BY <2>4 DEF MarkLogs
    <3>3. logs' = [i \in 1 .. Len(logs) |-> [logs[i] EXCEPT !.final = @ \/ logs[i].id \in ids]]
      <4>1. logs' = [i \in 1 .. log_count |-> LogAt(i - 1)']
        BY <3>2
      <4>2. ASSUME NEW i \in 1 .. log_count
            PROVE  LogAt(i - 1)' = [logs[i] EXCEPT !.final = @ \/ logs[i].id \in ids]
        <5>1. i - 1 \in Nat /\ i - 1 < log_count
          BY <2>1
        <5>2. LogAt(i - 1)' = Marked(LogAt(i - 1), ids)
          BY <3>1, <5>1 DEF LogsMarked
        <5>3. logs[i] = LogAt(i - 1)
          OBVIOUS
        <5> QED
          BY <5>2, <5>3 DEF Marked
      <4> QED
        BY <2>2, <4>1, <4>2
    <3> QED
      BY <2>2, <3>1, <3>3 DEF Kept!Next, Kept!Finalize
  <2> QED
    BY <1>2, <2>3, <2>4, StepOK
<1>3. Kept!Spec <=> Kept!Init /\ [][Kept!Next]_logs
  BY DEF Kept!Spec
<1> QED
  BY <1>1, <1>2, <1>3, LogStorageInvariant, PTL DEF Spec, LogsKept, Kept!Spec

(* No canister is created in vain, whichever call of a flush fails: each   *)
(* is once on the list, or is the one that waits to be installed           *)
(* (create_storage_canister, create_storage_canister_temp_holder).         *)
THEOREM CanistersAreTracked == Spec => []CanistersTracked
<1>1. IInv => CanistersTracked
  <2> SUFFICES ASSUME IInv PROVE CanistersTracked
    OBVIOUS
  <2> DEFINE scs == storage_canisters
             ids == 1 .. Len(scs)
             f   == [i \in ids |-> scs[i].canister_id]
  <2>1. Ordered(scs) /\ Len(scs) \in Nat
    BY DEF IInv, StorageOK, StoreInv, Readable, Ordered
  <2>2. f \in Bijection(ids, Listed)
    <3>1. f \in [ids -> Listed]
      BY DEF Listed
    <3>2. ASSUME NEW i \in ids, NEW j \in ids, i # j PROVE f[i] # f[j]
      <4>1. i < j \/ j < i
        BY <2>1, <3>2
      <4> QED
        BY <2>1, <4>1 DEF Ordered
    <3>3. \A c \in Listed : \E i \in ids : f[i] = c
      BY DEF Listed
    <3> HIDE DEF f, ids
    <3>4. f \in Injection(ids, Listed)
      <4>1. IsInjective(f)
        BY <3>1, <3>2 DEF IsInjective
      <4> QED
        BY <3>1, <4>1 DEF Injection
    <3>5. f \in Surjection(ids, Listed)
      BY <3>1, <3>3 DEF Surjection
    <3> QED
      BY <3>4, <3>5 DEF Bijection
  <2>3. Cardinality(Listed) = Len(scs)
    <3>1. IsFiniteSet(ids) /\ Cardinality(ids) = Len(scs)
      BY <2>1, FS_Interval, SMTT(30)
    <3>2. ExistsBijection(ids, Listed)
      BY <2>2 DEF ExistsBijection
    <3> QED
      BY <3>1, <3>2, FS_Bijection
  <2>4. DOMAIN canisters = Listed \cup Waiting /\ Listed \cap Waiting = {}
        /\ \A c, d \in Waiting : c = d
    BY DEF IInv, StorageOK, TrackInv
  <2>5. Cardinality(Waiting) <= 1
    <3>1. CASE Waiting = {}
      BY <3>1, FS_EmptySet
    <3>2. CASE Waiting # {}
      <4>1. PICK c \in Waiting : TRUE
        BY <3>2
      <4>2. Waiting = {c}
        BY <2>4, <4>1
      <4> QED
        BY <4>2, FS_Singleton
    <3> QED
      BY <3>1, <3>2
  <2> QED
    BY <2>3, <2>4, <2>5 DEF CanistersTracked, Listed, Waiting
<1> QED
  BY <1>1, LogStorageInvariant, PTL

(* The ids of a canister begin where those of the one before end.          *)
LEMMA IdsGoOn ==
  ASSUME NEW scs, Ordered(scs), NEW i \in 1 .. Len(scs)
  PROVE  scs[i].first_log_id = FirstUnflushed(SubSeq(scs, 1, i - 1))
<1> DEFINE F == FirstUnflushed(scs)
<1>1. scs \in Seq(StorageCanisterData) /\ Len(scs) \in Nat /\ F \in Nat
  BY UnflushedLast DEF Ordered
<1>2. \A j \in 1 .. Len(scs) : /\ scs[j].first_log_id \in Nat /\ End(scs[j]) \in Nat
                               /\ scs[j].first_log_id <= End(scs[j]) /\ End(scs[j]) <= F
  <2> SUFFICES ASSUME NEW j \in 1 .. Len(scs)
               PROVE  /\ scs[j].first_log_id \in Nat /\ End(scs[j]) \in Nat
                      /\ scs[j].first_log_id <= End(scs[j]) /\ End(scs[j]) <= F
    OBVIOUS
  <2>1. scs[j].first_log_id \in Nat /\ scs[j].length \in Nat /\ End(scs[j]) <= F
    BY <1>1, ListType, UnflushedLast
  <2> QED
    BY <2>1 DEF End
<1> HIDE DEF F
<1>3. ASSUME NEW id \in Nat, id < scs[i].first_log_id
      PROVE  \E j \in 1 .. Len(scs) : j < i /\ id < End(scs[j])
  <2>1. id < F
    <3>1. /\ scs[i].first_log_id \in Nat /\ End(scs[i]) \in Nat
          /\ scs[i].first_log_id <= End(scs[i]) /\ End(scs[i]) <= F
      BY <1>2
    <3> QED
      BY <1>1, <1>3, <3>1
  <2>2. PICK j \in 1 .. Len(scs) : Has(scs[j], id)
    BY <2>1 DEF Ordered, F
  <2>3. j # i /\ ~(i < j)
    <3>1. scs[j].first_log_id <= id
      BY <2>2 DEF Has
    <3>2. CASE i < j
      <4>1. End(scs[i]) <= scs[j].first_log_id
        BY <3>2 DEF Ordered
      <4> QED
        BY <1>2, <1>3, <3>1, <4>1
    <3> QED
      BY <1>2, <1>3, <3>1, <3>2
  <2>4. j < i /\ id < End(scs[j])
    BY <1>1, <2>2, <2>3 DEF Has
  <2> QED
    BY <2>4
<1>4. CASE i = 1
  <2>1. SubSeq(scs, 1, i - 1) = <<>>
    BY <1>1, <1>4, SubSeqEmpty
  <2>2. ~(0 < scs[i].first_log_id)
    BY <1>1, <1>3, <1>4
  <2>3. scs[i].first_log_id = 0
    BY <1>2, <2>2
  <2> QED
    BY <2>1, <2>3 DEF FirstUnflushed
<1>5. CASE i # 1
  <2> DEFINE p    == i - 1
             prev == SubSeq(scs, 1, p)
  <2>1. p \in 1 .. Len(scs) /\ p < i /\ p \in 1 .. p
    BY <1>1, <1>5
  <2>2. prev \in Seq(StorageCanisterData) /\ Len(prev) = p /\ prev[p] = scs[p]
    BY <1>1, <2>1, SubSeqProperties
  <2> HIDE DEF p, prev
  <2>3. FirstUnflushed(prev) = End(scs[p])
    BY <2>1, <2>2 DEF FirstUnflushed, End
  <2>4. End(scs[p]) <= scs[i].first_log_id
    BY <2>1 DEF Ordered
  <2>5. ASSUME End(scs[p]) < scs[i].first_log_id PROVE FALSE
    <3>1. PICK j \in 1 .. Len(scs) : j < i /\ End(scs[p]) < End(scs[j])
      BY <1>2, <1>3, <2>1, <2>5
    <3>2. j = p \/ j < p
      BY <1>1, <3>1 DEF p
    <3>3. j < p => End(scs[j]) <= scs[p].first_log_id
      BY <2>1 DEF Ordered
    <3> QED
      BY <1>2, <2>1, <3>1, <3>2, <3>3
  <2>6. scs[i].first_log_id = End(scs[p])
    BY <1>2, <2>1, <2>4, <2>5
  <2> QED
    BY <2>3, <2>6 DEF p, prev
<1> QED
  BY <1>4, <1>5

(* Whatever is lost, fails or overlaps, the list of a contract says which  *)
(* ids its canisters have, but for a chunk whose answer is on the way      *)
(* (StorageCanisterData of the contract, Data of cm_storage_lib).          *)
THEOREM RecordsAreTrue == Spec => []RecordsMatchCanisters
<1>1. IInv => RecordsMatchCanisters
  <2> SUFFICES ASSUME IInv, NEW i \in 1 .. Len(storage_canisters)
               PROVE  LET sc == storage_canisters[i]
                          sd == canisters[sc.canister_id]
                      IN /\ sc.first_log_id = FirstUnflushed(SubSeq(storage_canisters, 1, i - 1))
                         /\ i < Len(storage_canisters) => sc.is_full
                         /\ sd.installed
                         /\ Len(sd.logs) = sc.length + InFlight(i)
                         /\ Len(sd.logs) <= Capacity
                         /\ \A j \in 1 .. Len(sd.logs) : sd.logs[j].id = sc.first_log_id + j - 1
                         /\ sd.logs # <<>> => sd.first_log_id = sc.first_log_id
    BY DEF RecordsMatchCanisters
  <2>1. StoreInv /\ Ordered(storage_canisters)
    BY DEF IInv, StorageOK, StoreInv, Readable
  <2>2. storage_canisters[i].first_log_id = FirstUnflushed(SubSeq(storage_canisters, 1, i - 1))
    BY <2>1, IdsGoOn
  <2>3. Stores(storage_canisters[i], canisters[storage_canisters[i].canister_id])
    BY <2>1 DEF StoreInv, Readable
  <2> QED
    BY <2>1, <2>2, <2>3 DEF StoreInv, Stores
<1> QED
  BY <1>1, LogStorageInvariant, PTL

----------------------------------------------------------------------------
(* The index of a storage canister: the loop over the logs of a flush. *)

IdStep(ids, log, k) == IF log.key = k THEN Append(ids, log.id) ELSE ids

(* f has the ids of the first logs, for up to n of them. *)
IsIds(f, bytes, k, n) ==
  f = [i \in 0 .. n |-> IF i = 0 THEN <<>> ELSE IdStep(f[i - 1], bytes[i], k)]
Ids(bytes, k) == CHOOSE f : IsIds(f, bytes, k, Len(bytes))

LEMMA WithKeyIsIds ==
  ASSUME NEW bytes, NEW k
  PROVE  IdsWithKey(bytes, k) = Ids(bytes, k)[Len(bytes)]
BY DEF IdsWithKey, Ids, IsIds, IdStep

LEMMA IdsOneMore ==
  ASSUME NEW bytes, NEW k, NEW n \in Nat, NEW f, IsIds(f, bytes, k, n)
  PROVE  \E g : IsIds(g, bytes, k, n + 1)
<1> DEFINE g == [i \in 0 .. n + 1 |-> IF i = n + 1 THEN IdStep(f[n], bytes[i], k) ELSE f[i]]
<1>1. \A i \in 0 .. n : f[i] = IF i = 0 THEN <<>> ELSE IdStep(f[i - 1], bytes[i], k)
  BY DEF IsIds
<1>2. \A i \in 0 .. n : g[i] = f[i]
  OBVIOUS
<1>3. \A i \in 0 .. n + 1 : g[i] = IF i = 0 THEN <<>> ELSE IdStep(g[i - 1], bytes[i], k)
  <2> TAKE i \in 0 .. n + 1
  <2>1. CASE i = n + 1
    <3>1. g[i] = IdStep(f[n], bytes[i], k) /\ i # 0 /\ i - 1 = n
      BY <2>1
    <3>2. g[i - 1] = f[n]
      BY <1>2, <3>1
    <3> QED
      BY <3>1, <3>2
  <2>2. CASE i # n + 1
    <3>1. i \in 0 .. n /\ g[i] = f[i] /\ (i # 0 => i - 1 \in 0 .. n)
      BY <2>2
    <3>2. i # 0 => g[i - 1] = f[i - 1]
      BY <1>2, <3>1
    <3> HIDE DEF g
    <3> QED
      BY <1>1, <3>1, <3>2
  <2> QED
    BY <2>1, <2>2
<1>4. g = [i \in 0 .. n + 1 |-> g[i]]
  OBVIOUS
<1> HIDE DEF g
<1> QED
  BY <1>3, <1>4 DEF IsIds

LEMMA IdsExist ==
  ASSUME NEW bytes, NEW k
  PROVE  \A n \in Nat : \E f : IsIds(f, bytes, k, n)
<1> DEFINE T == {n \in Nat : ~ \E f : IsIds(f, bytes, k, n)}
<1>1. 0 \notin T
  <2>1. IsIds([i \in {0} |-> <<>>], bytes, k, 0)
    BY DEF IsIds
  <2> QED
    BY <2>1
<1>2. ASSUME T # {} PROVE FALSE
  <2>1. PICK m \in T : \A n \in T : m <= n
    <3>1. T \subseteq Nat
      OBVIOUS
    <3> HIDE DEF T
    <3> QED
      BY <3>1, <1>2, LeastNat
  <2>2. m - 1 \in Nat /\ m - 1 \notin T /\ (m - 1) + 1 = m
    BY <1>1, <2>1
  <2> QED
    BY <2>1, <2>2, IdsOneMore
<1> QED
  BY <1>2

LEMMA IdsAre ==
  ASSUME NEW bytes, NEW k, Len(bytes) \in Nat
  PROVE  /\ Ids(bytes, k)[0] = <<>>
         /\ \A i \in 1 .. Len(bytes) :
              Ids(bytes, k)[i] = IdStep(Ids(bytes, k)[i - 1], bytes[i], k)
<1> DEFINE r == Ids(bytes, k)
<1>1. IsIds(r, bytes, k, Len(bytes))
  BY IdsExist DEF Ids
<1> HIDE DEF r
<1>2. \A i \in 0 .. Len(bytes) : r[i] = IF i = 0 THEN <<>> ELSE IdStep(r[i - 1], bytes[i], k)
  BY <1>1 DEF IsIds
<1>3. r[0] = <<>>
  BY <1>2
<1>4. \A i \in 1 .. Len(bytes) : r[i] = IdStep(r[i - 1], bytes[i], k)
  BY <1>2
<1> QED
  BY <1>3, <1>4 DEF r

LEMMA IdsType ==
  ASSUME NEW bytes \in Seq(Log), NEW k
  PROVE  /\ \A i \in 0 .. Len(bytes) : Ids(bytes, k)[i] \in Seq(Nat)
         /\ IdsWithKey(bytes, k) \in Seq(Nat)
<1> DEFINE r == Ids(bytes, k)
           T == {i \in 0 .. Len(bytes) : r[i] \notin Seq(Nat)}
<1>0. Len(bytes) \in Nat
  OBVIOUS
<1>1. r[0] = <<>> /\ \A i \in 1 .. Len(bytes) : r[i] = IdStep(r[i - 1], bytes[i], k)
  BY <1>0, IdsAre
<1>2. ASSUME T # {} PROVE FALSE
  <2> HIDE DEF r
  <2>1. PICK m \in T : \A n \in T : m <= n
    <3>1. T \subseteq Nat
      OBVIOUS
    <3> HIDE DEF T
    <3> QED
      BY <3>1, <1>2, LeastNat
  <2>2. m # 0
    <3>1. r[0] \in Seq(Nat)
      BY <1>1
    <3> QED
      BY <3>1, <2>1
  <2>3. m - 1 \notin T /\ m - 1 \in 0 .. Len(bytes) /\ m \in 1 .. Len(bytes)
    BY <1>0, <2>1, <2>2
  <2>4. r[m - 1] \in Seq(Nat) /\ bytes[m].id \in Nat
    <3>1. bytes[m] \in Log
      BY <2>3
    <3> QED
      BY <2>3, <3>1 DEF Log
  <2>5. r[m] = IdStep(r[m - 1], bytes[m], k)
    BY <1>1, <2>3
  <2>6. r[m] \in Seq(Nat)
    BY <2>4, <2>5 DEF IdStep
  <2> QED
    BY <2>6, <2>1
<1>3. \A i \in 0 .. Len(bytes) : r[i] \in Seq(Nat)
  BY <1>2
<1>4. IdsWithKey(bytes, k) = r[Len(bytes)] /\ Len(bytes) \in 0 .. Len(bytes)
  BY <1>0, WithKeyIsIds
<1> HIDE DEF r
<1>5. IdsWithKey(bytes, k) \in Seq(Nat)
  BY <1>3, <1>4
<1> QED
  BY <1>3, <1>5 DEF r

(* Logs with the same keys and ids have the same index. *)
Alike(a, b, n) ==
  /\ n \in Nat /\ Len(a) \in Nat /\ Len(b) \in Nat /\ n <= Len(a) /\ n <= Len(b)
  /\ \A i \in 1 .. n : a[i].key = b[i].key /\ a[i].id = b[i].id

LEMMA IdsSame ==
  ASSUME NEW a, NEW b, NEW k, NEW n, Alike(a, b, n)
  PROVE  Ids(a, k)[n] = Ids(b, k)[n]
<1> DEFINE r == Ids(a, k)
           s == Ids(b, k)
           T == {i \in 0 .. n : r[i] # s[i]}
<1>0. n \in Nat /\ \A i \in 1 .. n : a[i].key = b[i].key /\ a[i].id = b[i].id
  BY DEF Alike
<1>1. r[0] = <<>> /\ \A i \in 1 .. n : r[i] = IdStep(r[i - 1], a[i], k)
  BY IdsAre DEF Alike
<1>2. s[0] = <<>> /\ \A i \in 1 .. n : s[i] = IdStep(s[i - 1], b[i], k)
  BY IdsAre DEF Alike
<1> HIDE DEF r, s
<1>3. ASSUME T # {} PROVE FALSE
  <2>1. PICK m \in T : \A i \in T : m <= i
    <3>1. T \subseteq Nat
      OBVIOUS
    <3> HIDE DEF T
    <3> QED
      BY <3>1, <1>3, LeastNat
  <2>2. m - 1 \notin T /\ m - 1 \in 0 .. n /\ m \in 1 .. n
    BY <1>0, <1>1, <1>2, <2>1
  <2>3. r[m - 1] = s[m - 1] /\ IdStep(s[m - 1], a[m], k) = IdStep(s[m - 1], b[m], k)
    BY <1>0, <2>2 DEF IdStep
  <2>4. r[m] = s[m]
    BY <1>1, <1>2, <2>2, <2>3
  <2> QED
    BY <2>1, <2>4
<1>4. n \in 0 .. n
  BY <1>0
<1> QED
  BY <1>3, <1>4 DEF r, s

LEMMA AllSame ==
  ASSUME NEW a, NEW b, NEW k, Alike(a, b, Len(a)), Len(a) = Len(b)
  PROVE  IdsWithKey(b, k) = IdsWithKey(a, k)
<1> DEFINE n == Len(a)
<1>1. Alike(a, b, n) /\ Len(a) = n /\ Len(b) = n
  OBVIOUS
<1> HIDE DEF n
<1>2. Ids(a, k)[n] = Ids(b, k)[n]
  BY <1>1, IdsSame
<1>3. IdsWithKey(b, k) = Ids(b, k)[n] /\ IdsWithKey(a, k) = Ids(a, k)[n]
  BY <1>1, WithKeyIsIds
<1> QED
  BY <1>2, <1>3

LEMMA JoinAppend ==
  ASSUME NEW S, NEW s \in Seq(S), NEW t \in Seq(S), NEW x \in S
  PROVE  s \o Append(t, x) = Append(s \o t, x)
<1>1. /\ <<x>> \in Seq(S) /\ s \o t \in Seq(S)
      /\ Append(t, x) = t \o <<x>> /\ Append(s \o t, x) = (s \o t) \o <<x>>
  OBVIOUS
<1>2. (s \o t) \o <<x>> = s \o (t \o <<x>>)
  BY <1>1, ConcatAssociative
<1> QED
  BY <1>1, <1>2

(* The index of logs in a row is that of the first and that of the others. *)
LEMMA IdsJoin ==
  ASSUME NEW a \in Seq(Log), NEW b \in Seq(Log), NEW k
  PROVE  IdsWithKey(a \o b, k) = IdsWithKey(a, k) \o IdsWithKey(b, k)
<1> DEFINE c == a \o b
           la == Len(a)
           lb == Len(b)
           r == Ids(c, k)
           s == Ids(b, k)
           first == Ids(a, k)[la]
           T == {j \in 0 .. lb : r[la + j] # first \o s[j]}
<1>1. /\ c \in Seq(Log) /\ la \in Nat /\ lb \in Nat /\ Len(c) = la + lb
      /\ \A i \in 1 .. la : c[i] = a[i]
      /\ \A j \in 1 .. lb : c[la + j] = b[j]
  OBVIOUS
<1> HIDE DEF c
<1>2. \A i \in 1 .. la + lb : r[i] = IdStep(r[i - 1], c[i], k)
  <2>1. Len(c) \in Nat
    BY <1>1
  <2>2. \A i \in 1 .. Len(c) : r[i] = IdStep(r[i - 1], c[i], k)
    <3> HIDE DEF la, lb
    <3> QED
      BY <2>1, IdsAre
  <2> QED
    BY <1>1, <2>2
<1>3. s[0] = <<>> /\ \A j \in 1 .. lb : s[j] = IdStep(s[j - 1], b[j], k)
  BY <1>1, IdsAre
<1>4. r[la] = first
  <2>1. Len(c) \in Nat /\ la <= Len(c)
    BY <1>1
  <2>2. \A i \in 1 .. la : c[i].key = a[i].key /\ c[i].id = a[i].id
    BY <1>1
  <2> DEFINE n == la
  <2>3. /\ n \in Nat /\ Len(a) \in Nat /\ Len(c) \in Nat /\ n <= Len(c) /\ n <= Len(a)
        /\ \A i \in 1 .. n : c[i].key = a[i].key /\ c[i].id = a[i].id
    BY <1>1, <2>1, <2>2
  <2> HIDE DEF n, la
  <2>4. Alike(c, a, n)
    BY <2>3 DEF Alike
  <2>5. Ids(c, k)[n] = Ids(a, k)[n]
    BY <2>4, IdsSame
  <2> QED
    BY <2>5 DEF n, la
<1>5. first \in Seq(Nat) /\ \A j \in 0 .. lb : s[j] \in Seq(Nat)
  <2>1. la \in 0 .. la
    BY <1>1
  <2> QED
    BY <2>1, IdsType
<1>9. \A j \in 1 .. lb : b[j].id \in Nat
  <2> TAKE j \in 1 .. lb
  <2>1. b[j] \in Log
    BY <1>1
  <2> QED
    BY <2>1 DEF Log
<1> HIDE DEF r, s, first, la, lb
<1>6. ASSUME T # {} PROVE FALSE
  <2>1. PICK m \in T : \A i \in T : m <= i
    <3>1. T \subseteq Nat
      OBVIOUS
    <3> HIDE DEF T
    <3> QED
      BY <3>1, <1>6, LeastNat
  <2>2. m # 0
    <3>1. first \o s[0] = first
      BY <1>3, <1>5
    <3>2. la + 0 = la
      BY <1>1
    <3> QED
      BY <1>4, <2>1, <3>1, <3>2
  <2>3. m - 1 \notin T /\ m - 1 \in 0 .. lb /\ m \in 1 .. lb
    <3>1. m \in 0 .. lb /\ lb \in Nat
      BY <1>1
    <3>2. m - 1 \in 0 .. lb /\ m \in 1 .. lb /\ ~(m <= m - 1)
      BY <2>2, <3>1
    <3> HIDE DEF T
    <3> QED
      BY <2>1, <3>2
  <2>4. r[la + (m - 1)] = first \o s[m - 1]
    BY <2>3
  <2>5. la + m \in 1 .. la + lb /\ (la + m) - 1 = la + (m - 1)
    BY <1>1, <2>3
  <2>6. r[la + m] = IdStep(first \o s[m - 1], b[m], k)
    BY <1>1, <1>2, <2>3, <2>4, <2>5
  <2> DEFINE p == s[m - 1]
             x == b[m].id
  <2>7. first \o Append(p, x) = Append(first \o p, x)
    <3>1. p \in Seq(Nat) /\ x \in Nat
      BY <1>5, <1>9, <2>3
    <3> HIDE DEF p, x
    <3>2. first \in Seq(Nat)
      BY <1>5
    <3>3. \A f \in Seq(Nat) : \A t \in Seq(Nat) : \A y \in Nat : f \o Append(t, y) = Append(f \o t, y)
      BY JoinAppend
    <3> QED
      BY <3>1, <3>2, <3>3, Zenon
  <2>8. s[m] = IdStep(p, b[m], k)
    BY <1>3, <2>3
  <2>9. r[la + m] = first \o s[m]
    <3> HIDE DEF T
    <3> QED
      BY <2>6, <2>7, <2>8 DEF IdStep
  <2> QED
    BY <2>1, <2>9
<1>7. r[la + lb] = first \o s[lb]
  <2>1. lb \in 0 .. lb
    BY <1>1
  <2> QED
    BY <1>6, <2>1
<1>8. /\ IdsWithKey(c, k) = r[la + lb] /\ IdsWithKey(b, k) = s[lb]
      /\ IdsWithKey(a, k) = first
  BY <1>1, WithKeyIsIds DEF r, s, first, la, lb
<1> QED
  BY <1>7, <1>8 DEF c

(* What a storage canister keeps is of its type, and its index is that of  *)
(* all the logs it has.                                                    *)
Indexed(sd) ==
  /\ sd.installed \in BOOLEAN /\ sd.mark_full \in BOOLEAN
  /\ sd.index = [k \in Key |-> IdsWithKey(sd.logs, k)]

LEMMA NewIndexed == Indexed(NewStorageData)
<1>1. ASSUME NEW k PROVE IdsWithKey(<<>>, k) = <<>>
  <2> DEFINE none == <<>>
  <2>1. none = <<>> /\ Len(none) = 0
    OBVIOUS
  <2> HIDE DEF none
  <2>2. Ids(none, k)[0] = <<>>
    BY <2>1, IdsAre
  <2>3. IdsWithKey(none, k) = <<>>
    BY <2>1, <2>2, WithKeyIsIds
  <2> QED
    BY <2>1, <2>3
<1> DEFINE sd == NewStorageData
<1>2. /\ sd.installed = FALSE /\ sd.mark_full = FALSE /\ sd.logs = <<>>
      /\ sd.index = [k \in Key |-> <<>>]
  BY DEF NewStorageData
<1> HIDE DEF sd
<1>3. sd.index = [k \in Key |-> IdsWithKey(sd.logs, k)]
  BY <1>1, <1>2
<1> QED
  BY <1>2, <1>3 DEF Indexed, sd

LEMMA StillIndexed ==
  ASSUME NEW sd, Indexed(sd), NEW sd2, sd2.logs = sd.logs, sd2.index = sd.index,
         sd2.installed \in BOOLEAN, sd2.mark_full \in BOOLEAN
  PROVE  Indexed(sd2)
BY DEF Indexed

LEMMA StoredIndexed ==
  ASSUME NEW sd, StorageShape(sd), Indexed(sd), NEW bytes \in Seq(Log)
  PROVE  Indexed(Stored(sd, bytes))
<1> DEFINE sd2 == Stored(sd, bytes)
<1>1. /\ sd = [installed |-> sd.installed, first_log_id |-> sd.first_log_id, logs |-> sd.logs,
               index |-> sd.index, mark_full |-> sd.mark_full]
      /\ sd.logs \in Seq(Log)
  BY DEF StorageShape
<1>2. /\ sd2.logs = sd.logs \o bytes
      /\ sd2.index = [k \in Key |-> sd.index[k] \o IdsWithKey(bytes, k)]
      /\ sd2.installed = sd.installed /\ sd2.mark_full = sd.mark_full
  BY <1>1 DEF Stored
<1> HIDE DEF sd2
<1>3. ASSUME NEW k \in Key
      PROVE  sd.index[k] \o IdsWithKey(bytes, k) = IdsWithKey(sd.logs \o bytes, k)
  <2>1. sd.index[k] = IdsWithKey(sd.logs, k)
    BY DEF Indexed
  <2>2. IdsWithKey(sd.logs \o bytes, k) = IdsWithKey(sd.logs, k) \o IdsWithKey(bytes, k)
    BY <1>1, IdsJoin
  <2> QED
    BY <2>1, <2>2
<1>4. sd2.index = [k \in Key |-> IdsWithKey(sd2.logs, k)]
  <2> DEFINE f == [k \in Key |-> sd.index[k] \o IdsWithKey(bytes, k)]
             g == [k \in Key |-> IdsWithKey(sd.logs \o bytes, k)]
  <2>1. f = g
    BY <1>3
  <2> QED
    BY <1>2, <2>1
<1>5. Indexed(sd2)
  BY <1>2, <1>4 DEF Indexed
<1> QED
  BY <1>5 DEF sd2

LEMMA FinalIndexed ==
  ASSUME NEW sd, StorageShape(sd), Indexed(sd), NEW at \in 1 .. Len(sd.logs),
         NEW sd2, sd2 = [sd EXCEPT !.logs[at].final = TRUE]
  PROVE  Indexed(sd2)
<1> DEFINE log == [sd.logs[at] EXCEPT !.final = TRUE]
<1>1. /\ sd = [installed |-> sd.installed, first_log_id |-> sd.first_log_id, logs |-> sd.logs,
               index |-> sd.index, mark_full |-> sd.mark_full]
      /\ sd.logs \in Seq(Log)
  BY DEF StorageShape
<1>2. /\ sd2.logs = [sd.logs EXCEPT ![at] = log]
      /\ sd2.index = sd.index /\ sd2.installed = sd.installed /\ sd2.mark_full = sd.mark_full
  BY <1>1
<1> DEFINE a == sd.logs
           b == sd2.logs
<1>3. a[at] \in Log /\ log.key = a[at].key /\ log.id = a[at].id
  <2>1. a[at] \in Log
    BY <1>1
  <2> QED
    BY <2>1 DEF Log
<1> HIDE DEF log
<1>4. /\ Len(a) \in Nat /\ Len(b) \in Nat /\ Len(b) = Len(a)
      /\ \A i \in 1 .. Len(a) : a[i].key = b[i].key /\ a[i].id = b[i].id
  <2>1. b = [a EXCEPT ![at] = log] /\ a \in Seq(Log) /\ at \in 1 .. Len(a)
    BY <1>1, <1>2
  <2> HIDE DEF a, b
  <2> QED
    BY <1>3, <2>1
<1>5. ASSUME NEW k \in Key
      PROVE  IdsWithKey(b, k) = IdsWithKey(a, k)
  <2>1. Alike(a, b, Len(a)) /\ Len(a) = Len(b)
    BY <1>4 DEF Alike
  <2> HIDE DEF a, b
  <2> QED
    BY <2>1, AllSame
<1>6. sd2.index = [k \in Key |-> IdsWithKey(b, k)]
  <2>1. sd.index = [k \in Key |-> IdsWithKey(a, k)]
    BY DEF Indexed
  <2> HIDE DEF a, b
  <2> QED
    BY <1>2, <1>5, <2>1
<1> QED
  BY <1>2, <1>6 DEF Indexed

(* All of the types and of the index that IInv does not say.               *)
IndexInv ==
  /\ \A c \in DOMAIN canisters : Indexed(canisters[c])
  /\ log_count <= MaxLogs /\ marks \in 0 .. MaxMarks

LEMMA Shapes ==
  ASSUME IInv, NEW c \in DOMAIN canisters
  PROVE  StorageShape(canisters[c])
BY DEF IInv, StorageOK, TrackInv, Listed, StoreInv, Readable, Stores

LEMMA SameIndex ==
  ASSUME IndexInv, UNCHANGED <<canisters, boundVars>>
  PROVE  IndexInv'
BY DEF IndexInv, boundVars

LEMMA OneIndexed ==
  ASSUME IndexInv, UNCHANGED log_count, marks' \in 0 .. MaxMarks, NEW c, NEW sd,
         c \in DOMAIN canisters => Indexed(sd),
         canisters' = [canisters EXCEPT ![c] = sd]
  PROVE  IndexInv'
<1>1. ASSUME NEW d \in DOMAIN canisters'
      PROVE  Indexed(canisters'[d])
  <2>1. d \in DOMAIN canisters /\ Indexed(canisters[d])
    BY DEF IndexInv
  <2>2. canisters'[d] = IF d = c THEN sd ELSE canisters[d]
    BY <2>1
  <2> QED
    BY <2>1, <2>2
<1> QED
  BY <1>1 DEF IndexInv

LEMMA CmUpdateLogIndexed ==
  ASSUME IInv, IndexInv, NEW id \in DOMAIN updates, CmUpdateLog(id)
  PROVE  IndexInv'
<1> DEFINE c   == CanisterOf(id)
           sd  == canisters[c]
           at  == id - sd.first_log_id + 1
           sd2 == [sd EXCEPT !.logs[at].final = TRUE]
<1>1. /\ canisters' = [canisters EXCEPT ![c].logs[at].final = TRUE]
      /\ sd.first_log_id <= id /\ at <= Len(sd.logs) /\ UNCHANGED boundVars
  BY DEF CmUpdateLog
<1>2. canisters' = [canisters EXCEPT ![c] = sd2]
  <2> HIDE DEF c, at
  <2> QED
    BY <1>1
<1>3. ASSUME c \in DOMAIN canisters PROVE Indexed(sd2)
  <2>1. StorageShape(sd) /\ Indexed(sd)
    BY <1>3, Shapes DEF IndexInv
  <2>2. id \in Nat
    BY DEF IInv, StorageOK, LockInv
  <2>3. sd.first_log_id \in Nat /\ Len(sd.logs) \in Nat
    BY <2>1 DEF StorageShape
  <2>4. at \in 1 .. Len(sd.logs)
    <3> HIDE DEF sd
    <3> QED
      BY <1>1, <2>2, <2>3
  <2> HIDE DEF sd, at
  <2> QED
    BY <2>1, <2>4, FinalIndexed
<1> HIDE DEF sd2, c
<1> QED
  BY <1>1, <1>2, <1>3, OneIndexed DEF boundVars, IndexInv

LEMMA StepIndexed ==
  ASSUME IInv, IndexInv, [Next]_vars
  PROVE  IndexInv'
<1>1. log_count \in Nat /\ MaxLogs \in Nat /\ MaxMarks \in Nat /\ marks \in 0 .. MaxMarks
  BY LogStorageAssumption DEF IInv, StorageOK, StoreInv, IndexInv
<1>2. ASSUME NEW k \in Key, AppendLog(k) PROVE IndexInv'
  BY <1>1, <1>2 DEF AppendLog, IndexInv
<1>3. CASE FlushLogs \/ FlushCallFails \/ StorageIsFull \/ CreateReturns \/ InstallReturns \/ FlushReturns
  BY <1>3, SameIndex DEF FlushLogs, FlushCallFails, StorageIsFull, CreateReturns, InstallReturns,
     FlushReturns
<1>4. ASSUME NEW id, UpdateFails(id) \/ UpdateReturns(id) PROVE IndexInv'
  BY <1>4, SameIndex DEF UpdateFails, UpdateReturns
<1>5. ASSUME NEW ids, StartUpdates(ids) PROVE IndexInv'
  BY <1>5, SameIndex DEF StartUpdates
<1>6. CASE UNCHANGED vars
  BY <1>6, SameIndex DEF vars
<1>7. ASSUME NEW c \in Canister, CreateCanister(c) PROVE IndexInv'
  <2>1. /\ canisters' = [d \in DOMAIN canisters \cup {c} |->
                           IF d = c THEN NewStorageData ELSE canisters[d]]
        /\ UNCHANGED boundVars
    BY <1>7 DEF CreateCanister
  <2>2. ASSUME NEW d \in DOMAIN canisters' PROVE Indexed(canisters'[d])
    BY <2>1, NewIndexed DEF IndexInv
  <2> QED
    BY <2>1, <2>2 DEF IndexInv, boundVars
<1>8. CASE InstallCode
  <2> DEFINE c == flush.canister
             sd == [canisters[c] EXCEPT !.installed = TRUE]
  <2>1. canisters' = [canisters EXCEPT ![c] = sd] /\ UNCHANGED boundVars
    BY <1>8 DEF InstallCode
  <2>2. ASSUME c \in DOMAIN canisters PROVE Indexed(sd)
    <3> DEFINE old == canisters[c]
    <3>1. StorageShape(old) /\ Indexed(old)
      BY <2>2, Shapes DEF IndexInv
    <3> HIDE DEF old
    <3>2. /\ [old EXCEPT !.installed = TRUE].installed = TRUE
          /\ [old EXCEPT !.installed = TRUE].logs = old.logs
          /\ [old EXCEPT !.installed = TRUE].index = old.index
          /\ [old EXCEPT !.installed = TRUE].mark_full = old.mark_full
      BY <3>1 DEF StorageShape
    <3>3. Indexed([old EXCEPT !.installed = TRUE])
      BY <3>1, <3>2, StillIndexed DEF Indexed
    <3> QED
      BY <3>3 DEF old
  <2> HIDE DEF c, sd
  <2> QED
    BY <1>1, <2>1, <2>2, OneIndexed DEF boundVars
<1>9. CASE StorageFlush
  <2> DEFINE c == flush.canister
             sd == Stored(canisters[c], flush.bytes)
  <2>1. canisters' = [canisters EXCEPT ![c] = sd] /\ UNCHANGED boundVars
    BY <1>9 DEF StorageFlush
  <2>2. ASSUME c \in DOMAIN canisters PROVE Indexed(sd)
    <3>1. StorageShape(canisters[c]) /\ Indexed(canisters[c])
      BY <2>2, Shapes DEF IndexInv
    <3>2. flush.bytes \in Seq(Log)
      BY DEF IInv, StorageOK, FlushInv, FlushType
    <3> QED
      BY <3>1, <3>2, StoredIndexed
  <2> HIDE DEF c, sd
  <2> QED
    BY <1>1, <2>1, <2>2, OneIndexed DEF boundVars
<1>10. ASSUME NEW c \in DOMAIN canisters, ControllerMarkFull(c) PROVE IndexInv'
  <2>1. PICK mark \in BOOLEAN : canisters' = [canisters EXCEPT ![c].mark_full = mark]
    BY <1>10 DEF ControllerMarkFull
  <2> DEFINE old == canisters[c]
             sd == [old EXCEPT !.mark_full = mark]
  <2>2. canisters' = [canisters EXCEPT ![c] = sd]
    BY <2>1
  <2>3. UNCHANGED log_count /\ marks' \in 0 .. MaxMarks
    BY <1>1, <1>10 DEF ControllerMarkFull
  <2>4. Indexed(sd)
    <3>1. StorageShape(old) /\ Indexed(old)
      BY <1>10, Shapes DEF IndexInv
    <3> HIDE DEF old
    <3>2. /\ sd.mark_full = mark /\ sd.installed = old.installed
          /\ sd.logs = old.logs /\ sd.index = old.index
      BY <3>1 DEF StorageShape
    <3> HIDE DEF sd
    <3> QED
      BY <3>1, <3>2, StillIndexed DEF Indexed
  <2> HIDE DEF sd
  <2> QED
    BY <2>2, <2>3, <2>4, OneIndexed
<1> QED
  BY <1>2, <1>3, <1>4, <1>5, <1>6, <1>7, <1>8, <1>9, <1>10, CmUpdateLogIndexed
     DEF Next, Callee, Returns

LEMMA IndexGivesTypes ==
  ASSUME IInv, IndexInv
  PROVE  TypeOK /\ LogsIndexed
<1>1. /\ storage_buffer \in Seq(Log) /\ storage_canisters \in Seq(StorageCanisterData)
      /\ log_count \in Nat
  BY DEF IInv, StorageOK, StoreInv, Readable, Buffers, Ordered
<1>2. flush \in FlushType /\ temp_holder \in Canister \cup {None} /\ storage_flush_lock \in BOOLEAN
  BY DEF IInv, StorageOK, FlushInv, LockInv
<1>3. /\ DOMAIN updates \subseteq Nat
      /\ updates \in [DOMAIN updates -> {"sent", "stored", "failed", "ok", "err"}]
      /\ updated \subseteq Nat
  BY DEF IInv, StorageOK, LockInv, UpdateStatus, FinalInv
<1>4. log_count \in 0 .. MaxLogs /\ marks \in 0 .. MaxMarks
  BY <1>1, LogStorageAssumption DEF IndexInv
<1>5. DOMAIN canisters \subseteq Canister
  <2>1. Listed \subseteq Canister
    <3> SUFFICES ASSUME NEW i \in 1 .. Len(storage_canisters)
                 PROVE  storage_canisters[i].canister_id \in Canister
      BY DEF Listed
    <3>1. storage_canisters[i] \in StorageCanisterData
      BY <1>1
    <3> QED
      BY <3>1 DEF StorageCanisterData
  <2> QED
    BY <2>1 DEF IInv, StorageOK, TrackInv, Waiting
<1>6. ASSUME NEW c \in DOMAIN canisters PROVE canisters[c] \in StorageData
  <2> DEFINE sd == canisters[c]
  <2>1. StorageShape(sd) /\ Indexed(sd)
    BY Shapes DEF IndexInv
  <2> HIDE DEF sd
  <2>2. /\ sd.logs \in Seq(Log) /\ sd.first_log_id \in Nat
        /\ sd.installed \in BOOLEAN /\ sd.mark_full \in BOOLEAN
    BY <2>1 DEF StorageShape, Indexed
  <2>3. sd.index \in [Key -> Seq(Nat)]
    <3>1. \A k \in Key : IdsWithKey(sd.logs, k) \in Seq(Nat)
      BY <2>2, IdsType
    <3> QED
      BY <2>1, <3>1 DEF Indexed
  <2>4. sd \in StorageData
    BY <2>1, <2>2, <2>3 DEF StorageShape, StorageData
  <2> QED
    BY <2>4 DEF sd
<1>7. canisters \in [DOMAIN canisters -> StorageData]
  <2>1. canisters = [c \in DOMAIN canisters |-> canisters[c]]
    BY DEF IInv, StorageOK, TrackInv
  <2> QED
    BY <1>6, <2>1
<1>8. LogsIndexed
  BY DEF LogsIndexed, IndexInv, Indexed
<1> QED
  BY <1>1, <1>2, <1>3, <1>4, <1>5, <1>7, <1>8 DEF TypeOK

LEMMA InitIndexed == Init => IndexInv
BY LogStorageAssumption DEF Init, IndexInv

(* What the contract knows of its canisters is what they have, each finds  *)
(* its logs under their keys, none was created in vain, and all of the     *)
(* state is of the code's types.                                           *)
THEOREM StorageInvariant == Spec => []StorageInv
<1>1. Spec => []IndexInv
  <2>1. IInv /\ IndexInv /\ [Next]_vars => IndexInv'
    BY StepIndexed
  <2> QED
    BY <2>1, InitIndexed, LogStorageInvariant, PTL DEF Spec
<1>2. Spec => [](TypeOK /\ LogsIndexed)
  <2>1. IInv /\ IndexInv => TypeOK /\ LogsIndexed
    BY IndexGivesTypes
  <2> QED
    BY <1>1, <2>1, LogStorageInvariant, PTL
<1> QED
  BY <1>2, RecordsAreTrue, CanistersAreTracked, PTL DEF StorageInv
=============================================================================
