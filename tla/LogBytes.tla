------------------------------- MODULE LogBytes -------------------------------
(***************************************************************************)
(* The serialisation of a trade log (cts_lib/src/types/cm/tc/storage_logs/ *)
(* trade_log.rs): every field has a fixed range of the bytes, and a byte   *)
(* that is not written is zero.  A byte is modelled by whose it is: the    *)
(* value and the place in its range; the bytes of a zero are zero.         *)
(***************************************************************************)
EXTENDS Option, Integers, Sequences, SequencesExt, FiniteSetsExt

CONSTANTS
  Garbled, \* what is read from bytes that were not written as one field
  U64      \* how many values eight bytes have (2^64)

ASSUME LogBytesAssumption == U64 \in Nat \ {0}

Zero == <<0, 0>>
Byte(v, i) == IF v = 0 THEN Zero ELSE <<v, i>>

(* The bytes of fields that are written in a row, each a record of its     *)
(* range and its value.                                                    *)
Layout(size, fields) ==
  [i \in 0 .. size - 1 |->
     LET here == {j \in DOMAIN fields : fields[j].from <= i /\ i < fields[j].till}
     IN IF here = {} THEN Zero
        ELSE LET f == fields[Max(here)] IN Byte(f.value, i - f.from)]

read(b, from, till) ==
  LET v == b[from][1]
  IN IF \A i \in from .. till - 1 : b[i] = Byte(v, i - from) THEN v ELSE Garbled

Field(from, till, value) == [from |-> from, till |-> till, value |-> value]

(* A cast to u64 keeps what eight bytes hold of a number. *)
AsU64(n) == n % U64

(* A payout takes eight bytes for the ledger's fee, which has sixteen, and *)
(* one that says dust.                                                     *)
PayoutFields(at, flag, payout) ==
  IF payout = None THEN <<>>
  ELSE << Field(at, at + 8, AsU64(payout.ledger_transfer_fee)),
          Field(flag, flag + 1, IF payout.did_transfer THEN 0 ELSE 1) >>
PayoutRead(b, at, flag) ==
  LET fee == read(b, at, at + 8)
  IN IF fee = 0 THEN None
     ELSE [did_transfer |-> read(b, flag, flag + 1) = 0, ledger_transfer_fee |-> fee]

STABLE_MEMORY_VERSION == 0
KindByte(kind) == IF kind = "Cycles" THEN 0 ELSE 1

(* Mutant: the fee in tokens reaches into the one in cycles. *)
FieldsOverlap(tl) ==
  << Field(0, 2, STABLE_MEMORY_VERSION),
     Field(2, 18, tl.matchee), Field(18, 34, tl.id), Field(94, 110, tl.tokens),
     Field(110, 126, tl.cycles), Field(126, 142, tl.rate), Field(142, 143, KindByte(tl.kind)),
     Field(143, 159, tl.time), Field(159, 175, tl.tokens_payout_fee),
     Field(174, 190, tl.cycles_payout_fee), Field(191, 207, tl.matcher) >>
Fields(tl) ==
  << Field(0, 2, STABLE_MEMORY_VERSION),
     Field(2, 18, tl.matchee), Field(18, 34, tl.id), Field(94, 110, tl.tokens),
     Field(110, 126, tl.cycles), Field(126, 142, tl.rate), Field(142, 143, KindByte(tl.kind)),
     Field(143, 159, tl.time), Field(159, 175, tl.tokens_payout_fee),
     Field(175, 191, tl.cycles_payout_fee), Field(191, 207, tl.matcher) >>

stable_memory_serialize(tl) ==
  Layout(225, Fields(tl) \o PayoutFields(207, 223, tl.payouts["Cycles"])
                         \o PayoutFields(215, 224, tl.payouts["Token"]))

(* The version is written for a change of the layout, and not read. *)
stable_memory_serialize_backwards(b) ==
  [matchee |-> read(b, 2, 18), id |-> read(b, 18, 34), tokens |-> read(b, 94, 110),
   cycles |-> read(b, 110, 126), rate |-> read(b, 126, 142),
   kind |-> IF read(b, 142, 143) = 0 THEN "Cycles" ELSE "Token", time |-> read(b, 143, 159),
   tokens_payout_fee |-> read(b, 159, 175), cycles_payout_fee |-> read(b, 175, 191),
   matcher |-> read(b, 191, 207),
   payouts |-> [Cycles |-> PayoutRead(b, 207, 223), Token |-> PayoutRead(b, 215, 224)]]

log_id_of_the_log_serialization(b) == read(b, 18, 34)
index_keys_of_the_log_serialization(b) == {read(b, 2, 18), read(b, 191, 207)}
tokens_quantity_of_the_log_serialization(b) == read(b, 94, 110)
rate_of_the_log_serialization(b) == read(b, 126, 142)
timestamp_nanos_of_the_log_serialization(b) == read(b, 143, 159)
=============================================================================
