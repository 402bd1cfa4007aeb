------------------------------ MODULE TradeFee ------------------------------
(***************************************************************************)
(* The trade fee of cm_tc/src/trade_fee.rs.  Each side of a trade pays a   *)
(* fee in ten-thousandths of the cycles traded.  The rate depends on the   *)
(* volume that the position traded so far: the part of a trade that falls  *)
(* into a tier pays the rate of that tier.                                 *)
(***************************************************************************)
EXTENDS Integers, Sequences

CONSTANTS
  TenThousand,  \* 10_000
  Tiers         \* trade_fees_tiers: a sequence of [volume_cycles, rate]

ASSUME TradeFeeAssumption ==
  /\ TenThousand \in Nat \ {0}
  /\ Tiers \in Seq([volume_cycles : Nat, rate : Nat])
  /\ \A i, j \in 1 .. Len(Tiers) :
       i < j => /\ Tiers[i].volume_cycles < Tiers[j].volume_cycles
                /\ Tiers[i].rate > Tiers[j].rate
  /\ \A i \in 1 .. Len(Tiers) : Tiers[i].rate < TenThousand

LesserOf(a, b) == IF a <= b THEN a ELSE b

(* Mutant: the volume already traded is not taken off the tier. *)
TierStepWholeTrade(volume, trade, tier, st) ==
  LET traded == volume + trade - st.mainder
      part   == LesserOf(st.mainder, tier.volume_cycles)
  IN IF st.mainder = 0 \/ traded + 1 > tier.volume_cycles THEN st
     ELSE [mainder |-> st.mainder - part,
           fee |-> st.fee + (part \div TenThousand) * tier.rate]

(* One iteration of the loop over the tiers, on what is left of the trade  *)
(* and the fee so far.                                                     *)
TierStep(volume, trade, tier, st) ==
  LET traded == volume + trade - st.mainder
      part   == LesserOf(st.mainder, tier.volume_cycles - traded)
  IN IF st.mainder = 0 \/ traded + 1 > tier.volume_cycles THEN st
     ELSE [mainder |-> st.mainder - part,
           fee |-> st.fee + (part \div TenThousand) * tier.rate]

(* The loop over the tiers: what it has after each of them.                *)
TierRun(volume, trade) ==
  LET st[i \in 0 .. Len(Tiers)] ==
        IF i = 0 THEN [mainder |-> trade, fee |-> 0]
        ELSE TierStep(volume, trade, Tiers[i], st[i - 1])
  IN st

calculate_trade_fee(volume, trade) == TierRun(volume, trade)[Len(Tiers)].fee
=============================================================================
