---------------------------- MODULE MarketProofs ----------------------------
(***************************************************************************)
(* Theorems about the market of a trade contract, for every number of      *)
(* users, calls in progress and positions, all tiers and limits.           *)
(*                                                                         *)
(* The invariant of the loop of match_trades is LoopInv; the one of the    *)
(* market (MarketInv) says that it holds when the loop begins, and each    *)
(* action is shown to keep MarketInv.  FeesInv is a second invariant on    *)
(* top of it, for the fees.  The last sections are about what readers see  *)
(* page by page: the positions, and the book by rate (PositionViews).      *)
(***************************************************************************)
EXTENDS PositionViews, TradingProofs

----------------------------------------------------------------------------
(* The locks of the users' balances. *)

LEMMA InitCalls == Init => CallsInv
BY DEF Init, CallsInv, OneCallPerBalance, CallType, NoCall

LEMMA NextCalls == CallsInv /\ [Next]_vars => CallsInv'
<1> SUFFICES ASSUME CallsInv, [Next]_vars
             PROVE  CallsInv'
  OBVIOUS
<1>1. ASSUME NEW c \in Call, NEW user \in User, NEW k \in Kind, TradeCall(c, user, k)
      PROVE  CallsInv'
  <2>1. PICK quantity \in Quantity[k], rate \in Rate :
          /\ calls[c] = NoCall /\ user \notin locks[k]
          /\ locks' = [locks EXCEPT ![k] = @ \cup {user}]
          /\ calls' = [calls EXCEPT ![c] = [op |-> "trade", user |-> user, kind |-> k,
                         quantity |-> quantity, rate |-> rate, answer |-> "none"]]
    BY <1>1 DEF TradeCall, CallBegins
  <2>2. quantity \in Nat /\ rate \in Nat
    BY MarketAssumption
  <2>3. [op |-> "trade", user |-> user, kind |-> k, quantity |-> quantity, rate |-> rate,
         answer |-> "none"] \in CallType
    BY <2>2 DEF CallType
  <2> QED
    BY <2>1, <2>3, TakeLock
<1>2. ASSUME NEW c \in Call, NEW user \in User, NEW k \in Kind, TransferBalanceCall(c, user, k)
      PROVE  CallsInv'
  <2>1. [op |-> "transfer", user |-> user, kind |-> k, quantity |-> 0, rate |-> 0,
         answer |-> "none"] \in CallType
    BY DEF CallType
  <2> QED
    BY <1>2, <2>1, TakeLock DEF TransferBalanceCall, CallBegins
<1>3. ASSUME NEW c \in Call, LedgerAccepts(c) \/ LedgerRefuses(c)
      PROVE  CallsInv'
  BY <1>3, AnswerCall DEF LedgerAccepts, LedgerRefuses
<1>4. ASSUME NEW c \in Call, TradeReturns(c) \/ TransferBalanceReturns(c)
      PROVE  CallsInv'
  BY <1>4, ReleaseLock DEF TradeReturns, TransferBalanceReturns
<1>5. CASE \E user \in User, k \in Kind : VoidPosition(user, k)
  BY <1>5, SameCalls DEF VoidPosition
<1>6. CASE (\E k \in Kind : VoidPaidOut(k) \/ TradePaidOut(k)) \/ TradeMoved
  BY <1>6, SameCalls DEF VoidPaidOut, TradePaidOut, TradeMoved
<1>7. CASE UNCHANGED vars
  BY <1>7, SameCalls DEF vars
<1> QED
  BY <1>1, <1>2, <1>3, <1>4, <1>5, <1>6, <1>7 DEF Next

(* The inductive invariant of the locks. *)
THEOREM CallsInvariant == Spec => []CallsInv
BY InitCalls, NextCalls, PTL DEF Spec

(* A user's balance at a ledger is never used by two calls, and no lock is *)
(* left behind, whatever the ledgers answer.                               *)
THEOREM OneCall == Spec => []OneCallPerBalance
<1>1. CallsInv => OneCallPerBalance
  BY DEF CallsInv
<1> QED
  BY <1>1, CallsInvariant, PTL

----------------------------------------------------------------------------
(* The loop over the tiers computes the sum over the tiers. *)

Bound(n) == IF n = 0 THEN 0 ELSE Tiers[n].volume_cycles
LargerOf(a, b) == IF a <= b THEN b ELSE a
Between(lo, hi) == IF lo < hi THEN hi - lo ELSE 0
PartFees(from, to) == [i \in DOMAIN Tiers |-> (InTier(i, from, to) \div TenThousand) * Tiers[i].rate]

LEMMA TiersAre ==
  /\ Len(Tiers) \in Nat /\ DOMAIN Tiers = 1 .. Len(Tiers) /\ TenThousand \in Nat /\ TenThousand > 0
  /\ \A i \in 1 .. Len(Tiers) :
       /\ Tiers[i].volume_cycles \in Nat /\ Tiers[i].rate \in Nat
       /\ Bound(i) \in Nat /\ Bound(i - 1) \in Nat /\ Bound(i - 1) <= Bound(i)
       /\ Bound(i) = Tiers[i].volume_cycles
<1> DEFINE R == [volume_cycles : Nat, rate : Nat]
<1>1. Tiers \in Seq(R) /\ TenThousand \in Nat /\ TenThousand > 0
  BY TradeFeeAssumption
<1> HIDE DEF R
<1>2. Len(Tiers) \in Nat /\ DOMAIN Tiers = 1 .. Len(Tiers)
  BY <1>1
<1>3. \A i \in 1 .. Len(Tiers) : Tiers[i].volume_cycles \in Nat /\ Tiers[i].rate \in Nat
  <2> TAKE i \in 1 .. Len(Tiers)
  <2>1. Tiers[i] \in R
    BY <1>1
  <2> QED
    BY <2>1 DEF R
<1>4. ASSUME NEW i \in 1 .. Len(Tiers)
      PROVE  /\ Bound(i) \in Nat /\ Bound(i - 1) \in Nat /\ Bound(i - 1) <= Bound(i)
             /\ Bound(i) = Tiers[i].volume_cycles
  <2>1. Bound(i) = Tiers[i].volume_cycles /\ Bound(i) \in Nat
    BY <1>3 DEF Bound
  <2>2. CASE i = 1
    BY <2>1, <2>2 DEF Bound
  <2>3. CASE i # 1
    <3>1. i - 1 \in 1 .. Len(Tiers) /\ i - 1 < i /\ i - 1 # 0
      BY <1>2, <2>3
    <3>2. Bound(i - 1) = Tiers[i - 1].volume_cycles
      BY <3>1 DEF Bound
    <3>3. Tiers[i - 1].volume_cycles < Tiers[i].volume_cycles
      BY <3>1, TradeFeeAssumption
    <3>4. Tiers[i - 1].volume_cycles \in Nat
      BY <1>3, <3>1
    <3> QED
      BY <2>1, <3>2, <3>3, <3>4
  <2> QED
    BY <2>2, <2>3
<1> QED
  BY <1>1, <1>2, <1>3, <1>4

LEMMA InTierIs ==
  ASSUME NEW from \in Nat, NEW to \in Nat, NEW i \in 1 .. Len(Tiers)
  PROVE  /\ InTier(i, from, to) = Between(LargerOf(from, Bound(i - 1)), LesserOf(to, Bound(i)))
         /\ InTier(i, from, to) \in Nat
<1> DEFINE L == Bound(i - 1)
           V == Bound(i)
           lo == LargerOf(from, L)
           hi == LesserOf(to, V)
<1>1. /\ L \in Nat /\ V \in Nat /\ V = Tiers[i].volume_cycles
  BY TiersAre
<1>2. InTier(i, from, to) = Cardinality((from .. to - 1) \cap (L .. V - 1))
  <2>1. L = IF i = 1 THEN 0 ELSE Tiers[i - 1].volume_cycles
    BY DEF Bound
  <2> HIDE DEF L, V
  <2> QED
    BY <1>1, <2>1 DEF InTier
<1> HIDE DEF L, V
<1>3. lo \in Nat /\ hi \in Nat
  BY <1>1 DEF LargerOf, LesserOf
<1>4. (from .. to - 1) \cap (L .. V - 1) = lo .. hi - 1
  BY <1>1 DEF LargerOf, LesserOf
<1> HIDE DEF lo, hi
<1>5. Cardinality(lo .. hi - 1) = IF lo > hi - 1 THEN 0 ELSE (hi - 1) - lo + 1
  BY <1>3, FS_Interval
<1>6. Cardinality(lo .. hi - 1) = Between(lo, hi) /\ Between(lo, hi) \in Nat
  BY <1>3, <1>5 DEF Between
<1> QED
  BY <1>2, <1>4, <1>6 DEF lo, hi, L, V

FeePart(i, from, to) == (InTier(i, from, to) \div TenThousand) * Tiers[i].rate

LEMMA PartFeesAre ==
  ASSUME NEW from \in Nat, NEW to \in Nat
  PROVE  /\ DOMAIN PartFees(from, to) = 1 .. Len(Tiers)
         /\ \A i \in 1 .. Len(Tiers) :
              /\ PartFees(from, to)[i] = FeePart(i, from, to)
              /\ PartFees(from, to)[i] \in Nat
         /\ TierSum(from, to) = SumFunctionOnSet(PartFees(from, to), 1 .. Len(Tiers))
         /\ TierSum(from, to) \in Nat
<1> DEFINE f == PartFees(from, to)
<1>1. DOMAIN f = 1 .. Len(Tiers) /\ IsFiniteSet(1 .. Len(Tiers)) /\ TierSum(from, to) = SumFunction(f)
  BY TiersAre, FS_Interval DEF PartFees, TierSum
<1>2. ASSUME NEW i \in 1 .. Len(Tiers)
      PROVE  f[i] = FeePart(i, from, to) /\ f[i] \in Nat
  <2>1. f[i] = FeePart(i, from, to)
    BY TiersAre DEF PartFees, FeePart
  <2>2. InTier(i, from, to) \in Nat
    BY InTierIs
  <2> DEFINE q == InTier(i, from, to) \div TenThousand
  <2>3. q \in Nat
    BY <2>2, TiersAre, Quotient
  <2>4. Tiers[i].rate \in Nat
    BY TiersAre
  <2> HIDE DEF q
  <2>5. q * Tiers[i].rate \in Nat
    BY <2>3, <2>4
  <2>6. FeePart(i, from, to) = q * Tiers[i].rate
    BY DEF FeePart, q
  <2> QED
    BY <2>1, <2>5, <2>6
<1> HIDE DEF f
<1>3. SumFunctionOnSet(f, 1 .. Len(Tiers)) \in Nat
  BY <1>1, <1>2, SumNat
<1> QED
  BY <1>1, <1>2, <1>3 DEF SumFunction, f

(* What the loop has after n tiers. *)
TierDone(volume, to, n, st) ==
  /\ st.mainder \in Nat /\ st.mainder <= to
  /\ to - st.mainder = LargerOf(volume, LesserOf(to, Bound(n)))
  /\ st.fee = SumFunctionOnSet(PartFees(volume, to), 1 .. n)

LEMMA TierStepDone ==
  ASSUME NEW volume \in Nat, NEW trade \in Nat, NEW i \in 1 .. Len(Tiers), NEW st,
         TierDone(volume, volume + trade, i - 1, st)
  PROVE  TierDone(volume, volume + trade, i, TierStep(volume, trade, Tiers[i], st))
<1> DEFINE to == volume + trade
           L == Bound(i - 1)
           V == Bound(i)
           m == st.mainder
           f == PartFees(volume, to)
           part == Between(LargerOf(volume, L), LesserOf(to, V))
           skip == m = 0 \/ (to - m) + 1 > V
           new == TierStep(volume, trade, Tiers[i], st)
           fee == (part \div TenThousand) * Tiers[i].rate
<1>1. /\ to \in Nat /\ volume <= to /\ L \in Nat /\ V \in Nat /\ L <= V /\ V = Tiers[i].volume_cycles
      /\ m \in Nat /\ m <= to /\ to - m = LargerOf(volume, LesserOf(to, L))
  BY TiersAre DEF TierDone
<1>2. InTier(i, volume, to) = part /\ part \in Nat
  <2>1. InTier(i, volume, to) = part /\ InTier(i, volume, to) \in Nat
    <3> HIDE DEF to
    <3> QED
      BY <1>1, InTierIs, Zenon
  <2> HIDE DEF part
  <2> QED
    BY <2>1
<1>3. f[i] = fee /\ \A j \in 1 .. Len(Tiers) : f[j] \in Nat
  <2>1. f[i] = FeePart(i, volume, to) /\ \A j \in 1 .. Len(Tiers) : f[j] \in Nat
    <3> HIDE DEF to, f
    <3> QED
      BY <1>1, PartFeesAre DEF f
  <2> HIDE DEF to, part, f
  <2>2. FeePart(i, volume, to) = fee
    BY <1>2 DEF FeePart
  <2> QED
    BY <2>1, <2>2
<1>4. /\ st.fee = SumFunctionOnSet(f, 1 .. i - 1)
  BY DEF TierDone
<1>5. new = IF skip THEN st
            ELSE [mainder |-> m - LesserOf(m, V - (to - m)),
                  fee |-> st.fee + (LesserOf(m, V - (to - m)) \div TenThousand) * Tiers[i].rate]
  BY <1>1 DEF TierStep
<1> HIDE DEF to, L, V, m, f, new
<1>6. /\ skip => part = 0 /\ to - m = LargerOf(volume, LesserOf(to, V))
      /\ ~skip => /\ LesserOf(m, V - (to - m)) = part
                  /\ m - part \in Nat
                  /\ to - (m - part) = LargerOf(volume, LesserOf(to, V))
  <2>1. /\ volume \in Nat /\ to \in Nat /\ volume <= to /\ L \in Nat /\ V \in Nat /\ L <= V
        /\ m \in Nat /\ m <= to /\ to - m = LargerOf(volume, LesserOf(to, L))
    BY <1>1
  <2>2. skip => part = 0 /\ to - m = LargerOf(volume, LesserOf(to, V))
    BY <2>1 DEF LargerOf, LesserOf, Between
  <2>3. ~skip => LesserOf(m, V - (to - m)) = part
    BY <2>1 DEF LargerOf, LesserOf, Between
  <2>4. ~skip => m - part \in Nat /\ to - (m - part) = LargerOf(volume, LesserOf(to, V))
    BY <2>1 DEF LargerOf, LesserOf, Between
  <2> QED
    BY <2>2, <2>3, <2>4
<1> HIDE DEF part, skip
<1>7. SumFunctionOnSet(f, 1 .. i) = SumFunctionOnSet(f, 1 .. i - 1) + fee /\ SumFunctionOnSet(f, 1 .. i - 1) \in Nat
  <2>1. 1 .. i = (1 .. i - 1) \cup {i} /\ i \notin 1 .. i - 1 /\ 1 .. i \subseteq 1 .. Len(Tiers)
        /\ 1 .. i - 1 \subseteq 1 .. Len(Tiers) /\ i - 1 \in Int
    BY TiersAre
  <2>2. IsFiniteSet(1 .. i - 1)
    BY <2>1, FS_Interval
  <2>3. SumFunctionOnSet(f, (1 .. i - 1) \cup {i}) = SumFunctionOnSet(f, 1 .. i - 1) + f[i]
    <3>1. \A x \in (1 .. i - 1) \cup {i} : f[x] \in Int
      BY <1>3, <2>1
    <3> QED
      BY <2>1, <2>2, <3>1, SumAdd
  <2>4. SumFunctionOnSet(f, 1 .. i - 1) \in Nat
    BY <1>3, <2>1, <2>2, SumNat
  <2> QED
    BY <1>3, <2>1, <2>3, <2>4
<1>8. CASE skip
  <2>1. fee = 0
    <3>1. part = 0 /\ Tiers[i].rate \in Nat
      BY <1>6, <1>8, TiersAre
    <3>2. part \div TenThousand = 0
      BY <3>1, TiersAre, Quotient
    <3> QED
      BY <3>1, <3>2
  <2> HIDE DEF fee
  <2>2. new.mainder = m /\ new.fee = st.fee
    BY <1>5, <1>8 DEF m
  <2>3. st.fee = SumFunctionOnSet(f, 1 .. i)
    BY <1>4, <1>7, <2>1
  <2> QED
    BY <1>1, <1>6, <1>8, <2>2, <2>3 DEF TierDone, new, f, V, to
<1>9. CASE ~skip
  <2>1. new = [mainder |-> m - part, fee |-> st.fee + fee]
    BY <1>5, <1>6, <1>9
  <2> HIDE DEF fee
  <2>2. new.mainder = m - part /\ new.fee = SumFunctionOnSet(f, 1 .. i)
    BY <1>4, <1>7, <2>1
  <2>3. m - part \in Nat /\ m - part <= to /\ to - (m - part) = LargerOf(volume, LesserOf(to, V))
    BY <1>1, <1>2, <1>6, <1>9
  <2> QED
    BY <2>2, <2>3 DEF TierDone, new, f, V, to
<1> QED
  BY <1>8, <1>9

LEMMA FeeIsTierSum ==
  ASSUME NEW volume \in Nat, NEW trade \in Nat
  PROVE  calculate_trade_fee(volume, trade) = TierSum(volume, volume + trade)
<1> DEFINE to == volume + trade
           r == TierRun(volume, trade)
           T == {n \in 0 .. Len(Tiers) : ~TierDone(volume, to, n, r[n])}
<1>1. Len(Tiers) \in Nat /\ to \in Nat
  BY TiersAre
<1>2. TierDone(volume, to, 0, r[0])
  <2>1. r[0] = [mainder |-> trade, fee |-> 0]
    BY TierRunIs
  <2>2. SumFunctionOnSet(PartFees(volume, to), 1 .. 0) = 0
    <3>1. 1 .. 0 = {}
      OBVIOUS
    <3> QED
      BY <3>1, SumEmpty
  <2>3. to - trade = LargerOf(volume, LesserOf(to, Bound(0)))
    BY DEF LargerOf, LesserOf, Bound
  <2> HIDE DEF r
  <2> QED
    BY <2>1, <2>2, <2>3 DEF TierDone
<1>3. ASSUME T # {} PROVE FALSE
  <2>1. PICK m \in T : \A n \in T : m <= n
    <3>1. T \subseteq Nat
      BY <1>1
    <3> HIDE DEF T
    <3> QED
      BY <3>1, <1>3, LeastNat
  <2>2. m \in 0 .. Len(Tiers) /\ m # 0 /\ ~TierDone(volume, to, m, r[m])
    BY <1>2, <2>1
  <2>3. m - 1 \in 0 .. Len(Tiers) /\ m - 1 \notin T /\ m \in 1 .. Len(Tiers)
    BY <1>1, <2>1, <2>2
  <2>4. TierDone(volume, to, m - 1, r[m - 1])
    BY <2>3
  <2>5. r[m] = TierStep(volume, trade, Tiers[m], r[m - 1])
    BY <2>3, TierRunIs
  <2> HIDE DEF r, T
  <2>6. TierDone(volume, to, m, r[m])
    BY <2>3, <2>4, <2>5, TierStepDone
  <2> QED
    BY <2>2, <2>6
<1>4. TierDone(volume, to, Len(Tiers), r[Len(Tiers)])
  <2>1. Len(Tiers) \in 0 .. Len(Tiers) /\ Len(Tiers) \notin T
    BY <1>1, <1>3
  <2> QED
    BY <2>1
<1>5. calculate_trade_fee(volume, trade) = r[Len(Tiers)].fee
  BY DEF calculate_trade_fee
<1>6. TierSum(volume, to) = SumFunctionOnSet(PartFees(volume, to), 1 .. Len(Tiers))
  BY <1>1, PartFeesAre
<1> HIDE DEF r, to
<1> QED
  BY <1>4, <1>5, <1>6 DEF TierDone, to

(* Trading a volume in two pieces never costs more than in one. *)
LEMMA TierSumGrows ==
  ASSUME NEW v \in Nat, NEW c \in Nat
  PROVE  TierSum(0, v) + TierSum(v, v + c) <= TierSum(0, v + c)
<1> DEFINE n == Len(Tiers)
           f == PartFees(0, v)
           g == PartFees(v, v + c)
           h == PartFees(0, v + c)
<1>1. v + c \in Nat /\ IsFiniteSet(1 .. n)
  BY TiersAre, FS_Interval
<1>2. ASSUME NEW i \in 1 .. n
      PROVE  f[i] \in Nat /\ g[i] \in Nat /\ h[i] \in Nat /\ f[i] + g[i] <= h[i]
  <2> DEFINE a == InTier(i, 0, v)
             b == InTier(i, v, v + c)
             d == InTier(i, 0, v + c)
             x == a \div TenThousand
             y == b \div TenThousand
             z == d \div TenThousand
             r == Tiers[i].rate
  <2>1. /\ f[i] = x * r /\ g[i] = y * r /\ h[i] = z * r
        /\ f[i] \in Nat /\ g[i] \in Nat /\ h[i] \in Nat
    <3>1. /\ f[i] = FeePart(i, 0, v) /\ g[i] = FeePart(i, v, v + c) /\ h[i] = FeePart(i, 0, v + c)
          /\ f[i] \in Nat /\ g[i] \in Nat /\ h[i] \in Nat
      <4> HIDE DEF f, g, h
      <4>1. f[i] = FeePart(i, 0, v) /\ f[i] \in Nat
        BY PartFeesAre DEF f
      <4>2. g[i] = FeePart(i, v, v + c) /\ g[i] \in Nat
        BY <1>1, PartFeesAre DEF g
      <4>3. h[i] = FeePart(i, 0, v + c) /\ h[i] \in Nat
        BY <1>1, PartFeesAre DEF h
      <4> QED
        BY <4>1, <4>2, <4>3
    <3> QED
      BY <3>1 DEF FeePart
  <2>2. a \in Nat /\ b \in Nat /\ d = a + b
    <3> DEFINE L == Bound(i - 1)
               V == Bound(i)
    <3>1. L \in Nat /\ V \in Nat /\ L <= V
      BY TiersAre
    <3>2. /\ a = Between(LargerOf(0, L), LesserOf(v, V)) /\ b = Between(LargerOf(v, L), LesserOf(v + c, V))
          /\ d = Between(LargerOf(0, L), LesserOf(v + c, V))
          /\ a \in Nat /\ b \in Nat
      BY <1>1, InTierIs
    <3> HIDE DEF L, V, a, b, d
    <3>3. d = a + b
      BY <3>1, <3>2 DEF Between, LargerOf, LesserOf
    <3> QED
      BY <3>2, <3>3
  <2>3. r \in Nat /\ TenThousand \in Nat /\ TenThousand > 0
    BY TiersAre
  <2> DEFINE T == TenThousand
  <2> HIDE DEF a, b, d, r, T
  <2>4. /\ x \in Nat /\ x * T <= a
        /\ y \in Nat /\ y * T <= b
        /\ z \in Nat /\ d < z * T + T
    BY <2>2, <2>3, Quotient DEF T
  <2> HIDE DEF x, y, z
  <2>5. x + y <= z
    <3> SUFFICES ASSUME z + 1 <= x + y
                 PROVE  FALSE
      BY <2>4
    <3>1. z + 1 \in Nat /\ x + y \in Nat /\ T \in Nat
      BY <2>3, <2>4 DEF T
    <3>2. (z + 1) * T <= (x + y) * T
      BY <3>1, LessOf
    <3>3. (z + 1) * T = z * T + T /\ (x + y) * T = x * T + y * T
      BY <2>4, <3>1
    <3> DEFINE p == x * T
               q == y * T
               s == z * T
    <3>4. p \in Nat /\ q \in Nat /\ s \in Nat
      BY <2>4, <3>1
    <3>5. s + T <= p + q /\ p <= a /\ q <= b /\ d < s + T
      BY <2>4, <3>2, <3>3
    <3> HIDE DEF p, q, s
    <3> QED
      BY <2>2, <3>1, <3>4, <3>5
  <2>6. (x + y) * r <= z * r
    BY <2>3, <2>4, <2>5, LessOf
  <2>7. (x + y) * r = x * r + y * r
    BY <2>3, <2>4
  <2> QED
    BY <2>1, <2>6, <2>7
<1>3. SumFunctionOnSet(f, 1 .. n) + SumFunctionOnSet(g, 1 .. n) <= SumFunctionOnSet(h, 1 .. n)
  <2> HIDE DEF f, g, h, n
  <2> QED
    BY <1>1, <1>2, SumTogether
<1> QED
  BY <1>1, <1>3, PartFeesAre

----------------------------------------------------------------------------
(* What the trades of a position add up to, in any sequence of trade logs. *)

TradesIn(logs, x) == {i \in 1 .. Len(logs) : x \in {logs[i].matcher, logs[i].matchee}}
Part(log, what, k) == IF what = "mount" THEN log.mount[k] ELSE log.cts_fee[k]
TotalIn(logs, x, what, k) == SumFunction([i \in TradesIn(logs, x) |-> Part(logs[i], what, k)])
Unpaid(logs, k) == SumFunction([i \in (1 .. Len(logs)) \ settled[k] |-> logs[i].mount[k]])

LEMMA PartNat ==
  ASSUME NEW log \in MatchLogType, NEW what, NEW k \in Kind
  PROVE  Part(log, what, k) \in Nat
BY DEF Part, MatchLogType

LEMMA TotalType ==
  ASSUME NEW logs \in Seq(MatchLogType), NEW x, NEW what, NEW k \in Kind
  PROVE  TotalIn(logs, x, what, k) \in Nat /\ IsFiniteSet(TradesIn(logs, x))
<1> DEFINE f == [i \in TradesIn(logs, x) |-> Part(logs[i], what, k)]
<1>1. TradesIn(logs, x) \subseteq 1 .. Len(logs) /\ IsFiniteSet(TradesIn(logs, x))
  BY LogsAreLogs, FS_Subset DEF TradesIn
<1>2. DOMAIN f = TradesIn(logs, x) /\ \A i \in DOMAIN f : f[i] \in Nat
  BY <1>1, LogsAreLogs, PartNat
<1> HIDE DEF f
<1>3. SumFunction(f) \in Nat
  <2>1. \A i \in DOMAIN f : f[i] \in Int
    BY <1>2
  <2> QED
    BY <1>1, <1>2, <2>1, SumType
<1> QED
  BY <1>1, <1>3 DEF TotalIn, f

(* One more trade. *)
LEMMA TotalAppend ==
  ASSUME NEW logs \in Seq(MatchLogType), NEW log \in MatchLogType, NEW x, NEW what, NEW k \in Kind
  PROVE  TotalIn(Append(logs, log), x, what, k) =
           TotalIn(logs, x, what, k)
           + (IF x \in {log.matcher, log.matchee} THEN Part(log, what, k) ELSE 0)
<1> DEFINE all == Append(logs, log)
           n == Len(logs) + 1
           f == [i \in TradesIn(logs, x) |-> Part(logs[i], what, k)]
           g == [i \in TradesIn(all, x) |-> Part(all[i], what, k)]
<1>1. /\ all \in Seq(MatchLogType) /\ Len(all) = n /\ \A i \in 1 .. Len(logs) : all[i] = logs[i]
      /\ all[n] = log /\ 1 .. n = (1 .. Len(logs)) \cup {n} /\ n \notin 1 .. Len(logs)
  BY AppendLog
<1> HIDE DEF all, n
<1>2. TradesIn(all, x) = TradesIn(logs, x) \cup (IF x \in {log.matcher, log.matchee} THEN {n} ELSE {})
  BY <1>1 DEF TradesIn
<1>3. n \notin TradesIn(logs, x) /\ IsFiniteSet(TradesIn(logs, x))
  BY <1>1, TotalType DEF TradesIn
<1>4. \A i \in TradesIn(logs, x) : f[i] = g[i]
  BY <1>1, <1>2 DEF TradesIn
<1>5. /\ DOMAIN f = TradesIn(logs, x) /\ DOMAIN g = TradesIn(all, x)
      /\ TotalIn(logs, x, what, k) = SumFunction(f) /\ TotalIn(all, x, what, k) = SumFunction(g)
  BY DEF TotalIn
<1>6. CASE x \in {log.matcher, log.matchee}
  <2>1. g[n] = Part(log, what, k)
    BY <1>1, <1>2, <1>6
  <2>2. \A i \in DOMAIN g : g[i] \in Int
    <3> TAKE i \in DOMAIN g
    <3>1. i \in 1 .. Len(all) /\ g[i] = Part(all[i], what, k)
      BY DEF TradesIn
    <3> HIDE DEF g
    <3>2. Part(all[i], what, k) \in Nat
      BY <1>1, <3>1, LogsAreLogs, PartNat
    <3> QED
      BY <3>1, <3>2
  <2> HIDE DEF f, g
  <2>3. SumFunction(g) = SumFunction(f) + g[n]
    BY <1>2, <1>3, <1>4, <1>5, <1>6, <2>2, SumPut
  <2> QED
    BY <1>5, <1>6, <2>1, <2>3 DEF all
<1>7. CASE x \notin {log.matcher, log.matchee}
  <2> HIDE DEF f, g
  <2>1. SumFunction(g) = SumFunction(f)
    BY <1>2, <1>3, <1>4, <1>5, <1>7, SumKeep
  <2>2. TotalIn(logs, x, what, k) \in Nat
    BY TotalType
  <2> QED
    BY <1>5, <1>7, <2>1, <2>2 DEF all
<1> QED
  BY <1>6, <1>7

LEMMA UnpaidType ==
  ASSUME NEW logs \in Seq(MatchLogType), NEW k \in Kind
  PROVE  Unpaid(logs, k) \in Nat
<1> DEFINE f == [i \in (1 .. Len(logs)) \ settled[k] |-> logs[i].mount[k]]
<1>1. DOMAIN f \subseteq 1 .. Len(logs) /\ IsFiniteSet(DOMAIN f)
  <2>1. DOMAIN f \in SUBSET (1 .. Len(logs))
    OBVIOUS
  <2> HIDE DEF f
  <2> QED
    BY <2>1, LogsAreLogs, FS_Subset
<1>2. \A i \in DOMAIN f : f[i] \in Nat /\ f[i] \in Int
  <2>1. \A i \in DOMAIN f : f[i] = Part(logs[i], "mount", k)
    BY DEF Part
  <2> HIDE DEF f
  <2>2. \A i \in DOMAIN f : logs[i] \in MatchLogType
    BY <1>1, LogsAreLogs
  <2> QED
    BY <2>1, <2>2, PartNat
<1> HIDE DEF f
<1>3. SumFunction(f) \in Nat
  BY <1>1, <1>2, SumType
<1> QED
  BY <1>3 DEF Unpaid, f

LEMMA UnpaidAppend ==
  ASSUME NEW logs \in Seq(MatchLogType), NEW log \in MatchLogType, NEW k \in Kind,
         settled[k] \subseteq 1 .. Len(logs)
  PROVE  Unpaid(Append(logs, log), k) = Unpaid(logs, k) + log.mount[k]
<1> DEFINE all == Append(logs, log)
           n == Len(logs) + 1
           f == [i \in (1 .. Len(logs)) \ settled[k] |-> logs[i].mount[k]]
           g == [i \in (1 .. Len(all)) \ settled[k] |-> all[i].mount[k]]
<1>1. /\ all \in Seq(MatchLogType) /\ Len(all) = n /\ \A i \in 1 .. Len(logs) : all[i] = logs[i]
      /\ all[n] = log /\ 1 .. n = (1 .. Len(logs)) \cup {n} /\ n \notin 1 .. Len(logs)
  BY AppendLog
<1> HIDE DEF all, n
<1>2. DOMAIN f = (1 .. Len(logs)) \ settled[k] /\ DOMAIN g = DOMAIN f \cup {n} /\ n \notin DOMAIN f
  BY <1>1
<1>3. \A i \in DOMAIN f : f[i] = g[i]
  BY <1>1
<1>4. g[n] = log.mount[k]
  BY <1>1, <1>2
<1>5. \A i \in DOMAIN g : g[i] \in Int
  <2> TAKE i \in DOMAIN g
  <2>1. i \in 1 .. Len(all) /\ g[i] = Part(all[i], "mount", k)
    BY DEF Part
  <2> HIDE DEF g
  <2>2. Part(all[i], "mount", k) \in Nat
    BY <1>1, <2>1, LogsAreLogs, PartNat
  <2> QED
    BY <2>1, <2>2
<1>6. IsFiniteSet(DOMAIN f)
  <2>1. DOMAIN f \in SUBSET (1 .. Len(logs))
    OBVIOUS
  <2> HIDE DEF f
  <2> QED
    BY <2>1, LogsAreLogs, FS_Subset
<1>7. Unpaid(logs, k) = SumFunction(f) /\ Unpaid(all, k) = SumFunction(g)
  BY DEF Unpaid
<1> HIDE DEF f, g
<1>8. SumFunction(g) = SumFunction(f) + g[n]
  BY <1>2, <1>3, <1>5, <1>6, SumPut
<1> QED
  BY <1>4, <1>7, <1>8 DEF all

----------------------------------------------------------------------------
(* What is right with a position and its trades in a sequence of logs. *)

(* It trades at its own rate or better on average. *)
AverageWithin(k, p) ==
  IF k = "Cycles" THEN p.rates_sum <= p.rate * (p.quantity - p.mainder)
  ELSE p.rates_sum >= p.rate * (p.quantity - p.mainder)

LimitsRate(k, limit, rate) == IF k = "Cycles" THEN rate <= limit ELSE rate >= limit

LimitsKept(logs, k, x, limit) ==
  \A i \in 1 .. Len(logs) : PositionOf(logs[i], k) = x => LimitsRate(k, limit, logs[i].rate)

Fill(k, p) == IF k = "Cycles" THEN p.fill ELSE p.rates_sum

PositionOK(logs, k, x, p) ==
  /\ SoundPosition(p)
  /\ p.quantity = p.mainder + TotalIn(logs, x, "mount", k)
  /\ Fill(k, p) = TotalIn(logs, x, "mount", Opposite(k))
  /\ p.fees = TotalIn(logs, x, "fee", Opposite(k))
  /\ AverageWithin(k, p)
  /\ LimitsKept(logs, k, x, p.rate)

VoidOK(logs, k, x, v) ==
  /\ v \in VoidPositionType
  /\ v.log.quantity = v.quantity + TotalIn(logs, x, "mount", k)
  /\ v.log.fill_quantity = TotalIn(logs, x, "mount", Opposite(k))
  /\ v.log.payouts_fees_sum = TotalIn(logs, x, "fee", Opposite(k))
  /\ LimitsRate(k, v.log.rate, v.log.fill_average_rate)
  /\ LimitsKept(logs, k, x, v.log.rate)

LEMMA LimitsAppend ==
  ASSUME NEW logs \in Seq(MatchLogType), NEW log \in MatchLogType, NEW k, NEW x, NEW limit,
         LimitsKept(logs, k, x, limit),
         PositionOf(log, k) = x => LimitsRate(k, limit, log.rate)
  PROVE  LimitsKept(Append(logs, log), k, x, limit)
<1> DEFINE all == Append(logs, log)
           n == Len(logs) + 1
<1>1. /\ Len(all) = n /\ \A i \in 1 .. Len(logs) : all[i] = logs[i]
      /\ all[n] = log /\ 1 .. n = (1 .. Len(logs)) \cup {n}
  BY AppendLog
<1> HIDE DEF all, n
<1>2. LimitsKept(all, k, x, limit)
  BY <1>1 DEF LimitsKept
<1> QED
  BY <1>2 DEF all

(* A trade of others changes nothing for a position. *)
LEMMA NotItsTrade ==
  ASSUME NEW logs \in Seq(MatchLogType), NEW log \in MatchLogType, NEW k \in Kind, NEW x,
         x \notin {log.matcher, log.matchee}
  PROVE  /\ \A p : PositionOK(logs, k, x, p) => PositionOK(Append(logs, log), k, x, p)
         /\ \A v : VoidOK(logs, k, x, v) => VoidOK(Append(logs, log), k, x, v)
<1> DEFINE all == Append(logs, log)
<1>1. \A what, j : j \in Kind => TotalIn(all, x, what, j) = TotalIn(logs, x, what, j)
  <2> TAKE what, j
  <2> HAVE j \in Kind
  <2>1. TotalIn(all, x, what, j) = TotalIn(logs, x, what, j) + 0
    BY TotalAppend
  <2>2. TotalIn(logs, x, what, j) \in Nat
    BY TotalType
  <2> HIDE DEF all
  <2> QED
    BY <2>1, <2>2
<1>2. \A limit : LimitsKept(logs, k, x, limit) => LimitsKept(all, k, x, limit)
  <2> TAKE limit
  <2> HAVE LimitsKept(logs, k, x, limit)
  <2>1. PositionOf(log, k) # x
    BY DEF PositionOf
  <2> QED
    BY <2>1, LimitsAppend
<1>3. Opposite(k) \in Kind
  BY Kinds
<1> HIDE DEF all
<1>4. \A p : PositionOK(logs, k, x, p) => PositionOK(all, k, x, p)
  BY <1>1, <1>2, <1>3 DEF PositionOK
<1>5. \A v : VoidOK(logs, k, x, v) => VoidOK(all, k, x, v)
  BY <1>1, <1>2, <1>3 DEF VoidOK
<1> QED
  BY <1>4, <1>5 DEF all

(* The average rate after one more trade. *)
LEMMA AverageMoves ==
  ASSUME NEW s \in Nat, NEW r \in Nat, NEW sold \in Nat, NEW rate \in Nat, NEW a \in Nat
  PROVE  /\ s <= r * sold /\ rate <= r => s + rate * a <= r * (sold + a)
         /\ s >= r * sold /\ rate >= r => s + rate * a >= r * (sold + a)
<1>1. r * (sold + a) = r * sold + r * a
  OBVIOUS
<1>2. r * sold \in Nat /\ r * a \in Nat /\ rate * a \in Nat
  OBVIOUS
<1>3. (rate <= r => rate * a <= r * a) /\ (rate >= r => rate * a >= r * a)
  BY LessOf
<1> QED
  BY <1>1, <1>2, <1>3

(* A position after its trade. *)
LEMMA ItsTrade ==
  ASSUME NEW logs \in Seq(MatchLogType), NEW log \in MatchLogType, NEW k \in Kind, NEW x,
         x \in {log.matcher, log.matchee},
         NEW p, NEW q, NEW tokens \in Nat, NEW rate \in Nat, PositionOK(logs, k, x, p),
         Took(k, p, q, tokens, rate), WithinLimit(k, p, rate), log.rate = rate,
         \A j \in Kind : log.mount[j] = Amount(j, tokens, rate),
         log.cts_fee[Opposite(k)] = FeeAt(k, FeeCycles(k, p, tokens, rate), rate)
  PROVE  PositionOK(Append(logs, log), k, x, q)
<1> DEFINE all == Append(logs, log)
           o == Opposite(k)
           a == Amount(k, tokens, rate)
           fee == log.cts_fee[o]
           T(what, j) == TotalIn(logs, x, what, j)
<1>1. o \in Kind
  BY Kinds
<1>2. \A what, j : j \in Kind => /\ TotalIn(all, x, what, j) = T(what, j) + Part(log, what, j)
                                 /\ T(what, j) \in Nat
  BY TotalAppend, TotalType
<1>3. a \in Nat /\ Amount(o, tokens, rate) \in Nat /\ log.mount[k] = a
      /\ log.mount[o] = Amount(o, tokens, rate)
  BY <1>1 DEF Amount
<1>4. /\ SoundPosition(p) /\ p.quantity = p.mainder + T("mount", k)
      /\ Fill(k, p) = T("mount", o) /\ p.fees = T("fee", o)
      /\ AverageWithin(k, p) /\ LimitsKept(logs, k, x, p.rate)
  BY DEF PositionOK
<1>5. /\ SoundPosition(q) /\ q.quantity = p.quantity /\ q.rate = p.rate
      /\ p.mainder = q.mainder + a /\ q.rates_sum = p.rates_sum + rate * a
      /\ q.fill = (IF k = "Cycles" THEN p.fill + tokens ELSE p.fill)
      /\ q.fees = p.fees + fee
  BY DEF Took
<1>6. /\ TotalIn(all, x, "mount", k) = T("mount", k) + a
      /\ TotalIn(all, x, "mount", o) = T("mount", o) + Amount(o, tokens, rate)
      /\ TotalIn(all, x, "fee", o) = T("fee", o) + fee
  BY <1>1, <1>2, <1>3 DEF Part
<1>7. T("mount", k) \in Nat /\ T("mount", o) \in Nat /\ T("fee", o) \in Nat
  BY <1>1, <1>2
<1>8. /\ p.mainder \in Nat /\ q.mainder \in Nat /\ p.quantity \in Nat /\ p.rate \in Nat
      /\ p.rates_sum \in Nat /\ p.fill \in Nat /\ p.fees \in Nat
      /\ p.mainder <= p.quantity
  BY <1>4, <1>5 DEF SoundPosition, PositionType
<1> HIDE DEF all, a, fee, T
<1>9. q.quantity = q.mainder + TotalIn(all, x, "mount", k)
  BY <1>3, <1>4, <1>5, <1>6, <1>7, <1>8
<1>10. Fill(k, q) = TotalIn(all, x, "mount", o)
  <2>1. CASE k = "Cycles"
    <3>1. Amount(o, tokens, rate) = tokens /\ Fill(k, q) = q.fill /\ Fill(k, p) = p.fill
      BY <2>1 DEF Amount, Opposite, Fill
    <3> QED
      BY <1>4, <1>5, <1>6, <2>1, <3>1
  <2>2. CASE k = "Token"
    <3>1. /\ Amount(o, tokens, rate) = tokens * rate /\ Fill(k, q) = q.rates_sum
          /\ Fill(k, p) = p.rates_sum /\ a = tokens /\ rate * tokens = tokens * rate
      BY <2>2 DEF Amount, Opposite, Fill, a
    <3> QED
      BY <1>4, <1>5, <1>6, <3>1
  <2> QED
    BY <2>1, <2>2 DEF Kind
<1>11. q.fees = TotalIn(all, x, "fee", o)
  BY <1>4, <1>5, <1>6
<1>12. AverageWithin(k, q)
  <2> DEFINE sold == p.quantity - p.mainder
  <2>0. \A n, i, j \in Nat : i <= n /\ i = j + a => n - i \in Nat /\ n - j = (n - i) + a
    BY <1>3
  <2>1. sold \in Nat /\ q.quantity - q.mainder = sold + a
    <3>1. /\ q.quantity = p.quantity /\ p.mainder = q.mainder + a /\ p.mainder <= p.quantity
          /\ p.mainder \in Nat /\ q.mainder \in Nat /\ p.quantity \in Nat
      BY <1>5, <1>8
    <3> DEFINE n == p.quantity
               i == p.mainder
               j == q.mainder
    <3>2. i <= n /\ i = j + a /\ n \in Nat /\ i \in Nat /\ j \in Nat
      BY <3>1
    <3> HIDE DEF n, i, j
    <3>3. n - i \in Nat /\ n - j = (n - i) + a
      BY <2>0, <3>2
    <3>4. q.quantity = n
      BY <3>1 DEF n
    <3> QED
      BY <3>3, <3>4 DEF n, i, j
  <2>2. /\ AverageWithin(k, p) <=> IF k = "Cycles" THEN p.rates_sum <= p.rate * sold
                                   ELSE p.rates_sum >= p.rate * sold
        /\ WithinLimit(k, p, rate) <=> IF k = "Cycles" THEN rate <= p.rate ELSE rate >= p.rate
    BY DEF AverageWithin, WithinLimit
  <2>3. AverageWithin(k, q) <=>
          IF k = "Cycles" THEN p.rates_sum + rate * a <= p.rate * (sold + a)
          ELSE p.rates_sum + rate * a >= p.rate * (sold + a)
    BY <1>5, <2>1 DEF AverageWithin
  <2> HIDE DEF sold
  <2>4. /\ p.rates_sum <= p.rate * sold /\ rate <= p.rate
             => p.rates_sum + rate * a <= p.rate * (sold + a)
        /\ p.rates_sum >= p.rate * sold /\ rate >= p.rate
             => p.rates_sum + rate * a >= p.rate * (sold + a)
    BY <1>3, <1>8, <2>1, AverageMoves
  <2> QED
    BY <1>4, <2>2, <2>3, <2>4
<1>13. LimitsKept(all, k, x, q.rate)
  <2>1. LimitsRate(k, p.rate, log.rate)
    BY DEF LimitsRate, WithinLimit
  <2> QED
    BY <1>4, <1>5, <2>1, LimitsAppend DEF all
<1>14. PositionOK(all, k, x, q)
  BY <1>5, <1>9, <1>10, <1>11, <1>12, <1>13 DEF PositionOK
<1> QED
  BY <1>14 DEF all

(* A position becomes a void position. *)
LEMMA Voided ==
  ASSUME NEW logs, NEW k \in Kind, NEW x, NEW p, PositionOK(logs, k, x, p)
  PROVE  VoidOK(logs, k, x, VoidPositionOf(k, p)) /\ VoidPositionOf(k, p).quantity = p.mainder
         /\ VoidPositionOf(k, p).log.rate = p.rate
<1> DEFINE sold == p.quantity - p.mainder
           average == IF sold = 0 THEN p.rate ELSE p.rates_sum \div sold
           log == PositionLog(k, p)
           v == VoidPositionOf(k, p)
<1>1. /\ p.mainder \in Nat /\ p.quantity \in Nat /\ p.rate \in Nat /\ p.rates_sum \in Nat
      /\ p.fill \in Nat /\ p.fees \in Nat /\ p.mainder <= p.quantity /\ p.positor \in User
  BY DEF PositionOK, SoundPosition, PositionType
<1>2. /\ log = [quantity |-> p.quantity, rate |-> p.rate, mainder_position_quantity |-> p.mainder,
                fill_quantity |-> Fill(k, p), fill_average_rate |-> average,
                payouts_fees_sum |-> p.fees]
      /\ v = [positor |-> p.positor, quantity |-> p.mainder, log |-> log]
  BY DEF PositionLog, VoidPositionOf, Fill
<1>3. sold \in Nat
  BY <1>1
<1>4. /\ k = "Cycles" => p.rates_sum <= p.rate * sold
      /\ k # "Cycles" => p.rates_sum >= p.rate * sold
  BY DEF PositionOK, AverageWithin
<1> HIDE DEF sold
<1>5. average \in Nat /\ LimitsRate(k, p.rate, average)
  <2>1. CASE sold = 0
    BY <1>1, <2>1 DEF LimitsRate
  <2>2. CASE sold # 0
    <3> DEFINE d == p.rates_sum \div sold
               e == p.rate
               w == e * sold
    <3>1. d \in Nat /\ d * sold <= p.rates_sum /\ p.rates_sum < d * sold + sold
      <4>1. sold > 0
        BY <1>3, <2>2
      <4> QED
        BY <1>1, <1>3, <4>1, Quotient
    <3>2. average = d /\ e \in Nat /\ w \in Nat
      BY <1>1, <1>3, <2>2
    <3>3. (k = "Cycles" => p.rates_sum <= w) /\ (k # "Cycles" => p.rates_sum >= w)
      BY <1>4
    <3>4. /\ d > e => d >= e + 1
          /\ d < e => e >= d + 1
      <4> HIDE DEF d, e
      <4> QED
        BY <3>1, <3>2
    <3>5. /\ d >= e + 1 => (e + 1) * sold <= d * sold
          /\ e >= d + 1 => (d + 1) * sold <= w
      <4> HIDE DEF d, e
      <4> QED
        BY <1>3, <3>1, <3>2, LessOf DEF w
    <3>6. (e + 1) * sold = w + sold /\ (d + 1) * sold = d * sold + sold
      <4> HIDE DEF d, e
      <4> QED
        BY <1>3, <3>1, <3>2 DEF w
    <3> DEFINE ds == d * sold
    <3>7. ds \in Nat
      BY <1>3, <3>1
    <3>8. /\ k = "Cycles" => ~(d > e)
          /\ k # "Cycles" => ~(d < e)
      <4>1. ds <= p.rates_sum /\ p.rates_sum < ds + sold /\ (d > e => w + sold <= ds)
            /\ (d < e => ds + sold <= w)
        BY <3>1, <3>4, <3>5, <3>6
      <4> HIDE DEF d, e, w, ds
      <4> QED
        BY <1>1, <1>3, <2>2, <3>2, <3>3, <3>7, <4>1
    <3> HIDE DEF d, average
    <3> QED
      BY <1>1, <3>1, <3>2, <3>8 DEF LimitsRate
  <2> QED
    BY <2>1, <2>2
<1>6. Fill(k, p) \in Nat
  BY <1>1 DEF Fill
<1> HIDE DEF average, log, v
<1>7. v \in VoidPositionType
  <2> DEFINE fill == Fill(k, p)
  <2> HIDE DEF fill
  <2>1. log \in [quantity : Nat, rate : Nat, mainder_position_quantity : Nat,
                 fill_quantity : Nat, fill_average_rate : Nat, payouts_fees_sum : Nat]
    BY <1>1, <1>2, <1>5, <1>6 DEF fill
  <2> QED
    BY <1>1, <1>2, <2>1 DEF VoidPositionType
<1>8. /\ v.quantity = p.mainder /\ v.log.quantity = p.quantity /\ v.log.rate = p.rate
      /\ v.log.fill_quantity = Fill(k, p) /\ v.log.fill_average_rate = average
      /\ v.log.payouts_fees_sum = p.fees
  BY <1>2
<1>9. VoidOK(logs, k, x, v)
  BY <1>5, <1>7, <1>8 DEF PositionOK, VoidOK
<1> QED
  BY <1>8, <1>9 DEF v

----------------------------------------------------------------------------
(* The invariant of the loop of match_trades for matcher p0 with this id,  *)
(* after n of the matchees.                                                *)

Matchees(k) == DOMAIN positions[Opposite(k)]
Queue == Len(trade_logs) - moved
AllLogs(st) == trade_logs \o st.logs

LoopData(k, p0, st) ==
  /\ st \in MatchState(Matchees(k))
  /\ SamePosition(st.matcher, p0)
  /\ \A m \in Matchees(k) : SamePosition(st.matchees[m], positions[Opposite(k)][m])
  /\ st.matcher_filled \/ Worth(k, st.matcher)
  /\ \A m \in Matchees(k) : m \in st.filled \/ Worth(Opposite(k), st.matchees[m])
  /\ st.matcher_filled => st.stopped
  /\ st.stopped => st.matcher_filled \/ st.cut
  /\ Len(trade_logs) - moved + Len(st.logs) <= MaxTradeLogs

(* The log of a trade between positions with these ids or older ones. *)
LogReal(log, id) ==
  /\ log.matcher <= id /\ log.matchee <= id
  /\ log.mount["Token"] > 0 /\ log.mount["Cycles"] = log.mount["Token"] * log.rate
  /\ \A k \in Kind : log.cts_fee[k] < log.mount[k]

LogsReal(logs, id) == \A i \in 1 .. Len(logs) : LogReal(logs[i], id)

OthersOK(logs, k) ==
  /\ \A x \in DOMAIN positions[k] : PositionOK(logs, k, x, positions[k][x])
  /\ \A j \in Kind : \A x \in DOMAIN void_positions[j] : VoidOK(logs, j, x, void_positions[j][x])

LoopBook(k, id, st) ==
  /\ PositionOK(AllLogs(st), k, id, st.matcher)
  /\ \A m \in Matchees(k) : PositionOK(AllLogs(st), Opposite(k), m, st.matchees[m])
  /\ OthersOK(AllLogs(st), k)
  /\ LogsReal(AllLogs(st), id)

LoopSolvent(k, p0, st) ==
  /\ st.matcher.mainder + Unpaid(AllLogs(st), k) = p0.mainder + Unpaid(trade_logs, k)
  /\ Mainder(st.matchees) + Unpaid(AllLogs(st), Opposite(k)) =
       Mainder(positions[Opposite(k)]) + Unpaid(trade_logs, Opposite(k))

LoopUncrossed(k, p0, st, n) ==
  LET ids == InOrder(Matchees(k))
  IN /\ \A i \in n + 1 .. Cardinality(Matchees(k)) : ids[i] \notin st.filled
     /\ \A i \in 1 .. n : \/ ids[i] \in st.filled
                          \/ ~Compatible(Opposite(k), positions[Opposite(k)][ids[i]], p0.rate)
                          \/ st.matcher_filled \/ st.cut

LEMMA AllLogsAre ==
  ASSUME NEW D, NEW st \in MatchState(D), trade_logs \in Seq(MatchLogType)
  PROVE  /\ AllLogs(st) \in Seq(MatchLogType) /\ Len(AllLogs(st)) = Len(trade_logs) + Len(st.logs)
         /\ \A log \in MatchLogType : \A new :
              new.logs = Append(st.logs, log) => AllLogs(new) = Append(AllLogs(st), log)
<1> DEFINE L == MatchLogType
<1>1. trade_logs \in Seq(L) /\ st.logs \in Seq(L)
  BY DEF MatchState
<1> HIDE DEF L
<1>2. Len(AllLogs(st)) = Len(trade_logs) + Len(st.logs) /\ AllLogs(st) \in Seq(L)
  BY <1>1 DEF AllLogs
<1>3. \A log \in L : \A new : new.logs = Append(st.logs, log) => AllLogs(new) = Append(AllLogs(st), log)
  BY <1>1, ConcatAppend DEF AllLogs
<1> QED
  BY <1>2, <1>3 DEF L

(* The step that does nothing, or sets the flags only. *)
LEMMA LoopSame ==
  ASSUME NEW k, NEW id, NEW p0, NEW st, NEW new, LoopData(k, p0, st), new = st \/ IsCut(st, new),
         new \in MatchState(Matchees(k))
  PROVE  /\ LoopData(k, p0, new)
         /\ LoopBook(k, id, st) => LoopBook(k, id, new)
         /\ LoopSolvent(k, p0, st) => LoopSolvent(k, p0, new)
<1>1. /\ new.matcher = st.matcher /\ new.matchees = st.matchees /\ new.logs = st.logs
      /\ new.filled = st.filled
      /\ new.matcher_filled = st.matcher_filled
      /\ (new.stopped = st.stopped /\ new.cut = st.cut) \/ (new.stopped /\ new.cut)
  BY DEF IsCut
<1>2. AllLogs(new) = AllLogs(st)
  BY <1>1 DEF AllLogs
<1>3. LoopData(k, p0, new)
  BY <1>1 DEF LoopData
<1>4. LoopBook(k, id, st) => LoopBook(k, id, new)
  BY <1>1, <1>2 DEF LoopBook
<1>5. LoopSolvent(k, p0, st) => LoopSolvent(k, p0, new)
  BY <1>1, <1>2 DEF LoopSolvent
<1> QED
  BY <1>3, <1>4, <1>5

LEMMA LoopDataMatch ==
  ASSUME NEW k \in Kind, NEW id, NEW mid \in Matchees(k), NEW p0, NEW st, NEW new, NEW tokens,
         NEW rate, NEW log \in MatchLogType, LoopData(k, p0, st), new \in MatchState(Matchees(k)),
         IsMatch(k, id, mid, Queue, st, new, tokens, rate, log),
         Len(trade_logs) \in Nat, moved \in Nat
  PROVE  LoopData(k, p0, new)
<1> DEFINE D == Matchees(k)
           o == Opposite(k)
           a == new.matcher
           b == new.matchees[mid]
<1>1. /\ ~st.stopped /\ Len(trade_logs) - moved + Len(st.logs) < MaxTradeLogs
      /\ Took(k, st.matcher, a, tokens, rate) /\ Took(o, st.matchees[mid], b, tokens, rate)
      /\ new.matchees = [st.matchees EXCEPT ![mid] = b]
      /\ new.logs = Append(st.logs, log)
      /\ new.filled = IF BelowMinimum(o, b) THEN st.filled \cup {mid} ELSE st.filled
      /\ new.stopped = BelowMinimum(k, a) /\ new.matcher_filled = BelowMinimum(k, a)
  BY DEF IsMatch, Queue
<1>2. /\ st \in MatchState(D) /\ SamePosition(st.matcher, p0)
      /\ \A m \in D : SamePosition(st.matchees[m], positions[o][m])
      /\ \A m \in D : m \in st.filled \/ Worth(o, st.matchees[m])
  BY DEF LoopData
<1>3. \A m \in D : m # mid => new.matchees[m] = st.matchees[m]
  BY <1>1, <1>2 DEF MatchState
<1>4. SamePosition(a, st.matcher) /\ SamePosition(b, st.matchees[mid])
  BY <1>1 DEF Took, SamePosition
<1>5. SamePosition(a, p0)
  BY <1>2, <1>4 DEF SamePosition
<1>6. \A m \in D : SamePosition(new.matchees[m], positions[o][m])
  <2> TAKE m \in D
  <2>1. CASE m = mid
    BY <1>2, <1>4, <2>1 DEF SamePosition
  <2>2. CASE m # mid
    BY <1>2, <1>3, <2>2
  <2> QED
    BY <2>1, <2>2
<1>7. \A p, j : SoundPosition(p) /\ j \in Kind => BelowMinimum(j, p) \/ Worth(j, p)
  <2> TAKE p, j
  <2> HAVE SoundPosition(p) /\ j \in Kind
  <2> DEFINE t == current_position_tokens(j, p, p.rate)
             mm == minimum_match("Token")
  <2>1. p.mainder \in Nat /\ p.rate \in Nat /\ p.rate > 0
    BY DEF SoundPosition, PositionType
  <2>2. t \in Nat /\ mm \in Nat
    BY <2>1, Quotient, MinimumMatch DEF current_position_tokens, Kind
  <2>3. (BelowMinimum(j, p) <=> t < mm \/ t * p.rate < minimum_match("Cycles")) /\ (Worth(j, p) <=> t >= mm)
    BY DEF BelowMinimum, Worth
  <2>4. t < mm \/ t >= mm
    <3> HIDE DEF t, mm
    <3> QED
      BY <2>2
  <2> QED
    BY <2>3, <2>4
<1>8. new.matcher_filled \/ Worth(k, a)
  BY <1>1, <1>7 DEF Took
<1>9. \A m \in D : m \in new.filled \/ Worth(o, new.matchees[m])
  <2> TAKE m \in D
  <2>1. CASE m = mid
    <3>1. BelowMinimum(o, b) \/ Worth(o, b)
      BY <1>1, <1>7, Kinds DEF Took
    <3> QED
      BY <1>1, <2>1, <3>1
  <2>2. CASE m # mid
    BY <1>1, <1>2, <1>3, <2>2
  <2> QED
    BY <2>1, <2>2
<1>10. Len(trade_logs) - moved + Len(new.logs) <= MaxTradeLogs
  <2>1. Len(new.logs) = Len(st.logs) + 1 /\ Len(st.logs) \in Nat
    <3> DEFINE L == MatchLogType
    <3>1. st.logs \in Seq(L) /\ log \in L
      BY <1>2 DEF MatchState
    <3> HIDE DEF L
    <3> QED
      BY <1>1, <3>1
  <2> QED
    BY <1>1, <2>1, MatchingAssumption
<1> QED
  BY <1>1, <1>5, <1>6, <1>8, <1>9, <1>10 DEF LoopData

(* The ids of the book, of the void positions and of the matcher differ. *)
Apart(k, id) ==
  /\ \A m \in Matchees(k) : m < id
  /\ \A x \in DOMAIN positions[k] : x # id /\ x \notin Matchees(k)
  /\ \A j \in Kind : \A x \in DOMAIN void_positions[j] : x # id /\ x \notin Matchees(k)

LEMMA LogIsReal ==
  ASSUME NEW k \in Kind, NEW id \in Nat, NEW mid \in Nat, mid < id, NEW p, NEW m, NEW tokens \in Nat,
         NEW rate \in Nat, tokens > 0, rate > 0, NEW log, IsLog(log, k, id, mid, p, m, tokens, rate),
         SoundPosition(p), SoundPosition(m)
  PROVE  LogReal(log, id)
<1>1. \A j \in Kind : log.cts_fee[j] < log.mount[j]
  <2> TAKE j \in Kind
  <2> DEFINE o == Opposite(j)
             x == IF o = k THEN p ELSE m
  <2>1. o \in Kind /\ Opposite(o) = j /\ SoundPosition(x)
    BY Kinds
  <2>2. log.cts_fee[j] = FeeAt(o, FeeCycles(o, x, tokens, rate), rate) /\ log.mount[j] = Amount(j, tokens, rate)
    BY <2>1 DEF IsLog
  <2> HIDE DEF x, o
  <2>3. FeeAt(o, FeeCycles(o, x, tokens, rate), rate) < Amount(Opposite(o), tokens, rate)
    BY <2>1, FeeOfPosition
  <2> QED
    BY <2>1, <2>2, <2>3
<1>2. log.mount["Token"] = tokens /\ log.mount["Cycles"] = tokens * rate /\ log.rate = rate
      /\ log.matcher = id /\ log.matchee = mid
  BY DEF IsLog, Amount, Kind
<1> QED
  BY <1>1, <1>2 DEF LogReal

LEMMA LoopBookMatch ==
  ASSUME NEW k \in Kind, NEW id \in Nat, NEW mid \in Matchees(k), Matchees(k) \in SUBSET Nat,
         NEW st, NEW new,
         NEW tokens \in Nat, NEW rate \in Nat, NEW log \in MatchLogType,
         st \in MatchState(Matchees(k)), new \in MatchState(Matchees(k)),
         LoopBook(k, id, st), IsMatch(k, id, mid, Queue, st, new, tokens, rate, log),
         trade_logs \in Seq(MatchLogType), Apart(k, id)
  PROVE  LoopBook(k, id, new)
<1> DEFINE D == Matchees(k)
           o == Opposite(k)
           p == st.matcher
           m == st.matchees[mid]
           a == new.matcher
           b == new.matchees[mid]
           all == AllLogs(st)
           all2 == AllLogs(new)
<1>1. /\ tokens > 0 /\ rate > 0 /\ WithinLimit(k, p, rate) /\ WithinLimit(o, m, rate)
      /\ Took(k, p, a, tokens, rate) /\ Took(o, m, b, tokens, rate)
      /\ IsLog(log, k, id, mid, p, m, tokens, rate)
      /\ new.matchees = [st.matchees EXCEPT ![mid] = b] /\ new.logs = Append(st.logs, log)
  BY DEF IsMatch
<1>2. all \in Seq(MatchLogType) /\ all2 = Append(all, log)
  BY <1>1, AllLogsAre
<1>3. /\ PositionOK(all, k, id, p) /\ \A x \in D : PositionOK(all, o, x, st.matchees[x])
      /\ OthersOK(all, k) /\ LogsReal(all, id)
  BY DEF LoopBook
<1>4. o \in Kind /\ o # k /\ Opposite(o) = k
  BY Kinds
<1>5. /\ log.matcher = id /\ log.matchee = mid /\ log.rate = rate
      /\ \A j \in Kind : log.mount[j] = Amount(j, tokens, rate)
      /\ log.cts_fee[Opposite(k)] = FeeAt(k, FeeCycles(k, p, tokens, rate), rate)
      /\ log.cts_fee[Opposite(o)] = FeeAt(o, FeeCycles(o, m, tokens, rate), rate)
  BY <1>1, <1>4 DEF IsLog
<1>6. \A x \in D : x # mid => new.matchees[x] = st.matchees[x]
  BY <1>1 DEF MatchState
<1>7. SoundPosition(p) /\ SoundPosition(m) /\ PositionOK(all, o, mid, m)
  BY <1>3 DEF PositionOK
<1>8. mid \in Nat /\ mid < id /\ \A x \in D : x \in Nat /\ x < id
  BY DEF Apart
<1> HIDE DEF all, all2, p, m, a, b
<1>9. PositionOK(all2, k, id, a)
  <2>1. /\ WithinLimit(k, p, rate) /\ Took(k, p, a, tokens, rate) /\ PositionOK(all, k, id, p)
        /\ id \in {log.matcher, log.matchee}
    BY <1>1, <1>3, <1>5
  <2> QED
    BY <1>2, <1>5, <2>1, ItsTrade
<1>10. PositionOK(all2, o, mid, b)
  <2>1. /\ WithinLimit(o, m, rate) /\ Took(o, m, b, tokens, rate) /\ PositionOK(all, o, mid, m)
        /\ mid \in {log.matcher, log.matchee}
    BY <1>1, <1>5, <1>7
  <2>2. log.cts_fee[Opposite(o)] = FeeAt(o, FeeCycles(o, m, tokens, rate), rate)
    BY <1>5
  <2>3. o \in Kind
    BY <1>4
  <2> HIDE DEF o
  <2> QED
    BY <1>2, <1>5, <2>1, <2>2, <2>3, ItsTrade
<1>11. \A x \in D : PositionOK(all2, o, x, new.matchees[x])
  <2> TAKE x \in D
  <2>1. CASE x = mid
    BY <1>10, <2>1 DEF b
  <2>2. CASE x # mid
    <3>1. x \notin {log.matcher, log.matchee}
      BY <1>5, <1>8, <2>2
    <3> QED
      BY <1>2, <1>3, <1>4, <1>6, <2>2, <3>1, NotItsTrade
  <2> QED
    BY <2>1, <2>2
<1>12. OthersOK(all2, k)
  <2>1. \A x \in DOMAIN positions[k] : x \notin {log.matcher, log.matchee}
    BY <1>5 DEF Apart
  <2>2. \A j \in Kind : \A x \in DOMAIN void_positions[j] : x \notin {log.matcher, log.matchee}
    BY <1>5 DEF Apart
  <2>3. \A x \in DOMAIN positions[k] : PositionOK(all2, k, x, positions[k][x])
    BY <1>2, <1>3, <2>1, NotItsTrade DEF OthersOK
  <2>4. \A j \in Kind : \A x \in DOMAIN void_positions[j] : VoidOK(all2, j, x, void_positions[j][x])
    BY <1>2, <1>3, <2>2, NotItsTrade DEF OthersOK
  <2> QED
    BY <2>3, <2>4 DEF OthersOK
<1>13. LogsReal(all2, id)
  <2>1. LogReal(log, id)
    BY <1>1, <1>7, <1>8, LogIsReal
  <2>2. /\ Len(all2) = Len(all) + 1 /\ \A i \in 1 .. Len(all) : all2[i] = all[i]
        /\ all2[Len(all) + 1] = log /\ 1 .. Len(all) + 1 = (1 .. Len(all)) \cup {Len(all) + 1}
    BY <1>2, AppendLog
  <2> QED
    BY <1>3, <2>1, <2>2 DEF LogsReal
<1> QED
  BY <1>9, <1>11, <1>12, <1>13 DEF LoopBook, all2, a

LEMMA LoopSolventMatch ==
  ASSUME NEW k \in Kind, NEW id, NEW mid \in Matchees(k), NEW p0, NEW st, NEW new,
         NEW tokens \in Nat, NEW rate \in Nat, NEW log \in MatchLogType,
         st \in MatchState(Matchees(k)), new \in MatchState(Matchees(k)),
         LoopSolvent(k, p0, st), IsMatch(k, id, mid, Queue, st, new, tokens, rate, log),
         trade_logs \in Seq(MatchLogType), \A j \in Kind : settled[j] \subseteq 1 .. Len(trade_logs),
         IsFiniteSet(Matchees(k)), p0.mainder \in Nat, Mainder(positions[Opposite(k)]) \in Nat
  PROVE  LoopSolvent(k, p0, new)
<1> DEFINE D == Matchees(k)
           o == Opposite(k)
           p == st.matcher
           m == st.matchees[mid]
           a == new.matcher
           b == new.matchees[mid]
           all == AllLogs(st)
           all2 == AllLogs(new)
<1>1. /\ Took(k, p, a, tokens, rate) /\ Took(o, m, b, tokens, rate)
      /\ \A j \in Kind : log.mount[j] = Amount(j, tokens, rate)
      /\ new.matchees = [st.matchees EXCEPT ![mid] = b] /\ new.logs = Append(st.logs, log)
  BY DEF IsMatch, IsLog
<1>2. all \in Seq(MatchLogType) /\ all2 = Append(all, log) /\ Len(all) = Len(trade_logs) + Len(st.logs)
      /\ Len(trade_logs) \in Nat /\ Len(st.logs) \in Nat
  <2>1. st.logs \in Seq(MatchLogType)
    BY DEF MatchState
  <2> QED
    BY <1>1, <2>1, AllLogsAre, LogsAreLogs
<1>3. o \in Kind
  BY Kinds
<1>4. \A j \in Kind : settled[j] \subseteq 1 .. Len(all)
  BY <1>2
<1> HIDE DEF all, all2
<1>5. \A j \in Kind : Unpaid(all2, j) = Unpaid(all, j) + log.mount[j] /\ Unpaid(all, j) \in Nat
                      /\ log.mount[j] \in Nat
  BY <1>2, <1>4, UnpaidAppend, UnpaidType DEF MatchLogType
<1>6. /\ p.mainder = a.mainder + log.mount[k] /\ m.mainder = b.mainder + log.mount[o]
      /\ a.mainder \in Nat /\ b.mainder \in Nat
  BY <1>1, <1>3 DEF Took, SoundPosition, PositionType
<1>7. /\ Mainder(new.matchees) = Mainder(st.matchees) - m.mainder + b.mainder
      /\ Mainder(st.matchees) \in Nat /\ m.mainder <= Mainder(st.matchees)
  <2>1. DOMAIN st.matchees = D /\ DOMAIN new.matchees = D
    BY DEF MatchState
  <2>2. \A y \in D : st.matchees[y].mainder \in Nat /\ new.matchees[y].mainder \in Nat
    <3>1. \A y \in D : st.matchees[y] \in PositionType /\ new.matchees[y] \in PositionType
      BY DEF MatchState
    <3> QED
      BY <3>1 DEF PositionType
  <2>3. \A y \in D : y # mid => new.matchees[y] = st.matchees[y]
    BY <1>1, <2>1
  <2> DEFINE f == st.matchees
             g == new.matchees
  <2>4. /\ mid \in DOMAIN f /\ IsFiniteSet(DOMAIN f) /\ DOMAIN g = DOMAIN f
        /\ \A y \in DOMAIN f : f[y].mainder \in Nat /\ g[y].mainder \in Nat
        /\ \A y \in DOMAIN f : y # mid => g[y] = f[y]
    BY <2>1, <2>2, <2>3
  <2> HIDE DEF f, g
  <2>5. /\ Mainder(g) = Mainder(f) - f[mid].mainder + g[mid].mainder
        /\ Mainder(f) \in Nat /\ f[mid].mainder <= Mainder(f)
    BY <2>4, MainderUpdate
  <2> QED
    BY <2>5 DEF f, g
<1>8. /\ p.mainder + Unpaid(all, k) = p0.mainder + Unpaid(trade_logs, k)
      /\ Mainder(st.matchees) + Unpaid(all, o) = Mainder(positions[o]) + Unpaid(trade_logs, o)
  BY DEF LoopSolvent, all
<1>9. Unpaid(trade_logs, k) \in Nat /\ Unpaid(trade_logs, o) \in Nat
  BY <1>3, UnpaidType
<1> HIDE DEF p, m, a, b, o
<1>10. a.mainder + Unpaid(all2, k) = p0.mainder + Unpaid(trade_logs, k)
  <2>1. Unpaid(all2, k) = Unpaid(all, k) + log.mount[k] /\ Unpaid(all, k) \in Nat /\ log.mount[k] \in Nat
    BY <1>5
  <2> HIDE DEF all, all2
  <2> QED
    BY <1>6, <1>8, <1>9, <2>1
<1>11. Mainder(new.matchees) + Unpaid(all2, o) = Mainder(positions[o]) + Unpaid(trade_logs, o)
  <2>1. Unpaid(all2, o) = Unpaid(all, o) + log.mount[o] /\ Unpaid(all, o) \in Nat /\ log.mount[o] \in Nat
    BY <1>3, <1>5
  <2> HIDE DEF all, all2
  <2> DEFINE new_book == Mainder(new.matchees)
             old_book == Mainder(st.matchees)
             before == m.mainder
             after == b.mainder
             traded == log.mount[o]
             owed == Unpaid(all, o)
             owed2 == Unpaid(all2, o)
             sum == Mainder(positions[o]) + Unpaid(trade_logs, o)
  <2>2. /\ new_book = old_book - before + after /\ before = after + traded
        /\ owed2 = owed + traded /\ old_book + owed = sum
        /\ old_book \in Nat /\ after \in Nat /\ traded \in Nat /\ owed \in Nat
    BY <1>6, <1>7, <1>8, <2>1
  <2>3. new_book + owed2 = sum
    <3> HIDE DEF new_book, old_book, before, after, traded, owed, owed2, sum
    <3> QED
      BY <2>2
  <2> QED
    BY <2>3, Zenon
<1> QED
  BY <1>10, <1>11 DEF LoopSolvent, all2, a, o

LEMMA LoopUncrossedStep ==
  ASSUME NEW k \in Kind, NEW id, NEW p0, NEW n \in Nat, n < Cardinality(Matchees(k)),
         Matchees(k) \in SUBSET Nat, IsFiniteSet(Matchees(k)),
         NEW mid, mid = InOrder(Matchees(k))[n + 1], NEW st, NEW new,
         LoopData(k, p0, st), LoopUncrossed(k, p0, st, n),
         \/ new = st /\ (st.stopped \/ ~Compatible(Opposite(k), st.matchees[mid], st.matcher.rate))
         \/ IsCut(st, new)
         \/ \E tokens \in Nat, rate \in Nat, log \in MatchLogType :
              IsMatch(k, id, mid, Queue, st, new, tokens, rate, log)
  PROVE  LoopUncrossed(k, p0, new, n + 1)
<1> DEFINE D == Matchees(k)
           o == Opposite(k)
           ids == InOrder(D)
           c == Cardinality(D)
           Cross(x) == Compatible(o, positions[o][x], p0.rate)
<1>1. /\ c \in Nat /\ \A i \in 1 .. c : ids[i] \in D
      /\ \A i, j \in 1 .. c : ids[i] = ids[j] => i = j
  BY Ordered
<1>2. mid \in D /\ n + 1 \in 1 .. c
  BY <1>1
<1>3. /\ \A i \in n + 1 .. c : ids[i] \notin st.filled
      /\ \A i \in 1 .. n : ids[i] \in st.filled \/ ~Cross(ids[i]) \/ st.matcher_filled \/ st.cut
  BY DEF LoopUncrossed
<1>4. /\ SamePosition(st.matcher, p0) /\ SamePosition(st.matchees[mid], positions[o][mid])
      /\ st.matcher_filled => st.stopped
      /\ st.stopped => st.matcher_filled \/ st.cut
  BY <1>2 DEF LoopData
<1>5. Compatible(o, st.matchees[mid], st.matcher.rate) <=> Cross(mid)
  BY <1>4 DEF SamePosition, Compatible
<1>6. /\ new.filled \subseteq st.filled \cup {mid}
      /\ st.filled \subseteq new.filled
      /\ (st.matcher_filled \/ st.cut => new.matcher_filled \/ new.cut)
      /\ mid \in new.filled \/ ~Cross(mid) \/ new.matcher_filled \/ new.cut
  <2>1. CASE new = st /\ (st.stopped \/ ~Compatible(o, st.matchees[mid], st.matcher.rate))
    BY <1>4, <1>5, <2>1
  <2>2. CASE IsCut(st, new)
    BY <2>2 DEF IsCut
  <2>3. ASSUME NEW tokens \in Nat, NEW rate \in Nat, NEW log \in MatchLogType,
               IsMatch(k, id, mid, Queue, st, new, tokens, rate, log)
        PROVE  <1>6!:
    <3>1. /\ ~st.stopped
          /\ BelowMinimum(k, new.matcher) \/ BelowMinimum(o, new.matchees[mid])
          /\ new.filled = IF BelowMinimum(o, new.matchees[mid]) THEN st.filled \cup {mid} ELSE st.filled
          /\ new.matcher_filled = BelowMinimum(k, new.matcher)
          /\ new.cut = st.cut
      BY <2>3 DEF IsMatch
    <3>2. new.filled \subseteq st.filled \cup {mid} /\ st.filled \subseteq new.filled
      BY <3>1
    <3>3. mid \in new.filled \/ new.matcher_filled
      BY <3>1
    <3>4. st.matcher_filled \/ st.cut => new.cut
      BY <1>4, <3>1
    <3> QED
      BY <3>2, <3>3, <3>4
  <2> QED
    BY <2>1, <2>2, <2>3
<1> HIDE DEF c, ids, Cross, o
<1>7. \A i \in (n + 1) + 1 .. c : ids[i] \notin new.filled
  <2> TAKE i \in (n + 1) + 1 .. c
  <2>1. i \in n + 1 .. c /\ i \in 1 .. c /\ i # n + 1
    BY <1>1
  <2>2. ids[i] # mid
    BY <1>1, <1>2, <2>1 DEF ids
  <2> QED
    BY <1>3, <1>6, <2>1, <2>2
<1>8. \A i \in 1 .. n + 1 : ids[i] \in new.filled \/ ~Cross(ids[i]) \/ new.matcher_filled \/ new.cut
  <2> TAKE i \in 1 .. n + 1
  <2>1. CASE i = n + 1
    BY <1>6, <2>1 DEF ids
  <2>2. CASE i # n + 1
    <3>1. i \in 1 .. n
      BY <2>2
    <3> QED
      BY <1>3, <1>6, <3>1
  <2> QED
    BY <2>1, <2>2
<1> QED
  BY <1>7, <1>8 DEF LoopUncrossed, c, ids, Cross, o

LoopInv(k, id, p0, st, n) ==
  LoopData(k, p0, st) /\ LoopBook(k, id, st) /\ LoopSolvent(k, p0, st) /\ LoopUncrossed(k, p0, st, n)

(* What holds when the loop begins. *)
Ready(k, id, p0) ==
  /\ k \in Kind /\ id \in Nat
  /\ trade_logs \in Seq(MatchLogType) /\ moved \in Nat
  /\ \A j \in Kind : settled[j] \subseteq 1 .. Len(trade_logs)
  /\ Matchees(k) \in SUBSET Nat /\ IsFiniteSet(Matchees(k))
  /\ Apart(k, id)
  /\ \A m \in Matchees(k) : /\ PositionOK(trade_logs, Opposite(k), m, positions[Opposite(k)][m])
                            /\ Worth(Opposite(k), positions[Opposite(k)][m])
  /\ positions[Opposite(k)] \in [Matchees(k) -> PositionType]
  /\ OthersOK(trade_logs, k)
  /\ LogsReal(trade_logs, id - 1)
  /\ Len(trade_logs) - moved <= MaxTradeLogs
  /\ \E user \in User, quantity \in Nat, rate \in Nat :
       p0 = NewPosition(user, quantity, rate) /\ rate > 0
  /\ Worth(k, p0)

LEMMA NewPositionOK ==
  ASSUME NEW logs \in Seq(MatchLogType), NEW k \in Kind, NEW id \in Nat, LogsReal(logs, id - 1),
         NEW user \in User, NEW quantity \in Nat, NEW rate \in Nat, rate > 0
  PROVE  PositionOK(logs, k, id, NewPosition(user, quantity, rate))
<1> DEFINE p == NewPosition(user, quantity, rate)
<1>1. p = [positor |-> user, quantity |-> quantity, rate |-> rate, mainder |-> quantity,
           rates_sum |-> 0, fill |-> 0, fees |-> 0]
  BY DEF NewPosition
<1> HIDE DEF p
<1>2. p \in PositionType
  BY <1>1 DEF PositionType
<1>3. /\ p.quantity = quantity /\ p.mainder = quantity /\ p.rate = rate /\ p.rates_sum = 0
      /\ p.fill = 0 /\ p.fees = 0
  BY <1>1
<1>4. \A i \in 1 .. Len(logs) : logs[i].matcher \in Nat /\ logs[i].matchee \in Nat
                               /\ logs[i].matcher # id /\ logs[i].matchee # id
  <2> TAKE i \in 1 .. Len(logs)
  <2>1. logs[i].matcher \in Nat /\ logs[i].matchee \in Nat
    BY LogsAreLogs DEF MatchLogType
  <2>2. logs[i].matcher <= id - 1 /\ logs[i].matchee <= id - 1
    BY DEF LogsReal, LogReal
  <2> QED
    BY <2>1, <2>2
<1>5. \A what, j : TotalIn(logs, id, what, j) = 0
  <2> TAKE what, j
  <2> DEFINE f == [i \in TradesIn(logs, id) |-> Part(logs[i], what, j)]
  <2>1. TradesIn(logs, id) = {}
    BY <1>4 DEF TradesIn
  <2>2. DOMAIN f = {}
    BY <2>1
  <2> HIDE DEF f
  <2>3. SumFunction(f) = 0
    BY <2>2, SumNothing
  <2> QED
    BY <2>3 DEF TotalIn, f
<1>6. LimitsKept(logs, k, id, p.rate)
  BY <1>4 DEF LimitsKept, PositionOf
<1>7. AverageWithin(k, p)
  <2>1. p.quantity - p.mainder = 0 /\ p.rate * 0 = 0
    BY <1>3
  <2> QED
    BY <1>3, <2>1 DEF AverageWithin
<1>8. PositionOK(logs, k, id, p)
  BY <1>2, <1>3, <1>5, <1>6, <1>7 DEF PositionOK, SoundPosition, Fill
<1> QED
  BY <1>8 DEF p

LEMMA LoopFirst ==
  ASSUME NEW k, NEW id, NEW p0, Ready(k, id, p0)
  PROVE  LoopInv(k, id, p0, FirstState(p0, positions[Opposite(k)]), 0)
<1> DEFINE st == FirstState(p0, positions[Opposite(k)])
           D == Matchees(k)
           o == Opposite(k)
<1>1. PICK user \in User, quantity \in Nat, rate \in Nat :
        p0 = NewPosition(user, quantity, rate) /\ rate > 0
  BY DEF Ready
<1>2. k \in Kind /\ id \in Nat /\ trade_logs \in Seq(MatchLogType)
  BY DEF Ready
<1>3. PositionOK(trade_logs, k, id, p0)
  BY <1>1, <1>2, NewPositionOK DEF Ready
<1>4. /\ st.matcher = p0 /\ st.matchees = positions[o] /\ st.logs = <<>> /\ st.filled = {}
      /\ st.stopped = FALSE /\ st.matcher_filled = FALSE /\ st.cut = FALSE
  BY DEF FirstState
<1>5. st \in MatchState(D)
  <2>1. p0 \in PositionType /\ positions[o] \in [D -> PositionType]
    BY <1>3 DEF PositionOK, SoundPosition, Ready
  <2> QED
    BY <2>1 DEF MatchState, FirstState
<1>6. AllLogs(st) = trade_logs
  <2> DEFINE L == MatchLogType
  <2>1. trade_logs \in Seq(L)
    BY <1>2
  <2> HIDE DEF L
  <2>2. trade_logs \o <<>> = trade_logs
    BY <2>1
  <2> QED
    BY <1>4, <2>2 DEF AllLogs
<1> HIDE DEF st
<1>7. LoopData(k, p0, st)
  <2>1. Len(trade_logs) - moved + Len(st.logs) <= MaxTradeLogs
    <3>1. Len(st.logs) = 0 /\ Len(trade_logs) \in Nat /\ moved \in Nat /\ Len(trade_logs) - moved <= MaxTradeLogs
      BY <1>2, <1>4 DEF Ready
    <3> QED
      BY <3>1, MatchingAssumption
  <2> QED
    BY <1>4, <1>5, <2>1 DEF LoopData, SamePosition, Ready
<1>8. LoopBook(k, id, st)
  <2>1. LogsReal(trade_logs, id)
    <3>1. \A i \in 1 .. Len(trade_logs) : LogReal(trade_logs[i], id - 1) /\ trade_logs[i] \in MatchLogType
      BY <1>2, LogsAreLogs DEF Ready, LogsReal
    <3>2. \A i \in 1 .. Len(trade_logs) :
            trade_logs[i].matcher \in Nat /\ trade_logs[i].matchee \in Nat
      BY <3>1 DEF MatchLogType
    <3> QED
      BY <1>2, <3>1, <3>2 DEF LogsReal, LogReal
  <2> QED
    BY <1>3, <1>4, <1>6, <2>1 DEF LoopBook, Ready
<1>9. LoopSolvent(k, p0, st)
  BY <1>4, <1>6 DEF LoopSolvent
<1>10. LoopUncrossed(k, p0, st, 0)
  BY <1>4 DEF LoopUncrossed
<1> QED
  BY <1>7, <1>8, <1>9, <1>10 DEF LoopInv, st

LEMMA LoopStep ==
  ASSUME NEW k, NEW id, NEW p0, Ready(k, id, p0), NEW n \in Nat, n < Cardinality(Matchees(k)),
         NEW limit \in Nat, NEW st, NEW new, LoopInv(k, id, p0, st, n),
         new = MatchStep(k, id, Queue, limit, st, InOrder(Matchees(k))[n + 1])
  PROVE  LoopInv(k, id, p0, new, n + 1)
<1> DEFINE D == Matchees(k)
           o == Opposite(k)
           mid == InOrder(D)[n + 1]
           c == Cardinality(D)
<1>1. /\ k \in Kind /\ id \in Nat /\ trade_logs \in Seq(MatchLogType) /\ moved \in Nat
      /\ D \in SUBSET Nat /\ IsFiniteSet(D) /\ Apart(k, id)
      /\ \A j \in Kind : settled[j] \subseteq 1 .. Len(trade_logs)
  BY DEF Ready
<1>2. LoopData(k, p0, st) /\ LoopBook(k, id, st) /\ LoopSolvent(k, p0, st) /\ LoopUncrossed(k, p0, st, n)
  BY DEF LoopInv
<1>3. c \in Nat /\ mid \in D /\ n + 1 \in n + 1 .. c
  <2>1. c \in Nat /\ \A i \in 1 .. c : InOrder(D)[i] \in D
    BY <1>1, Ordered
  <2>2. n + 1 \in 1 .. c /\ n + 1 \in n + 1 .. c
    BY <2>1
  <2> QED
    BY <2>1, <2>2
<1>4. st \in MatchState(D) /\ SoundPosition(st.matcher) /\ SoundPosition(st.matchees[mid])
  BY <1>2, <1>3 DEF LoopData, LoopBook, PositionOK
<1>5. ~st.stopped => Worth(k, st.matcher)
  BY <1>2 DEF LoopData
<1>6. Worth(o, st.matchees[mid])
  <2>1. mid \notin st.filled
    BY <1>2, <1>3 DEF LoopUncrossed
  <2> QED
    BY <1>2, <1>3, <2>1 DEF LoopData
<1>0. Queue \in Int
  BY <1>1 DEF Queue
<1> HIDE DEF D, mid, o, c
<1>7. /\ new \in MatchState(D)
      /\ \/ new = st /\ (st.stopped \/ ~Compatible(o, st.matchees[mid], st.matcher.rate))
         \/ IsCut(st, new)
         \/ \E tokens \in Nat, rate \in Nat, log \in MatchLogType :
              IsMatch(k, id, mid, Queue, st, new, tokens, rate, log)
  BY <1>0, <1>1, <1>3, <1>4, <1>5, <1>6, StepIs DEF D, o, mid
<1>8. LoopUncrossed(k, p0, new, n + 1)
  BY <1>1, <1>2, <1>7, LoopUncrossedStep DEF D, o, mid
<1>9. LoopData(k, p0, new) /\ LoopBook(k, id, new) /\ LoopSolvent(k, p0, new)
  <2>1. CASE new = st \/ IsCut(st, new)
    BY <1>2, <1>7, <2>1, LoopSame DEF D
  <2>2. ASSUME NEW tokens \in Nat, NEW rate \in Nat, NEW log \in MatchLogType,
               IsMatch(k, id, mid, Queue, st, new, tokens, rate, log)
        PROVE  LoopData(k, p0, new) /\ LoopBook(k, id, new) /\ LoopSolvent(k, p0, new)
    <3>1. LoopData(k, p0, new)
      BY <1>1, <1>2, <1>3, <1>7, <2>2, LoopDataMatch, LogsAreLogs DEF D
    <3>2. LoopBook(k, id, new)
      BY <1>1, <1>2, <1>3, <1>4, <1>7, <2>2, LoopBookMatch DEF D
    <3>3. LoopSolvent(k, p0, new)
      <4>1. p0.mainder \in Nat
        BY DEF Ready, NewPosition
      <4>2. Mainder(positions[o]) \in Nat
        <5>1. positions[o] \in [D -> PositionType]
          BY DEF Ready, D, o
        <5>2. DOMAIN positions[o] = D /\ \A x \in D : positions[o][x].mainder \in Nat
          BY <5>1 DEF PositionType
        <5> QED
          BY <1>1, <5>2, MainderType
      <4> QED
        BY <1>1, <1>2, <1>3, <1>4, <1>7, <2>2, <4>1, <4>2, LoopSolventMatch DEF D, o
    <3> QED
      BY <3>1, <3>2, <3>3
  <2> QED
    BY <1>7, <2>1, <2>2
<1> QED
  BY <1>8, <1>9 DEF LoopInv

(* The result of the loop. *)
LEMMA LoopDone ==
  ASSUME NEW k, NEW id, NEW p0, Ready(k, id, p0), NEW limit \in Nat
  PROVE  LoopInv(k, id, p0, Matched(k, id, p0, positions[Opposite(k)], Queue, limit), Cardinality(Matchees(k)))
<1> DEFINE run == MatchRun(k, id, p0, positions[Opposite(k)], Queue, limit)
           c == Cardinality(Matchees(k))
           T == {n \in 0 .. c : ~LoopInv(k, id, p0, run[n], n)}
<1>1. Matchees(k) \in SUBSET Nat /\ IsFiniteSet(Matchees(k)) /\ c \in Nat
  BY Ordered DEF Ready
<1>2. /\ run[0] = FirstState(p0, positions[Opposite(k)])
      /\ \A i \in 1 .. c : run[i] = MatchStep(k, id, Queue, limit, run[i - 1], InOrder(Matchees(k))[i])
  BY <1>1, MatchRunIs DEF Matchees
<1>3. Matched(k, id, p0, positions[Opposite(k)], Queue, limit) = run[c]
  BY DEF Matched, Matchees
<1> HIDE DEF run, c
<1>4. LoopInv(k, id, p0, run[0], 0)
  BY <1>2, LoopFirst
<1>5. ASSUME T # {} PROVE FALSE
  <2>1. PICK m \in T : \A n \in T : m <= n
    <3>1. T \subseteq Nat
      BY <1>1
    <3> HIDE DEF T
    <3> QED
      BY <3>1, <1>5, LeastNat
  <2>2. m \in 0 .. c /\ m # 0 /\ ~LoopInv(k, id, p0, run[m], m)
    BY <1>4, <2>1
  <2>3. m \in 1 .. c /\ m - 1 \in 0 .. c /\ m - 1 \in Nat /\ (m - 1) + 1 = m /\ m - 1 < c
        /\ m - 1 \notin T
    BY <1>1, <2>1, <2>2
  <2>4. LoopInv(k, id, p0, run[m - 1], m - 1)
    BY <2>3
  <2> HIDE DEF T
  <2> DEFINE i == m - 1
  <2>5. run[m] = MatchStep(k, id, Queue, limit, run[i], InOrder(Matchees(k))[i + 1]) /\ i + 1 = m
    BY <1>2, <2>3
  <2>6. i \in Nat /\ i < c /\ LoopInv(k, id, p0, run[i], i)
    BY <2>3, <2>4
  <2> HIDE DEF i
  <2>7. LoopInv(k, id, p0, run[m], i + 1)
    BY <2>5, <2>6, LoopStep DEF c
  <2> QED
    BY <2>2, <2>5, <2>7
<1>6. c \in 0 .. c /\ c \notin T
  BY <1>1, <1>5
<1> QED
  BY <1>3, <1>6 DEF c

----------------------------------------------------------------------------
(* The inductive invariant of the market. *)

ShapeInv ==
  /\ TypeOK
  /\ positions = [k \in Kind |-> positions[k]] /\ void_positions = [k \in Kind |-> void_positions[k]]
  /\ IsFiniteSet(Active)
  /\ positions_id_counter + Cardinality(TradeCalls) <= MaxId

(* The quests of calls in progress passed the checks. *)
QuestsOK ==
  \A c \in TradeCalls : calls[c].rate # 0
                        /\ ~BelowMinimumQuest(calls[c].kind, calls[c].quantity, calls[c].rate)

(* What is on the book is worth a match, and all the trades add up. *)
BookInv ==
  /\ LogsReal(trade_logs, positions_id_counter - 1)
  /\ \A k \in Kind : \A x \in DOMAIN positions[k] :
       PositionOK(trade_logs, k, x, positions[k][x]) /\ Worth(k, positions[k][x])
  /\ \A k \in Kind : \A x \in DOMAIN void_positions[k] : VoidOK(trade_logs, k, x, void_positions[k][x])
  /\ \A k \in Kind : DOMAIN positions[k] \cap DOMAIN positions[Opposite(k)] = {}
  /\ \A j, k \in Kind : DOMAIN positions[k] \cap DOMAIN void_positions[j] = {}

MarketInv == CallsInv /\ ShapeInv /\ QuestsOK /\ RoomReserved /\ BookInv /\ BookUncrossed /\ Solvent

(* What a trade makes of the state: st is the result of the loop. *)
Created(k, id, st) ==
  LET o      == Opposite(k)
      filled == IF st.matcher_filled THEN {id} ELSE {}
  IN /\ positions' = [j \in Kind |-> positions'[j]]
     /\ void_positions' = [j \in Kind |-> void_positions'[j]]
     /\ DOMAIN positions'[k] = (DOMAIN positions[k] \cup {id}) \ filled
     /\ \A x \in DOMAIN positions'[k] :
          positions'[k][x] = IF x = id THEN st.matcher ELSE positions[k][x]
     /\ DOMAIN positions'[o] = DOMAIN positions[o] \ st.filled
     /\ \A x \in DOMAIN positions'[o] : positions'[o][x] = st.matchees[x]
     /\ DOMAIN void_positions'[k] = DOMAIN void_positions[k] \cup filled
     /\ \A x \in DOMAIN void_positions'[k] :
          void_positions'[k][x] = IF x \in filled THEN VoidPositionOf(k, st.matcher)
                                  ELSE void_positions[k][x]
     /\ DOMAIN void_positions'[o] = DOMAIN void_positions[o] \cup st.filled
     /\ \A x \in DOMAIN void_positions'[o] :
          void_positions'[o][x] = IF x \in st.filled THEN VoidPositionOf(o, st.matchees[x])
                                  ELSE void_positions[o][x]
     /\ \A j \in Kind : /\ positions'[j] = [x \in DOMAIN positions'[j] |-> positions'[j][x]]
                        /\ void_positions'[j] = [x \in DOMAIN void_positions'[j] |-> void_positions'[j][x]]
     /\ trade_logs' = AllLogs(st)
     /\ positions_id_counter' = id + 1
     /\ cut' = IF st.cut THEN cut \cup {id} ELSE cut

LEMMA CreateIs ==
  ASSUME NEW k \in Kind, NEW user, NEW quantity, NEW rate, NEW limit, NEW st,
         st = Matched(k, positions_id_counter, NewPosition(user, quantity, rate),
                      positions[Opposite(k)], Queue, limit),
         DOMAIN st.matchees = Matchees(k), st.filled \subseteq Matchees(k),
         positions = [j \in Kind |-> positions[j]],
         CreateAndMatch(k, user, quantity, rate, limit)
  PROVE  Created(k, positions_id_counter, st)
<1> DEFINE id == positions_id_counter
           o == Opposite(k)
           book == [positions EXCEPT ![k] = With(@, id, st.matcher), ![o] = st.matchees]
           gone == [j \in Kind |-> IF j # k THEN st.filled
                                   ELSE IF st.matcher_filled THEN {id} ELSE {}]
<1>1. /\ positions_id_counter' = new_id(id)
      /\ positions' = [j \in Kind |-> Without(book[j], gone[j])]
      /\ void_positions' = [j \in Kind |->
           [i \in DOMAIN void_positions[j] \cup gone[j] |->
              IF i \in gone[j] THEN VoidPositionOf(j, book[j][i]) ELSE void_positions[j][i]]]
      /\ trade_logs' = trade_logs \o st.logs
      /\ cut' = IF st.cut THEN cut \cup {id} ELSE cut
  BY DEF CreateAndMatch, Queue
<1>2. o \in Kind /\ o # k
  BY Kinds
<1>3. DOMAIN positions = Kind
  OBVIOUS
<1>4. book[k] = With(positions[k], id, st.matcher) /\ book[o] = st.matchees
  BY <1>2, <1>3
<1>5. gone[k] = (IF st.matcher_filled THEN {id} ELSE {}) /\ gone[o] = st.filled
  BY <1>2
<1> HIDE DEF book, gone
<1>6. /\ DOMAIN book[k] = DOMAIN positions[k] \cup {id}
      /\ \A x \in DOMAIN book[k] : book[k][x] = IF x = id THEN st.matcher ELSE positions[k][x]
  BY <1>4 DEF With
<1>7. \A j \in Kind : /\ DOMAIN positions'[j] = DOMAIN book[j] \ gone[j]
                      /\ \A x \in DOMAIN positions'[j] : positions'[j][x] = book[j][x]
                      /\ positions'[j] = [x \in DOMAIN positions'[j] |-> positions'[j][x]]
  BY <1>1 DEF Without
<1>8. \A j \in Kind :
        /\ DOMAIN void_positions'[j] = DOMAIN void_positions[j] \cup gone[j]
        /\ \A x \in DOMAIN void_positions'[j] :
             void_positions'[j][x] = IF x \in gone[j] THEN VoidPositionOf(j, book[j][x])
                                     ELSE void_positions[j][x]
        /\ void_positions'[j] = [x \in DOMAIN void_positions'[j] |-> void_positions'[j][x]]
  BY <1>1
<1>9. positions' = [j \in Kind |-> positions'[j]] /\ void_positions' = [j \in Kind |-> void_positions'[j]]
  BY <1>1
<1>10. \A x \in DOMAIN void_positions'[k] :
         void_positions'[k][x] = IF x \in gone[k] THEN VoidPositionOf(k, st.matcher)
                                 ELSE void_positions[k][x]
  <2>1. \A x \in gone[k] : x = id
    BY <1>5
  <2>2. book[k][id] = st.matcher
    BY <1>6
  <2> TAKE x \in DOMAIN void_positions'[k]
  <2>3. void_positions'[k][x] = IF x \in gone[k] THEN VoidPositionOf(k, book[k][x])
                                ELSE void_positions[k][x]
    BY <1>8
  <2>4. CASE x \in gone[k]
    <3>1. book[k][x] = st.matcher
      BY <2>1, <2>2, <2>4
    <3> QED
      BY <2>3, <2>4, <3>1
  <2>5. CASE x \notin gone[k]
    BY <2>3, <2>5
  <2> QED
    BY <2>4, <2>5
<1>11. \A x \in DOMAIN void_positions'[o] :
         void_positions'[o][x] = IF x \in gone[o] THEN VoidPositionOf(o, st.matchees[x])
                                 ELSE void_positions[o][x]
  BY <1>2, <1>4, <1>8
<1>12. /\ DOMAIN positions'[k] = (DOMAIN positions[k] \cup {id}) \ gone[k]
       /\ \A x \in DOMAIN positions'[k] :
            positions'[k][x] = IF x = id THEN st.matcher ELSE positions[k][x]
  BY <1>6, <1>7
<1>13. /\ DOMAIN positions'[o] = DOMAIN positions[o] \ gone[o]
       /\ \A x \in DOMAIN positions'[o] : positions'[o][x] = st.matchees[x]
  <2>1. DOMAIN book[o] = DOMAIN positions[o] /\ book[o] = st.matchees
    BY <1>4 DEF Matchees
  <2>2. /\ DOMAIN positions'[o] = DOMAIN book[o] \ gone[o]
        /\ \A x \in DOMAIN positions'[o] : positions'[o][x] = book[o][x]
    BY <1>2, <1>7
  <2> QED
    BY <2>1, <2>2
<1>14. /\ DOMAIN void_positions'[k] = DOMAIN void_positions[k] \cup gone[k]
       /\ DOMAIN void_positions'[o] = DOMAIN void_positions[o] \cup gone[o]
  BY <1>2, <1>8
<1>15. \A j \in Kind : /\ positions'[j] = [x \in DOMAIN positions'[j] |-> positions'[j][x]]
                       /\ void_positions'[j] = [x \in DOMAIN void_positions'[j] |-> void_positions'[j][x]]
  BY <1>7, <1>8
<1>16. trade_logs' = AllLogs(st) /\ positions_id_counter' = id + 1
  BY <1>1 DEF AllLogs, new_id
<1>17. cut' = IF st.cut THEN cut \cup {id} ELSE cut
  BY <1>1
<1> HIDE DEF o
<1>18. Opposite(k) = o
  BY DEF o
<1> DEFINE filled == IF st.matcher_filled THEN {id} ELSE {}
<1>19. gone[k] = filled /\ gone[o] = st.filled
  BY <1>5
<1> HIDE DEF filled
<1>20. /\ DOMAIN positions'[k] = (DOMAIN positions[k] \cup {id}) \ filled
       /\ \A x \in DOMAIN positions'[k] :
            positions'[k][x] = IF x = id THEN st.matcher ELSE positions[k][x]
       /\ DOMAIN positions'[Opposite(k)] = DOMAIN positions[Opposite(k)] \ st.filled
       /\ \A x \in DOMAIN positions'[Opposite(k)] : positions'[Opposite(k)][x] = st.matchees[x]
  BY <1>12, <1>13, <1>18, <1>19
<1>21. /\ DOMAIN void_positions'[k] = DOMAIN void_positions[k] \cup filled
       /\ \A x \in DOMAIN void_positions'[k] :
            void_positions'[k][x] = IF x \in filled THEN VoidPositionOf(k, st.matcher)
                                    ELSE void_positions[k][x]
  BY <1>10, <1>14, <1>19
<1>22. /\ DOMAIN void_positions'[Opposite(k)] = DOMAIN void_positions[Opposite(k)] \cup st.filled
       /\ \A x \in DOMAIN void_positions'[Opposite(k)] :
            void_positions'[Opposite(k)][x] =
              IF x \in st.filled THEN VoidPositionOf(Opposite(k), st.matchees[x])
              ELSE void_positions[Opposite(k)][x]
  BY <1>11, <1>14, <1>18, <1>19
<1> QED
  BY <1>9, <1>15, <1>16, <1>17, <1>20, <1>21, <1>22, Zenon DEF Created, filled

LEMMA MatcherReady ==
  ASSUME ShapeInv, BookInv, RoomReserved, NEW k \in Kind, NEW user \in User, NEW quantity \in Nat,
         NEW rate \in Nat, rate # 0, ~BelowMinimumQuest(k, quantity, rate)
  PROVE  Ready(k, positions_id_counter, NewPosition(user, quantity, rate))
<1> DEFINE id == positions_id_counter
           o == Opposite(k)
           D == Matchees(k)
<1>1. o \in Kind /\ o # k /\ \A j \in Kind : j = k \/ j = o
  BY Kinds
<1>2. /\ id \in Nat /\ trade_logs \in Seq(MatchLogType) /\ Len(trade_logs) \in Nat /\ moved \in Nat
      /\ \A j \in Kind : settled[j] \subseteq 1 .. Len(trade_logs)
      /\ positions[o] \in [D -> PositionType]
      /\ \A j \in Kind : DOMAIN positions[j] \subseteq 0 .. id - 1
                         /\ DOMAIN void_positions[j] \subseteq 0 .. id - 1
  BY <1>1, MarketAssumption, LogsAreLogs DEF ShapeInv, TypeOK, Matchees
<1>3. D \in SUBSET Nat /\ IsFiniteSet(D)
  <2>1. D \in SUBSET (0 .. id - 1) /\ IsFiniteSet(0 .. id - 1)
    <3>1. 0 \in Int /\ id - 1 \in Int
      BY <1>2
    <3>2. IsFiniteSet(0 .. id - 1)
      BY ONLY <3>1, FS_Interval
    <3> QED
      BY <1>1, <1>2, <3>2 DEF Matchees
  <2>2. IsFiniteSet(D)
    BY <2>1, FS_Subset
  <2> QED
    BY <1>2, <2>1, <2>2
<1>4. Apart(k, id)
  BY <1>1, <1>2 DEF Apart, BookInv, Matchees
<1>5. OthersOK(trade_logs, k) /\ LogsReal(trade_logs, id - 1)
  BY DEF OthersOK, BookInv
<1>6. \A m \in D : PositionOK(trade_logs, o, m, positions[o][m]) /\ Worth(o, positions[o][m])
  BY <1>1 DEF BookInv, Matchees
<1>7. Len(trade_logs) - moved <= MaxTradeLogs
  BY DEF RoomReserved
<1>8. rate > 0
  OBVIOUS
<1> QED
  BY <1>2, <1>3, <1>4, <1>5, <1>6, <1>7, <1>8, QuestWorth DEF Ready

(* A trade keeps the book in order. *)
LEMMA CreateBook ==
  ASSUME ShapeInv, BookInv, NEW k \in Kind, NEW p0, NEW st,
         LoopData(k, p0, st), LoopBook(k, positions_id_counter, st),
         Created(k, positions_id_counter, st)
  PROVE  BookInv'
<1> DEFINE id == positions_id_counter
           o == Opposite(k)
           D == Matchees(k)
           F == IF st.matcher_filled THEN {id} ELSE {}
           all == AllLogs(st)
<1>1. o \in Kind /\ o # k /\ Opposite(o) = k /\ \A j \in Kind : j = k \/ j = o
  BY Kinds
<1>2. /\ DOMAIN positions'[k] = (DOMAIN positions[k] \cup {id}) \ F
      /\ \A x \in DOMAIN positions'[k] :
           positions'[k][x] = IF x = id THEN st.matcher ELSE positions[k][x]
      /\ DOMAIN positions'[o] = DOMAIN positions[o] \ st.filled
      /\ \A x \in DOMAIN positions'[o] : positions'[o][x] = st.matchees[x]
      /\ DOMAIN void_positions'[k] = DOMAIN void_positions[k] \cup F
      /\ \A x \in DOMAIN void_positions'[k] :
           void_positions'[k][x] = IF x \in F THEN VoidPositionOf(k, st.matcher)
                                   ELSE void_positions[k][x]
      /\ DOMAIN void_positions'[o] = DOMAIN void_positions[o] \cup st.filled
      /\ \A x \in DOMAIN void_positions'[o] :
           void_positions'[o][x] = IF x \in st.filled THEN VoidPositionOf(o, st.matchees[x])
                                   ELSE void_positions[o][x]
      /\ trade_logs' = all /\ positions_id_counter' = id + 1
  BY DEF Created
<1>3. /\ PositionOK(all, k, id, st.matcher)
      /\ \A m \in D : PositionOK(all, o, m, st.matchees[m])
      /\ \A x \in DOMAIN positions[k] : PositionOK(all, k, x, positions[k][x])
      /\ \A j \in Kind : \A x \in DOMAIN void_positions[j] : VoidOK(all, j, x, void_positions[j][x])
      /\ LogsReal(all, id)
  BY DEF LoopBook, OthersOK
<1>4. /\ st.matcher_filled \/ Worth(k, st.matcher)
      /\ \A m \in D : m \in st.filled \/ Worth(o, st.matchees[m])
      /\ st.filled \subseteq D
  BY DEF LoopData, MatchState
<1>5. /\ id \in Nat
      /\ \A j \in Kind : /\ DOMAIN positions[j] \subseteq 0 .. id - 1
                         /\ DOMAIN void_positions[j] \subseteq 0 .. id - 1
  BY MarketAssumption DEF ShapeInv, TypeOK
<1>6. /\ \A j \in Kind : \A x \in DOMAIN positions[j] : Worth(j, positions[j][x])
      /\ DOMAIN positions[k] \cap D = {}
      /\ \A i, j \in Kind : DOMAIN positions[j] \cap DOMAIN void_positions[i] = {}
  BY <1>1 DEF BookInv, Matchees
<1>7. D = DOMAIN positions[o]
  BY DEF Matchees
<1>8. \A j \in Kind : id \notin DOMAIN positions[j] /\ id \notin DOMAIN void_positions[j]
  BY <1>5
<1>9. \A x \in F : x = id /\ st.matcher_filled
  OBVIOUS
<1>10. ~st.matcher_filled \/ F = {id}
  OBVIOUS
<1> HIDE DEF id, o, D, F, all
<1>11. LogsReal(all, positions_id_counter' - 1)
  <2>1. (id + 1) - 1 = id
    BY <1>5
  <2> QED
    BY <1>2, <1>3, <2>1
<1>12. \A x \in DOMAIN positions'[k] : PositionOK(all, k, x, positions'[k][x]) /\ Worth(k, positions'[k][x])
  <2> TAKE x \in DOMAIN positions'[k]
  <2>1. CASE x = id
    <3>1. ~st.matcher_filled
      BY <1>2, <1>10, <2>1
    <3> QED
      BY <1>2, <1>3, <1>4, <2>1, <3>1
  <2>2. CASE x # id
    <3>1. x \in DOMAIN positions[k] /\ positions'[k][x] = positions[k][x]
      BY <1>2, <2>2
    <3> QED
      BY <1>3, <1>6, <3>1
  <2> QED
    BY <2>1, <2>2
<1>13. \A x \in DOMAIN positions'[o] : PositionOK(all, o, x, positions'[o][x]) /\ Worth(o, positions'[o][x])
  <2> TAKE x \in DOMAIN positions'[o]
  <2>1. x \in D /\ x \notin st.filled /\ positions'[o][x] = st.matchees[x]
    BY <1>2, <1>7
  <2> QED
    BY <1>3, <1>4, <2>1
<1>14. \A x \in DOMAIN void_positions'[k] : VoidOK(all, k, x, void_positions'[k][x])
  <2> TAKE x \in DOMAIN void_positions'[k]
  <2>1. CASE x \in F
    <3>1. void_positions'[k][x] = VoidPositionOf(k, st.matcher) /\ x = id
      BY <1>2, <1>9, <2>1
    <3> QED
      BY <1>3, <3>1, Voided
  <2>2. CASE x \notin F
    <3>1. void_positions'[k][x] = void_positions[k][x] /\ x \in DOMAIN void_positions[k]
      BY <1>2, <2>2
    <3> QED
      BY <1>3, <3>1
  <2> QED
    BY <2>1, <2>2
<1>15. \A x \in DOMAIN void_positions'[o] : VoidOK(all, o, x, void_positions'[o][x])
  <2> TAKE x \in DOMAIN void_positions'[o]
  <2>1. CASE x \in st.filled
    <3>1. void_positions'[o][x] = VoidPositionOf(o, st.matchees[x]) /\ x \in D
      BY <1>2, <1>4, <2>1
    <3> QED
      BY <1>1, <1>3, <3>1, Voided
  <2>2. CASE x \notin st.filled
    <3>1. void_positions'[o][x] = void_positions[o][x] /\ x \in DOMAIN void_positions[o]
      BY <1>2, <2>2
    <3> QED
      BY <1>1, <1>3, <3>1
  <2> QED
    BY <2>1, <2>2
<1>16. DOMAIN positions'[k] \cap DOMAIN positions'[o] = {}
  BY <1>1, <1>2, <1>6, <1>7, <1>8
<1>17. \A i, j \in Kind : DOMAIN positions'[j] \cap DOMAIN void_positions'[i] = {}
  <2>1. /\ DOMAIN positions'[k] \cap DOMAIN void_positions'[k] = {}
        /\ DOMAIN positions'[k] \cap DOMAIN void_positions'[o] = {}
        /\ DOMAIN positions'[o] \cap DOMAIN void_positions'[k] = {}
        /\ DOMAIN positions'[o] \cap DOMAIN void_positions'[o] = {}
    BY <1>1, <1>2, <1>4, <1>6, <1>7, <1>8, <1>9
  <2> QED
    BY <1>1, <2>1
<1>18. \A j \in Kind : \A x \in DOMAIN positions'[j] :
         PositionOK(trade_logs', j, x, positions'[j][x]) /\ Worth(j, positions'[j][x])
  BY <1>1, <1>2, <1>12, <1>13
<1>19. \A j \in Kind : \A x \in DOMAIN void_positions'[j] : VoidOK(trade_logs', j, x, void_positions'[j][x])
  BY <1>1, <1>2, <1>14, <1>15
<1>20. \A j \in Kind : DOMAIN positions'[j] \cap DOMAIN positions'[Opposite(j)] = {}
  BY <1>1, <1>16 DEF o
<1>21. LogsReal(trade_logs', positions_id_counter' - 1)
  BY <1>2, <1>11
<1> QED
  BY <1>17, <1>18, <1>19, <1>20, <1>21 DEF BookInv

(* Two positions that could trade are on the book only if the loop was cut. *)
LEMMA CreateUncrossed ==
  ASSUME ShapeInv, BookUncrossed, NEW k \in Kind, NEW p0, NEW st, Matchees(k) \in SUBSET Nat,
         IsFiniteSet(Matchees(k)), LoopData(k, p0, st),
         LoopUncrossed(k, p0, st, Cardinality(Matchees(k))), Created(k, positions_id_counter, st)
  PROVE  BookUncrossed'
<1> DEFINE id == positions_id_counter
           o == Opposite(k)
           D == Matchees(k)
           F == IF st.matcher_filled THEN {id} ELSE {}
           n == Cardinality(D)
<1>1. o \in Kind /\ o # k /\ \A j \in Kind : j = k \/ j = o
  BY Kinds
<1>2. /\ DOMAIN positions'[k] = (DOMAIN positions[k] \cup {id}) \ F
      /\ \A x \in DOMAIN positions'[k] :
           positions'[k][x] = IF x = id THEN st.matcher ELSE positions[k][x]
      /\ DOMAIN positions'[o] = DOMAIN positions[o] \ st.filled
      /\ \A x \in DOMAIN positions'[o] : positions'[o][x] = st.matchees[x]
      /\ cut' = IF st.cut THEN cut \cup {id} ELSE cut
  BY DEF Created
<1>3. /\ st.matcher.rate = p0.rate /\ \A m \in D : st.matchees[m].rate = positions[o][m].rate
  BY DEF LoopData, SamePosition
<1>4. \A m \in D : \/ m \in st.filled \/ ~Compatible(o, positions[o][m], p0.rate)
                   \/ st.matcher_filled \/ st.cut
  <2> TAKE m \in D
  <2>1. PICK i \in 1 .. n : InOrder(D)[i] = m
    BY Ordered
  <2> QED
    BY <2>1 DEF LoopUncrossed
<1>5. id \in Nat /\ \A j \in Kind : DOMAIN positions[j] \subseteq 0 .. id - 1
  BY MarketAssumption DEF ShapeInv, TypeOK
<1>6. D = DOMAIN positions[o]
  BY DEF Matchees
<1>7. st.matcher_filled => F = {id}
  OBVIOUS
<1>8. \A j \in Kind : \A x \in DOMAIN positions[j] : x \in Nat /\ x < id
  BY <1>5
<1> HIDE DEF id, D, F, n
<1>9. \A j \in Kind : \A x \in DOMAIN positions'[j] :
        \/ j = k /\ x = id /\ ~st.matcher_filled /\ positions'[j][x].rate = p0.rate
        \/ x \in DOMAIN positions[j] /\ positions'[j][x].rate = positions[j][x].rate
           /\ (j = o => x \notin st.filled)
  <2> TAKE j \in Kind
  <2> TAKE x \in DOMAIN positions'[j]
  <2>1. CASE j = k
    <3>1. CASE x = id
      BY <1>2, <1>3, <1>7, <2>1, <3>1
    <3>2. CASE x # id
      BY <1>1, <1>2, <2>1, <3>2
    <3> QED
      BY <3>1, <3>2
  <2>2. CASE j = o
    BY <1>2, <1>3, <1>6, <2>2
  <2> QED
    BY <1>1, <2>1, <2>2
<1>10. "Cycles" \in Kind /\ "Token" \in Kind
  BY DEF Kind
<1>11. cut \subseteq cut' /\ (st.cut => id \in cut')
  BY <1>2
<1>12. ASSUME NEW c \in DOMAIN positions'["Cycles"], NEW t \in DOMAIN positions'["Token"],
              positions'["Cycles"][c].rate >= positions'["Token"][t].rate
       PROVE  (IF c > t THEN c ELSE t) \in cut'
  <2>1. CASE k = "Cycles" /\ c = id
    <3>1. o = "Token" /\ t \in D /\ t \notin st.filled /\ ~st.matcher_filled
          /\ positions'["Cycles"][c].rate = p0.rate
          /\ positions'["Token"][t].rate = positions[o][t].rate
      BY <1>1, <1>6, <1>8, <1>9, <1>10, <2>1 DEF Kind, Opposite
    <3>2. Compatible(o, positions[o][t], p0.rate)
      BY <1>12, <3>1 DEF Compatible
    <3>3. st.cut
      BY <1>4, <3>1, <3>2
    <3>4. t \in Nat /\ t < c
      BY <1>6, <1>8, <1>1, <2>1, <3>1
    <3>5. c > t
      BY <1>5, <2>1, <3>4
    <3> QED
      BY <1>11, <2>1, <3>3, <3>5
  <2>2. CASE k = "Token" /\ t = id
    <3>1. o = "Cycles" /\ c \in D /\ c \notin st.filled /\ ~st.matcher_filled
          /\ positions'["Token"][t].rate = p0.rate
          /\ positions'["Cycles"][c].rate = positions[o][c].rate
      BY <1>1, <1>6, <1>8, <1>9, <1>10, <2>2 DEF Kind, Opposite
    <3>2. Compatible(o, positions[o][c], p0.rate)
      BY <1>12, <3>1 DEF Compatible
    <3>3. st.cut
      BY <1>4, <3>1, <3>2
    <3>4. c \in Nat /\ c < t
      BY <1>6, <1>8, <1>1, <2>2, <3>1
    <3>5. ~(c > t)
      BY <1>5, <2>2, <3>4
    <3> QED
      BY <1>11, <2>2, <3>3, <3>5
  <2>3. CASE ~(k = "Cycles" /\ c = id) /\ ~(k = "Token" /\ t = id)
    <3>1. /\ c \in DOMAIN positions["Cycles"] /\ t \in DOMAIN positions["Token"]
          /\ positions'["Cycles"][c].rate = positions["Cycles"][c].rate
          /\ positions'["Token"][t].rate = positions["Token"][t].rate
      BY <1>9, <1>10, <2>3
    <3>2. (IF c > t THEN c ELSE t) \in cut
      BY <1>12, <3>1 DEF BookUncrossed
    <3> QED
      BY <1>11, <3>2
  <2> QED
    BY <2>1, <2>2, <2>3
<1> QED
  BY <1>12 DEF BookUncrossed

----------------------------------------------------------------------------
(* What the contract owes. *)

VoidSum(voids) == SumFunction([x \in DOMAIN voids |-> voids[x].quantity])

LEMMA OwedIs ==
  ASSUME NEW k \in Kind
  PROVE  Owed(k) = Mainder(positions[k]) + VoidSum(void_positions[k]) + Unpaid(trade_logs, k)
BY DEF Owed, Mainder, VoidSum, Unpaid

LEMMA VoidSumType ==
  ASSUME NEW f, IsFiniteSet(DOMAIN f), \A x \in DOMAIN f : f[x].quantity \in Nat
  PROVE  VoidSum(f) \in Nat
<1> DEFINE u == [y \in DOMAIN f |-> f[y].quantity]
<1>1. DOMAIN u = DOMAIN f /\ \A y \in DOMAIN u : u[y] \in Nat /\ u[y] \in Int
  OBVIOUS
<1>2. VoidSum(f) = SumFunction(u)
  BY DEF VoidSum
<1> HIDE DEF u
<1> QED
  BY <1>1, <1>2, SumType

(* The positions F of a book become void. *)
BookMoves(book, voids, book2, voids2, F) ==
  /\ IsFiniteSet(DOMAIN book) /\ IsFiniteSet(DOMAIN voids)
  /\ F \subseteq DOMAIN book /\ F \cap DOMAIN voids = {}
  /\ \A x \in DOMAIN book : book[x].mainder \in Nat
  /\ \A x \in DOMAIN voids : voids[x].quantity \in Nat
  /\ DOMAIN book2 = DOMAIN book \ F
  /\ \A x \in DOMAIN book2 : book2[x].mainder = book[x].mainder
  /\ DOMAIN voids2 = DOMAIN voids \cup F
  /\ \A x \in DOMAIN voids : voids2[x].quantity = voids[x].quantity
  /\ \A x \in F : voids2[x].quantity = book[x].mainder

(* They are still owed as before. *)
LEMMA MoveOwed ==
  ASSUME NEW book, NEW voids, NEW book2, NEW voids2, NEW F, BookMoves(book, voids, book2, voids2, F)
  PROVE  /\ Mainder(book2) + VoidSum(voids2) = Mainder(book) + VoidSum(voids)
         /\ Mainder(book2) \in Nat /\ VoidSum(voids2) \in Nat /\ Mainder(book) \in Nat
         /\ VoidSum(voids) \in Nat
<1> USE DEF BookMoves
<1> DEFINE f == [x \in DOMAIN book |-> book[x].mainder]
           g == [x \in DOMAIN book2 |-> book2[x].mainder]
           v == [x \in DOMAIN voids |-> voids[x].quantity]
           w == [x \in DOMAIN voids2 |-> voids2[x].quantity]
<1>1. /\ DOMAIN f = DOMAIN book /\ DOMAIN v = DOMAIN voids
      /\ F \subseteq DOMAIN f /\ F \cap DOMAIN v = {}
      /\ DOMAIN g = DOMAIN f \ F /\ DOMAIN w = DOMAIN v \cup F
  OBVIOUS
<1>2. /\ Mainder(book) = SumFunction(f) /\ Mainder(book2) = SumFunction(g)
      /\ VoidSum(voids) = SumFunction(v) /\ VoidSum(voids2) = SumFunction(w)
  BY DEF Mainder, VoidSum
<1>3. IsFiniteSet(DOMAIN f) /\ IsFiniteSet(DOMAIN v)
  BY <1>1
<1>4. \A x \in DOMAIN v : v[x] \in Nat
  OBVIOUS
<1>5. /\ \A x \in DOMAIN v : w[x] = v[x]
      /\ \A x \in F : w[x] = f[x]
      /\ \A x \in DOMAIN f : f[x] \in Nat
      /\ \A x \in DOMAIN g : g[x] = f[x]
  OBVIOUS
<1> HIDE DEF f, g, v, w
<1>6. Moves(f, v, g, w, F)
  BY <1>1, <1>3, <1>4, <1>5 DEF Moves
<1> QED
  BY <1>2, <1>6, MoveSum

(* The domains are finite and what is owed are numbers. *)
LEMMA BookTypes ==
  ASSUME ShapeInv
  PROVE  \A k \in Kind :
           /\ IsFiniteSet(DOMAIN positions[k]) /\ IsFiniteSet(DOMAIN void_positions[k])
           /\ \A x \in DOMAIN positions[k] : positions[k][x] \in PositionType /\ positions[k][x].mainder \in Nat
           /\ \A x \in DOMAIN void_positions[k] : void_positions[k][x] \in VoidPositionType
                                                  /\ void_positions[k][x].quantity \in Nat
<1> SUFFICES ASSUME NEW k \in Kind
    PROVE  /\ IsFiniteSet(DOMAIN positions[k]) /\ IsFiniteSet(DOMAIN void_positions[k])
           /\ \A x \in DOMAIN positions[k] : positions[k][x] \in PositionType /\ positions[k][x].mainder \in Nat
           /\ \A x \in DOMAIN void_positions[k] : void_positions[k][x] \in VoidPositionType
                                                  /\ void_positions[k][x].quantity \in Nat
  OBVIOUS
<1>1. /\ positions_id_counter \in Nat
      /\ DOMAIN positions[k] \in SUBSET (0 .. positions_id_counter - 1)
      /\ DOMAIN void_positions[k] \in SUBSET (0 .. positions_id_counter - 1)
      /\ positions[k] \in [DOMAIN positions[k] -> PositionType]
      /\ void_positions[k] \in [DOMAIN void_positions[k] -> VoidPositionType]
  BY MarketAssumption DEF ShapeInv, TypeOK
<1>2. IsFiniteSet(0 .. positions_id_counter - 1)
  BY <1>1, FS_Interval
<1>3. IsFiniteSet(DOMAIN positions[k]) /\ IsFiniteSet(DOMAIN void_positions[k])
  BY <1>1, <1>2, FS_Subset
<1>4. \A x \in DOMAIN positions[k] : positions[k][x] \in PositionType
  BY <1>1
<1>5. \A x \in DOMAIN void_positions[k] : void_positions[k][x] \in VoidPositionType
  BY <1>1
<1> QED
  BY <1>3, <1>4, <1>5 DEF PositionType, VoidPositionType

(* A trade: the quantity was paid in, and is owed now. *)
LEMMA CreateOwed ==
  ASSUME ShapeInv, BookInv, NEW k \in Kind, NEW p0, NEW st, UNCHANGED settled,
         LoopData(k, p0, st), LoopBook(k, positions_id_counter, st),
         LoopSolvent(k, p0, st), p0.mainder \in Nat,
         Created(k, positions_id_counter, st)
  PROVE  Owed(k)' = Owed(k) + p0.mainder /\ Owed(Opposite(k))' = Owed(Opposite(k))
<1> DEFINE id == positions_id_counter
           o == Opposite(k)
           D == Matchees(k)
           F == IF st.matcher_filled THEN {id} ELSE {}
           all == AllLogs(st)
           m == st.matcher.mainder
           book == [x \in DOMAIN positions[k] \cup {id} |-> IF x = id THEN st.matcher ELSE positions[k][x]]
<1>1. o \in Kind /\ o # k
  BY Kinds
<1>2. /\ DOMAIN positions'[k] = (DOMAIN positions[k] \cup {id}) \ F
      /\ \A x \in DOMAIN positions'[k] :
           positions'[k][x] = IF x = id THEN st.matcher ELSE positions[k][x]
      /\ DOMAIN positions'[o] = DOMAIN positions[o] \ st.filled
      /\ \A x \in DOMAIN positions'[o] : positions'[o][x] = st.matchees[x]
      /\ DOMAIN void_positions'[k] = DOMAIN void_positions[k] \cup F
      /\ \A x \in DOMAIN void_positions'[k] :
           void_positions'[k][x] = IF x \in F THEN VoidPositionOf(k, st.matcher)
                                   ELSE void_positions[k][x]
      /\ DOMAIN void_positions'[o] = DOMAIN void_positions[o] \cup st.filled
      /\ \A x \in DOMAIN void_positions'[o] :
           void_positions'[o][x] = IF x \in st.filled THEN VoidPositionOf(o, st.matchees[x])
                                   ELSE void_positions[o][x]
      /\ trade_logs' = all
  BY DEF Created
<1>3. /\ SoundPosition(st.matcher) /\ m \in Nat
      /\ \A x \in D : st.matchees[x].mainder \in Nat
      /\ st.filled \subseteq D /\ D = DOMAIN positions[o] /\ DOMAIN st.matchees = D
      /\ all \in Seq(MatchLogType)
  <2>1. /\ SoundPosition(st.matcher) /\ \A x \in D : SoundPosition(st.matchees[x])
        /\ st \in MatchState(D)
    BY DEF LoopBook, LoopData, PositionOK
  <2>2. st.filled \subseteq D /\ DOMAIN st.matchees = D
    BY <2>1 DEF MatchState
  <2>3. all \in Seq(MatchLogType)
    BY <2>1, AllLogsAre DEF ShapeInv, TypeOK
  <2> QED
    BY <2>1, <2>2, <2>3 DEF SoundPosition, PositionType, Matchees
<1>4. /\ IsFiniteSet(DOMAIN positions[k]) /\ IsFiniteSet(DOMAIN void_positions[k])
      /\ IsFiniteSet(D) /\ IsFiniteSet(DOMAIN void_positions[o])
      /\ \A x \in DOMAIN positions[k] : positions[k][x].mainder \in Nat
      /\ \A x \in DOMAIN void_positions[k] : void_positions[k][x].quantity \in Nat
      /\ \A x \in DOMAIN void_positions[o] : void_positions[o][x].quantity \in Nat
  BY <1>1, <1>3, BookTypes
<1>5. /\ id \notin DOMAIN positions[k] /\ id \notin DOMAIN void_positions[k]
      /\ D \cap DOMAIN void_positions[o] = {}
  <2>1. /\ id \in Nat
        /\ DOMAIN positions[k] \subseteq 0 .. id - 1 /\ DOMAIN void_positions[k] \subseteq 0 .. id - 1
    BY MarketAssumption DEF ShapeInv, TypeOK
  <2> QED
    BY <1>1, <1>3, <2>1 DEF BookInv
<1>6. \A j, p : VoidPositionOf(j, p).quantity = p.mainder
  BY DEF VoidPositionOf
<1>7. Mainder(book) = Mainder(positions[k]) + m
  <2>1. /\ DOMAIN book = DOMAIN positions[k] \cup {id} /\ book[id].mainder = m
        /\ \A y \in DOMAIN book : book[y].mainder \in Nat
        /\ \A y \in DOMAIN positions[k] : book[y] = positions[k][y]
    BY <1>3, <1>4, <1>5
  <2> HIDE DEF book, id
  <2> QED
    BY <1>4, <1>5, <2>1, MainderPut
<1>8. /\ Mainder(positions'[k]) + VoidSum(void_positions'[k]) = Mainder(book) + VoidSum(void_positions[k])
      /\ Mainder(positions'[k]) \in Nat /\ VoidSum(void_positions'[k]) \in Nat /\ Mainder(book) \in Nat
      /\ VoidSum(void_positions[k]) \in Nat
  <2>1. IsFiniteSet(DOMAIN book)
    <3>1. DOMAIN book = DOMAIN positions[k] \cup {id}
      OBVIOUS
    <3> HIDE DEF book
    <3> QED
      BY <1>4, <3>1, FS_AddElement
  <2>2. \A x \in DOMAIN book : book[x].mainder \in Nat
    BY <1>3, <1>4
  <2>3. F \subseteq DOMAIN book /\ F \cap DOMAIN void_positions[k] = {} /\ \A x \in F : x = id
    BY <1>5
  <2>4. DOMAIN positions'[k] = DOMAIN book \ F /\ \A x \in DOMAIN positions'[k] : positions'[k][x] = book[x]
    BY <1>2
  <2>5. \A x \in DOMAIN void_positions[k] : void_positions'[k][x] = void_positions[k][x]
    BY <1>2, <2>3
  <2>6. \A x \in F : void_positions'[k][x].quantity = book[x].mainder
    <3> TAKE x \in F
    <3>1. void_positions'[k][x] = VoidPositionOf(k, st.matcher) /\ x = id
      BY <1>2, <2>3
    <3>2. book[x] = st.matcher
      BY <3>1
    <3> QED
      BY <1>6, <3>1, <3>2
  <2>7. DOMAIN void_positions'[k] = DOMAIN void_positions[k] \cup F
    BY <1>2
  <2> HIDE DEF book, F
  <2> DEFINE v == void_positions[k]
             b2 == positions'[k]
             v2 == void_positions'[k]
  <2>8. /\ IsFiniteSet(DOMAIN v) /\ F \cap DOMAIN v = {} /\ \A x \in DOMAIN v : v[x].quantity \in Nat
        /\ DOMAIN b2 = DOMAIN book \ F
        /\ \A x \in DOMAIN b2 : b2[x].mainder = book[x].mainder
    BY <1>4, <2>3, <2>4
  <2>9. /\ DOMAIN v2 = DOMAIN v \cup F
        /\ \A x \in DOMAIN v : v2[x].quantity = v[x].quantity
        /\ \A x \in F : v2[x].quantity = book[x].mainder
        /\ \A x \in DOMAIN v : v[x].quantity \in Nat
    BY <1>4, <2>5, <2>6, <2>7
  <2> HIDE DEF v, b2, v2
  <2>10. /\ Mainder(b2) + VoidSum(v2) = Mainder(book) + VoidSum(v)
         /\ Mainder(b2) \in Nat /\ VoidSum(v2) \in Nat /\ Mainder(book) \in Nat
         /\ VoidSum(v) \in Nat
    <3>1. BookMoves(book, v, b2, v2, F)
      BY <2>1, <2>2, <2>3, <2>8, <2>9 DEF BookMoves
    <3> QED
      BY <3>1, MoveOwed
  <2> QED
    BY <2>10 DEF v, b2, v2
<1>9. /\ Mainder(positions'[o]) + VoidSum(void_positions'[o]) = Mainder(st.matchees) + VoidSum(void_positions[o])
      /\ Mainder(positions'[o]) \in Nat /\ VoidSum(void_positions'[o]) \in Nat
      /\ Mainder(st.matchees) \in Nat /\ VoidSum(void_positions[o]) \in Nat
  <2> DEFINE b == st.matchees
             v == void_positions[o]
             b2 == positions'[o]
             v2 == void_positions'[o]
             G == st.filled
  <2>1. /\ IsFiniteSet(DOMAIN b) /\ IsFiniteSet(DOMAIN v) /\ G \subseteq DOMAIN b /\ G \cap DOMAIN v = {}
        /\ \A x \in DOMAIN b : b[x].mainder \in Nat
    BY <1>3, <1>4, <1>5
  <2>2. \A x \in DOMAIN v : v[x].quantity \in Nat
    BY <1>4
  <2>3. DOMAIN b2 = DOMAIN b \ G /\ \A x \in DOMAIN b2 : b2[x].mainder = b[x].mainder
    BY <1>2, <1>3
  <2>4. DOMAIN v2 = DOMAIN v \cup G /\ \A x \in DOMAIN v : v2[x].quantity = v[x].quantity
    BY <1>2, <2>1
  <2>5. \A x \in G : v2[x].quantity = b[x].mainder
    BY <1>2, <1>6
  <2> HIDE DEF b, v, b2, v2, G
  <2>6. /\ Mainder(b2) + VoidSum(v2) = Mainder(b) + VoidSum(v)
         /\ Mainder(b2) \in Nat /\ VoidSum(v2) \in Nat /\ Mainder(b) \in Nat /\ VoidSum(v) \in Nat
    <3>1. BookMoves(b, v, b2, v2, G)
      BY <2>1, <2>2, <2>3, <2>4, <2>5 DEF BookMoves
    <3> QED
      BY <3>1, MoveOwed
  <2> QED
    BY <2>6 DEF b, v, b2, v2
<1>10. /\ m + Unpaid(all, k) = p0.mainder + Unpaid(trade_logs, k)
       /\ Mainder(st.matchees) + Unpaid(all, o) = Mainder(positions[o]) + Unpaid(trade_logs, o)
  BY DEF LoopSolvent
<1>11. \A j \in Kind : Unpaid(all, j) \in Nat /\ Unpaid(trade_logs, j) \in Nat
  BY <1>3, UnpaidType DEF ShapeInv, TypeOK
<1>12. /\ Mainder(positions[k]) \in Nat /\ Mainder(positions[o]) \in Nat
  BY <1>1, BookTypes, MainderType
<1>13. /\ Owed(k) = Mainder(positions[k]) + VoidSum(void_positions[k]) + Unpaid(trade_logs, k)
       /\ Owed(o) = Mainder(positions[o]) + VoidSum(void_positions[o]) + Unpaid(trade_logs, o)
  BY <1>1, OwedIs
<1>14. \A j \in Kind : Owed(j)' = Mainder(positions'[j]) + VoidSum(void_positions'[j]) + Unpaid(all, j)
  BY <1>2 DEF Owed, Mainder, VoidSum, Unpaid
<1>15. /\ Owed(k)' = Mainder(positions'[k]) + VoidSum(void_positions'[k]) + Unpaid(all, k)
       /\ Owed(o)' = Mainder(positions'[o]) + VoidSum(void_positions'[o]) + Unpaid(all, o)
       /\ Unpaid(all, k) \in Nat /\ Unpaid(trade_logs, k) \in Nat
       /\ Unpaid(all, o) \in Nat /\ Unpaid(trade_logs, o) \in Nat
  BY <1>1, <1>11, <1>14
<1> HIDE DEF book, all, m, o
<1>16. Owed(k)' = Owed(k) + p0.mainder
  <2> DEFINE b  == Mainder(positions[k])
             b1 == Mainder(book)
             b2 == Mainder(positions'[k])
             v  == VoidSum(void_positions[k])
             v2 == VoidSum(void_positions'[k])
             u  == Unpaid(trade_logs, k)
             u2 == Unpaid(all, k)
             a  == Owed(k)
             a2 == Owed(k)'
             q  == p0.mainder
  <2>1. b \in Nat /\ b1 \in Nat /\ b2 \in Nat /\ v \in Nat /\ v2 \in Nat
    BY <1>8, <1>12
  <2>2. u \in Nat /\ u2 \in Nat /\ m \in Nat /\ q \in Nat
    BY <1>3, <1>15
  <2>3. b1 = b + m /\ b2 + v2 = b1 + v
    BY <1>7, <1>8
  <2>4. m + u2 = q + u
    BY <1>10
  <2>5. a = b + v + u /\ a2 = b2 + v2 + u2
    BY <1>13, <1>15
  <2> HIDE DEF b, b1, b2, v, v2, u, u2, a, a2, q
  <2>6. a2 = a + q
    BY <2>1, <2>2, <2>3, <2>4, <2>5
  <2> QED
    BY <2>6 DEF a, a2, q
<1>17. Owed(o)' = Owed(o)
  <2> DEFINE b  == Mainder(positions[o])
             b1 == Mainder(st.matchees)
             b2 == Mainder(positions'[o])
             v  == VoidSum(void_positions[o])
             v2 == VoidSum(void_positions'[o])
             u  == Unpaid(trade_logs, o)
             u2 == Unpaid(all, o)
             a  == Owed(o)
             a2 == Owed(o)'
  <2>1. b \in Nat /\ b1 \in Nat /\ b2 \in Nat /\ v \in Nat /\ v2 \in Nat
    BY <1>9, <1>12
  <2>2. u \in Nat /\ u2 \in Nat
    BY <1>15
  <2>3. b2 + v2 = b1 + v
    BY <1>9
  <2>4. b1 + u2 = b + u
    BY <1>10
  <2>5. a = b + v + u /\ a2 = b2 + v2 + u2
    BY <1>13, <1>15
  <2> HIDE DEF b, b1, b2, v, v2, u, u2, a, a2
  <2>6. a2 = a
    BY <2>1, <2>2, <2>3, <2>4, <2>5
  <2> QED
    BY <2>6 DEF a, a2
<1> QED
  BY <1>16, <1>17 DEF o

----------------------------------------------------------------------------
(* The calls in progress and the room that they keep. *)

TradesOn(k) == {c \in Call : calls[c].op = "trade" /\ calls[c].kind = k}
One(b) == IF b THEN 1 ELSE 0

(* The numbers of trades in progress when one call changes. *)
LEMMA TradesAt ==
  ASSUME calls \in [Call -> CallType], IsFiniteSet(Active), NEW c \in Call, NEW call,
         calls' = [calls EXCEPT ![c] = call]
  PROVE  /\ IsFiniteSet(Active')
         /\ Cardinality(TradeCalls) \in Nat /\ Cardinality(TradeCalls') \in Nat
         /\ Cardinality(TradeCalls') = Cardinality(TradeCalls) - One(calls[c].op = "trade")
                                                               + One(call.op = "trade")
         /\ \A k : /\ TradesInProgress(k) \in Nat /\ TradesInProgress(k)' \in Nat
                   /\ TradesInProgress(k)' =
                        TradesInProgress(k) - One(calls[c].op = "trade" /\ calls[c].kind = k)
                                            + One(call.op = "trade" /\ call.kind = k)
<1>1. calls'[c] = call /\ \A d \in Call : d # c => calls'[d] = calls[d]
  OBVIOUS
<1>2. Active' \ {c} = Active \ {c} /\ TradeCalls' \ {c} = TradeCalls \ {c}
      /\ \A k : TradesOn(k)' \ {c} = TradesOn(k) \ {c}
  BY <1>1 DEF Active, TradeCalls, TradesOn
<1>3. TradeCalls \in SUBSET Active /\ \A k : TradesOn(k) \in SUBSET Active
  BY DEF Active, TradeCalls, TradesOn
<1>4. IsFiniteSet(TradeCalls) /\ \A k : IsFiniteSet(TradesOn(k))
  BY <1>3, FS_Subset
<1>5. /\ c \in TradeCalls <=> calls[c].op = "trade"
      /\ c \in TradeCalls' <=> call.op = "trade"
      /\ \A k : c \in TradesOn(k) <=> calls[c].op = "trade" /\ calls[c].kind = k
      /\ \A k : c \in TradesOn(k)' <=> call.op = "trade" /\ call.kind = k
  BY <1>1 DEF TradeCalls, TradesOn
<1>6. IsFiniteSet(Active')
  BY <1>2, CardAt
<1>7. /\ Cardinality(TradeCalls) \in Nat /\ Cardinality(TradeCalls') \in Nat
      /\ Cardinality(TradeCalls') = Cardinality(TradeCalls) - One(calls[c].op = "trade")
                                                            + One(call.op = "trade")
  <2>1. /\ Cardinality(TradeCalls) \in Nat /\ Cardinality(TradeCalls') \in Nat
        /\ Cardinality(TradeCalls') = Cardinality(TradeCalls) - (IF c \in TradeCalls THEN 1 ELSE 0)
                                                              + (IF c \in TradeCalls' THEN 1 ELSE 0)
    BY <1>2, <1>4, CardAt
  <2> QED
    BY <1>5, <2>1 DEF One
<1>8. ASSUME NEW k
      PROVE  /\ TradesInProgress(k) \in Nat /\ TradesInProgress(k)' \in Nat
             /\ TradesInProgress(k)' =
                  TradesInProgress(k) - One(calls[c].op = "trade" /\ calls[c].kind = k)
                                      + One(call.op = "trade" /\ call.kind = k)
  <2> DEFINE S == TradesOn(k)
             T == TradesOn(k)'
  <2>1. IsFiniteSet(S) /\ T \ {c} = S \ {c}
    BY <1>2, <1>4
  <2>2. TradesInProgress(k) = Cardinality(S) /\ TradesInProgress(k)' = Cardinality(T)
    BY DEF TradesInProgress, TradesOn
  <2>3. (c \in S <=> calls[c].op = "trade" /\ calls[c].kind = k)
        /\ (c \in T <=> call.op = "trade" /\ call.kind = k)
    BY <1>5
  <2> HIDE DEF S, T
  <2>4. /\ Cardinality(S) \in Nat /\ Cardinality(T) \in Nat
        /\ Cardinality(T) = Cardinality(S) - (IF c \in S THEN 1 ELSE 0) + (IF c \in T THEN 1 ELSE 0)
    BY <2>1, CardAt
  <2> QED
    BY <2>2, <2>3, <2>4 DEF One
<1> QED
  BY <1>6, <1>7, <1>8

(* The locks keep room for every trade in progress. *)
LEMMA LocksCount ==
  ASSUME CallsInv, IsFiniteSet(Active), NEW k \in Kind
  PROVE  Cardinality(locks[k]) \in Nat /\ TradesInProgress(k) <= Cardinality(locks[k])
<1>1. TradesOn(k) \subseteq CallsAt(k) /\ TradesInProgress(k) = Cardinality(TradesOn(k))
  BY DEF CallsAt, TradesOn, TradesInProgress
<1> QED
  BY <1>1, CallersHaveLocks

----------------------------------------------------------------------------
(* Steps of calls that leave the book alone. *)

LEMMA SameBook ==
  ASSUME UNCHANGED bookVars
  PROVE  /\ BookInv => BookInv'
         /\ BookUncrossed => BookUncrossed'
         /\ UNCHANGED settled => \A k : Owed(k)' = Owed(k)
<1>1. /\ positions' = positions /\ positions_id_counter' = positions_id_counter
      /\ void_positions' = void_positions /\ trade_logs' = trade_logs /\ cut' = cut
  BY DEF bookVars
<1>2. BookInv => BookInv'
  BY <1>1 DEF BookInv
<1>3. BookUncrossed => BookUncrossed'
  BY <1>1 DEF BookUncrossed
<1>4. UNCHANGED settled => \A k : Owed(k)' = Owed(k)
  BY <1>1 DEF Owed
<1> QED
  BY <1>2, <1>3, <1>4

LEMMA OwedType ==
  ASSUME ShapeInv, NEW k \in Kind
  PROVE  Owed(k) \in Nat
<1>1. Mainder(positions[k]) \in Nat /\ VoidSum(void_positions[k]) \in Nat
  BY BookTypes, MainderType, VoidSumType
<1>2. Unpaid(trade_logs, k) \in Nat
  BY UnpaidType DEF ShapeInv, TypeOK
<1> QED
  BY <1>1, <1>2, OwedIs

PaidPart(cs, c, k) == IF c \in PaidCallsIn(cs, k) THEN cs[c].quantity ELSE 0

(* The balance covers what is owed when it moves with it. *)
LEMMA SolventStep ==
  ASSUME ShapeInv, Solvent, NEW c \in Call, calls' \in [Call -> CallType], IsFiniteSet(Active'),
         \A d \in Call : d # c => calls'[d] = calls[d],
         \A k \in Kind : Owed(k)' \in Nat /\ positions_balance'[k] \in Nat,
         \A k \in Kind : positions_balance'[k] + Owed(k) + PaidPart(calls, c, k)
                           >= positions_balance[k] + Owed(k)' + PaidPart(calls', c, k)
  PROVE  Solvent'
<1> SUFFICES ASSUME NEW k \in Kind
             PROVE  positions_balance'[k] >= Owed(k)' + PaidIn(k)'
  BY DEF Solvent
<1> DEFINE b  == positions_balance[k]
           b2 == positions_balance'[k]
           a  == Owed(k)
           a2 == Owed(k)'
           s  == PaidSum(calls, k)
           s2 == PaidSum(calls', k)
           q  == PaidPart(calls, c, k)
           q2 == PaidPart(calls', c, k)
<1>1. calls \in [Call -> CallType] /\ b \in Nat
  BY DEF ShapeInv, TypeOK
<1>2. IsFiniteSet({d \in Call : calls[d].op # "none"}) /\ IsFiniteSet({d \in Call : calls'[d].op # "none"})
  BY DEF ShapeInv, Active
<1>3. /\ s \in Nat /\ s2 \in Nat
      /\ \A d \in PaidCallsIn(calls, k) : calls[d].quantity \in Nat
      /\ \A d \in PaidCallsIn(calls', k) : calls'[d].quantity \in Nat
  BY <1>1, <1>2, PaidSumType
<1>4. s2 = s - q + q2
  BY <1>1, <1>2, PaidSumAt DEF PaidPart
<1>5. q \in Nat /\ q2 \in Nat
  BY <1>3 DEF PaidPart
<1>6. a \in Nat /\ a2 \in Nat /\ b2 \in Nat
  BY OwedType
<1>7. PaidIn(k) = s /\ PaidIn(k)' = s2
  BY PaidInIs DEF PaidIn, PaidSum, PaidCallsIn
<1>8. b >= a + s
  BY <1>7 DEF Solvent
<1>9. b2 + a + q >= b + a2 + q2
  OBVIOUS
<1> HIDE DEF b, b2, a, a2, s, s2, q, q2
<1>10. b2 >= a2 + s2
  BY <1>1, <1>3, <1>4, <1>5, <1>6, <1>8, <1>9
<1> QED
  BY <1>7, <1>10 DEF b2, a2

(* The same when no call changes. *)
LEMMA SolventPaid ==
  ASSUME ShapeInv, Solvent, UNCHANGED calls,
         \A k \in Kind : Owed(k)' \in Nat /\ positions_balance'[k] \in Nat,
         \A k \in Kind : positions_balance'[k] + Owed(k) >= positions_balance[k] + Owed(k)'
  PROVE  Solvent'
<1> SUFFICES ASSUME NEW k \in Kind
             PROVE  positions_balance'[k] >= Owed(k)' + PaidIn(k)'
  BY DEF Solvent
<1> DEFINE b  == positions_balance[k]
           b2 == positions_balance'[k]
           a  == Owed(k)
           a2 == Owed(k)'
           s  == PaidIn(k)
<1>1. calls \in [Call -> CallType] /\ b \in Nat /\ IsFiniteSet({d \in Call : calls[d].op # "none"})
  BY DEF ShapeInv, TypeOK, Active
<1>2. s \in Nat /\ PaidIn(k)' = s
  BY <1>1, PaidSumType, PaidInIs DEF PaidIn
<1>3. a \in Nat /\ a2 \in Nat /\ b2 \in Nat
  BY OwedType
<1>4. b >= a + s /\ b2 + a >= b + a2
  BY DEF Solvent
<1> HIDE DEF b, b2, a, a2, s
<1>5. b2 >= a2 + s
  BY <1>1, <1>2, <1>3, <1>4
<1> QED
  BY <1>2, <1>5 DEF b2, a2, s

(* What a call that changes must satisfy. *)
CallMoves(c, call) ==
  /\ call \in CallType /\ calls' = [calls EXCEPT ![c] = call] /\ CallsInv'
  /\ UNCHANGED <<bookVars, paidVars>> /\ positions_balance' \in [Kind -> Nat]
  /\ \A k \in Kind : positions_balance'[k] + PaidPart(calls, c, k)
                       >= positions_balance[k] + PaidPart(calls', c, k)
  /\ call.op = "trade" =>
       /\ call.rate # 0 /\ ~BelowMinimumQuest(call.kind, call.quantity, call.rate)
       /\ \/ calls[c].op = "trade" /\ calls[c].kind = call.kind
          \/ /\ positions_id_counter + Cardinality(TradeCalls) < MaxId
             /\ HasRoom(call.kind)

LEMMA MarketNumbers ==
  /\ MaxId \in Nat /\ MaxPositions \in Nat /\ MaxVoidPositions \in Nat /\ MaxTradeLogs \in Nat
  /\ Reserve \in Nat /\ Reserve > 0 /\ Reserve <= MaxPositions /\ Reserve <= MaxVoidPositions
BY MarketAssumption, MatchingAssumption

LEMMA BookCounts ==
  ASSUME ShapeInv, NEW k \in Kind
  PROVE  Cardinality(DOMAIN positions[k]) \in Nat /\ Cardinality(DOMAIN void_positions[k]) \in Nat
BY BookTypes, FS_CardinalityType

LEMMA CallsStep ==
  ASSUME MarketInv, NEW c \in Call, NEW call, CallMoves(c, call)
  PROVE  MarketInv'
<1>1. CallsInv /\ ShapeInv /\ QuestsOK /\ RoomReserved /\ BookInv /\ BookUncrossed /\ Solvent
  BY DEF MarketInv
<1>2. /\ CallsInv' /\ UNCHANGED <<bookVars, paidVars>> /\ positions_balance' \in [Kind -> Nat]
      /\ calls' = [calls EXCEPT ![c] = call] /\ call \in CallType
  BY DEF CallMoves
<1>3. /\ positions' = positions /\ positions_id_counter' = positions_id_counter
      /\ void_positions' = void_positions /\ trade_logs' = trade_logs /\ cut' = cut
      /\ settled' = settled /\ moved' = moved
  BY <1>2 DEF bookVars, paidVars
<1>4. /\ calls \in [Call -> CallType] /\ calls' \in [Call -> CallType] /\ locks' \in [Kind -> SUBSET User]
      /\ IsFiniteSet(Active) /\ calls'[c] = call
      /\ \A d \in Call : d # c => calls'[d] = calls[d]
  BY <1>1, <1>2 DEF CallsInv, ShapeInv
<1>5. /\ IsFiniteSet(Active')
      /\ Cardinality(TradeCalls) \in Nat /\ Cardinality(TradeCalls') \in Nat
      /\ Cardinality(TradeCalls') = Cardinality(TradeCalls) - One(calls[c].op = "trade")
                                                            + One(call.op = "trade")
      /\ \A k : /\ TradesInProgress(k) \in Nat /\ TradesInProgress(k)' \in Nat
                /\ TradesInProgress(k)' =
                     TradesInProgress(k) - One(calls[c].op = "trade" /\ calls[c].kind = k)
                                         + One(call.op = "trade" /\ call.kind = k)
  BY <1>2, <1>4, TradesAt
<1>6. positions_id_counter' + Cardinality(TradeCalls') <= MaxId
  <2>1. positions_id_counter \in Nat /\ positions_id_counter + Cardinality(TradeCalls) <= MaxId
    BY <1>1, MarketNumbers DEF ShapeInv, TypeOK
  <2>2. call.op = "trade" => \/ calls[c].op = "trade"
                             \/ positions_id_counter + Cardinality(TradeCalls) < MaxId
    BY DEF CallMoves
  <2> QED
    BY <1>3, <1>5, <2>1, <2>2, MarketNumbers DEF One
<1>7. TypeOK'
  <2>1. TypeOK
    BY <1>1 DEF ShapeInv
  <2> QED
    BY <1>2, <1>3, <1>4, <2>1 DEF TypeOK
<1>8. ShapeInv'
  <2>1. positions = [k \in Kind |-> positions[k]] /\ void_positions = [k \in Kind |-> void_positions[k]]
    BY <1>1 DEF ShapeInv
  <2> QED
    BY <1>3, <1>5, <1>6, <1>7, <2>1 DEF ShapeInv
<1>9. QuestsOK'
  <2> SUFFICES ASSUME NEW d \in Call, calls'[d].op = "trade"
               PROVE  calls'[d].rate # 0
                      /\ ~BelowMinimumQuest(calls'[d].kind, calls'[d].quantity, calls'[d].rate)
    BY DEF QuestsOK, TradeCalls
  <2>1. CASE d = c
    BY <1>4, <2>1 DEF CallMoves
  <2>2. CASE d # c
    BY <1>1, <1>4, <2>2 DEF QuestsOK, TradeCalls
  <2> QED
    BY <2>1, <2>2
<1>10. RoomReserved'
  <2>1. ASSUME NEW k \in Kind
        PROVE  /\ Cardinality(DOMAIN positions[k]) + TradesInProgress(k)' + Reserve <= MaxPositions
               /\ Cardinality(DOMAIN void_positions[k]) + Cardinality(DOMAIN positions[k])
                    + TradesInProgress(k)' + Reserve <= MaxVoidPositions + 1
    <3> DEFINE p == Cardinality(DOMAIN positions[k])
               v == Cardinality(DOMAIN void_positions[k])
               l == Cardinality(locks[k])
               t == TradesInProgress(k)
               t2 == TradesInProgress(k)'
    <3>1. /\ p \in Nat /\ v \in Nat /\ l \in Nat /\ t \in Nat /\ t2 \in Nat /\ t <= l
      BY <1>1, <1>4, <1>5, <2>1, BookCounts, LocksCount
    <3>2. p + t + Reserve <= MaxPositions /\ v + p + t + Reserve <= MaxVoidPositions + 1
      BY <1>1, <2>1 DEF RoomReserved
    <3>3. \/ t2 <= t
          \/ t2 <= t + 1 /\ p + l + Reserve < MaxPositions /\ v + p + l + Reserve <= MaxVoidPositions
      <4>1. t2 = t - One(calls[c].op = "trade" /\ calls[c].kind = k) + One(call.op = "trade" /\ call.kind = k)
        BY <1>5
      <4>2. call.op = "trade" => \/ calls[c].op = "trade" /\ calls[c].kind = call.kind
                                 \/ HasRoom(call.kind)
        BY DEF CallMoves
      <4>3. CASE calls[c].op = "trade" /\ calls[c].kind = k
        BY <3>1, <4>1, <4>3 DEF One
      <4>4. CASE ~(calls[c].op = "trade" /\ calls[c].kind = k) /\ call.op = "trade" /\ call.kind = k
        <5>1. HasRoom(k)
          BY <4>2, <4>4
        <5> QED
          BY <3>1, <4>1, <4>4, <5>1 DEF One, HasRoom
      <4>5. CASE ~(call.op = "trade" /\ call.kind = k)
        BY <3>1, <4>1, <4>5 DEF One
      <4> QED
        BY <4>3, <4>4, <4>5
    <3> HIDE DEF p, v, l, t, t2
    <3>4. p + t2 + Reserve <= MaxPositions /\ v + p + t2 + Reserve <= MaxVoidPositions + 1
      BY <3>1, <3>2, <3>3, MarketNumbers
    <3> QED
      BY <3>4 DEF p, v, t2
  <2>2. Len(trade_logs) - moved <= MaxTradeLogs
    BY <1>1 DEF RoomReserved
  <2> QED
    BY <1>3, <2>1, <2>2 DEF RoomReserved
<1>11. BookInv' /\ BookUncrossed' /\ \A k : Owed(k)' = Owed(k)
  BY <1>1, <1>2, <1>3, SameBook
<1>12. Solvent'
  <2>1. \A k \in Kind : Owed(k) \in Nat /\ Owed(k)' \in Nat /\ positions_balance'[k] \in Nat
                        /\ positions_balance[k] \in Nat
    BY <1>1, <1>2, <1>11, OwedType DEF ShapeInv, TypeOK
  <2>2. ASSUME NEW k \in Kind
        PROVE  positions_balance'[k] + Owed(k) + PaidPart(calls, c, k)
                 >= positions_balance[k] + Owed(k)' + PaidPart(calls', c, k)
    <3> DEFINE b  == positions_balance[k]
               b2 == positions_balance'[k]
               a  == Owed(k)
               q  == PaidPart(calls, c, k)
               q2 == PaidPart(calls', c, k)
    <3>1. b \in Nat /\ b2 \in Nat /\ a \in Nat /\ Owed(k)' = a
      BY <1>11, <2>1
    <3>2. \A cs \in [Call -> CallType] : PaidPart(cs, c, k) \in Nat
      <4> TAKE cs \in [Call -> CallType]
      <4>1. cs[c].op = "trade" => cs[c].quantity \in Nat
        <5>1. cs[c] \in CallType
          OBVIOUS
        <5> HIDE DEF q, q2
        <5> QED
          BY <5>1, CallFields
      <4> QED
        BY <4>1 DEF PaidPart, PaidCallsIn
    <3>3. q \in Nat /\ q2 \in Nat
      BY <1>4, <3>2
    <3>4. b2 + q >= b + q2
      BY DEF CallMoves
    <3> HIDE DEF b, b2, a, q, q2
    <3>5. b2 + a + q >= b + a + q2
      BY <3>1, <3>3, <3>4
    <3> QED
      BY <3>1, <3>5 DEF b, b2, q, q2, a
  <2> QED
    BY <1>1, <1>4, <1>5, <2>1, <2>2, SolventStep
<1> QED
  BY <1>2, <1>8, <1>9, <1>10, <1>11, <1>12 DEF MarketInv

(* The calls of a user and the ledgers' answers keep the invariant. *)
LEMMA TradeCallStep ==
  ASSUME MarketInv, NEW c \in Call, NEW user \in User, NEW k \in Kind, TradeCall(c, user, k), CallsInv'
  PROVE  MarketInv'
<1>1. PICK quantity \in Quantity[k], rate \in Rate :
        /\ calls[c] = NoCall
        /\ positions_id_counter + Cardinality({d \in Call : calls[d].op = "trade"}) < MaxId
        /\ rate # 0 /\ ~BelowMinimumQuest(k, quantity, rate)
        /\ HasRoom(k)
        /\ calls' = [calls EXCEPT ![c] = [op |-> "trade", user |-> user, kind |-> k,
                       quantity |-> quantity, rate |-> rate, answer |-> "none"]]
        /\ UNCHANGED <<bookVars, paidVars, positions_balance>>
  BY DEF TradeCall, CallBegins
<1> DEFINE call == [op |-> "trade", user |-> user, kind |-> k, quantity |-> quantity,
                    rate |-> rate, answer |-> "none"]
<1>2. quantity \in Nat /\ rate \in Nat
  BY MarketAssumption
<1>3. call \in CallType
  BY <1>2 DEF CallType
<1>4. /\ call.op = "trade" /\ call.answer = "none" /\ call.kind = k /\ call.rate = rate
      /\ call.quantity = quantity /\ calls' = [calls EXCEPT ![c] = call]
  BY <1>1
<1> HIDE DEF call
<1>5. calls[c].op = "none" /\ calls'[c] = call
  <2>1. calls \in [Call -> CallType]
    BY DEF MarketInv, CallsInv
  <2> QED
    BY <1>1, <1>4, <2>1 DEF NoCall
<1>6. \A j \in Kind : PaidPart(calls, c, j) = 0 /\ PaidPart(calls', c, j) = 0
  BY <1>4, <1>5 DEF PaidPart, PaidCallsIn
<1>7. /\ positions_balance' \in [Kind -> Nat]
      /\ \A j \in Kind : positions_balance'[j] + PaidPart(calls, c, j)
                           >= positions_balance[j] + PaidPart(calls', c, j)
  <2>1. positions_balance \in [Kind -> Nat] /\ positions_balance' = positions_balance
    BY <1>1 DEF MarketInv, ShapeInv, TypeOK
  <2> QED
    BY <1>6, <2>1
<1>8. positions_id_counter + Cardinality(TradeCalls) < MaxId
  BY <1>1 DEF TradeCalls
<1>9. CallMoves(c, call)
  BY <1>1, <1>3, <1>4, <1>7, <1>8 DEF CallMoves
<1> QED
  BY <1>9, CallsStep

LEMMA TransferCallStep ==
  ASSUME MarketInv, NEW c \in Call, NEW user \in User, NEW k \in Kind,
         TransferBalanceCall(c, user, k), CallsInv'
  PROVE  MarketInv'
<1> DEFINE call == [op |-> "transfer", user |-> user, kind |-> k, quantity |-> 0, rate |-> 0,
                    answer |-> "none"]
<1>1. call \in CallType
  BY DEF CallType
<1>2. /\ call.op # "trade" /\ calls' = [calls EXCEPT ![c] = call] /\ calls[c] = NoCall
      /\ UNCHANGED <<bookVars, paidVars, positions_balance>>
  BY DEF TransferBalanceCall, CallBegins
<1> HIDE DEF call
<1>3. calls[c].op # "trade" /\ calls'[c] = call
  <2>1. calls \in [Call -> CallType]
    BY DEF MarketInv, CallsInv
  <2> QED
    BY <1>2, <2>1 DEF NoCall
<1>4. \A j \in Kind : PaidPart(calls, c, j) = 0 /\ PaidPart(calls', c, j) = 0
  BY <1>2, <1>3 DEF PaidPart, PaidCallsIn
<1>5. /\ positions_balance' \in [Kind -> Nat]
      /\ \A j \in Kind : positions_balance'[j] + PaidPart(calls, c, j)
                           >= positions_balance[j] + PaidPart(calls', c, j)
  <2>1. positions_balance \in [Kind -> Nat] /\ positions_balance' = positions_balance
    BY <1>2 DEF MarketInv, ShapeInv, TypeOK
  <2> QED
    BY <1>4, <2>1
<1>6. CallMoves(c, call)
  BY <1>1, <1>2, <1>5 DEF CallMoves
<1> QED
  BY <1>6, CallsStep

LEMMA AnswerStep ==
  ASSUME MarketInv, NEW c \in Call, LedgerAccepts(c) \/ LedgerRefuses(c), CallsInv'
  PROVE  MarketInv'
<1> DEFINE answer == calls'[c].answer
           call == [calls[c] EXCEPT !.answer = answer]
<1>1. /\ calls \in [Call -> CallType] /\ calls[c].op # "none" /\ calls[c].answer = "none"
      /\ positions_balance \in [Kind -> Nat]
  BY DEF MarketInv, CallsInv, ShapeInv, TypeOK, LedgerAccepts, LedgerRefuses
<1>2. /\ calls[c] \in [op : {"trade", "transfer"}, user : User, kind : Kind,
                       quantity : Nat, rate : Nat, answer : {"none", "ok", "err"}]
  <2>1. calls[c] \in CallType
    BY <1>1
  <2> QED
    BY <1>1, <2>1, CallFields
<1>3. PICK a \in {"ok", "err"} :
        /\ calls' = [calls EXCEPT ![c].answer = a]
        /\ positions_balance' = IF a = "ok"
             THEN [positions_balance EXCEPT ![calls[c].kind] = @ + calls[c].quantity]
             ELSE positions_balance
  BY DEF LedgerAccepts, LedgerRefuses
<1>4. UNCHANGED <<bookVars, paidVars>>
  BY DEF LedgerAccepts, LedgerRefuses
<1>5. calls' = [calls EXCEPT ![c] = [calls[c] EXCEPT !.answer = a]]
  BY <1>1, <1>3
<1>6. answer = a /\ call = [calls[c] EXCEPT !.answer = a]
  BY <1>1, <1>2, <1>5
<1>7. /\ call.op = calls[c].op /\ call.kind = calls[c].kind /\ call.quantity = calls[c].quantity
      /\ call.rate = calls[c].rate /\ call.answer = a /\ call \in CallType
      /\ calls' = [calls EXCEPT ![c] = call] /\ calls'[c] = call
  BY <1>1, <1>2, <1>5, <1>6 DEF CallType
<1> HIDE DEF call, answer
<1>8. \A j \in Kind : PaidPart(calls, c, j) = 0
  BY <1>1 DEF PaidPart, PaidCallsIn
<1>9. calls[c].kind \in Kind /\ calls[c].quantity \in Nat
  BY <1>2
<1>10. \A j \in Kind : PaidPart(calls', c, j) =
                        IF call.op = "trade" /\ calls[c].kind = j /\ a = "ok" THEN calls[c].quantity ELSE 0
  BY <1>7 DEF PaidPart, PaidCallsIn
<1>11. positions_balance' \in [Kind -> Nat]
  BY <1>1, <1>3, <1>9
<1>12. ASSUME NEW j \in Kind
       PROVE  positions_balance'[j] + PaidPart(calls, c, j) >= positions_balance[j] + PaidPart(calls', c, j)
  <2>1. positions_balance'[j] = IF a = "ok" /\ j = calls[c].kind
                                THEN positions_balance[j] + calls[c].quantity ELSE positions_balance[j]
    BY <1>1, <1>3
  <2>2. positions_balance[j] \in Nat /\ PaidPart(calls, c, j) = 0
    BY <1>1, <1>8
  <2> DEFINE b == positions_balance[j]
             q == calls[c].quantity
  <2> HIDE DEF b, q
  <2>3. positions_balance'[j] = (IF a = "ok" /\ j = calls[c].kind THEN b + q ELSE b) /\ b \in Nat /\ q \in Nat
        /\ PaidPart(calls', c, j) = (IF call.op = "trade" /\ calls[c].kind = j /\ a = "ok" THEN q ELSE 0)
    BY <1>9, <1>10, <2>1, <2>2 DEF b, q
  <2>4. positions_balance'[j] >= b + PaidPart(calls', c, j) /\ positions_balance'[j] \in Nat
    BY <2>3
  <2> QED
    BY <2>2, <2>4 DEF b
<1>13. call.op = "trade" => /\ call.rate # 0 /\ ~BelowMinimumQuest(call.kind, call.quantity, call.rate)
                            /\ calls[c].op = "trade" /\ calls[c].kind = call.kind
  BY <1>7 DEF MarketInv, QuestsOK, TradeCalls
<1>14. CallMoves(c, call)
  BY <1>4, <1>7, <1>11, <1>12, <1>13 DEF CallMoves
<1> QED
  BY <1>14, CallsStep

(* A call that ends without a position. *)
LEMMA EndStep ==
  ASSUME MarketInv, NEW c \in Call, CallEnds(c), CallsInv', ~(calls[c].op = "trade" /\ calls[c].answer = "ok"),
         UNCHANGED <<bookVars, paidVars, positions_balance>>
  PROVE  MarketInv'
<1>1. /\ calls \in [Call -> CallType] /\ positions_balance \in [Kind -> Nat]
      /\ positions_balance' = positions_balance
  BY DEF MarketInv, CallsInv, ShapeInv, TypeOK
<1>2. /\ NoCall \in CallType /\ calls' = [calls EXCEPT ![c] = NoCall] /\ calls'[c] = NoCall
      /\ NoCall.op # "trade"
  BY <1>1 DEF CallEnds, CallType, NoCall
<1>3. \A j \in Kind : PaidPart(calls, c, j) = 0 /\ PaidPart(calls', c, j) = 0
  BY <1>2 DEF PaidPart, PaidCallsIn
<1>4. \A j \in Kind : positions_balance'[j] + PaidPart(calls, c, j)
                        >= positions_balance[j] + PaidPart(calls', c, j)
  BY <1>1, <1>3
<1>5. CallMoves(c, NoCall)
  BY <1>1, <1>2, <1>4 DEF CallMoves
<1> QED
  BY <1>5, CallsStep

----------------------------------------------------------------------------
(* The ledger took the quantity in: the position is made and matched. *)

LEMMA CreateDomains ==
  ASSUME ShapeInv, NEW k \in Kind, NEW p0, NEW st, LoopData(k, p0, st),
         Created(k, positions_id_counter, st)
  PROVE  \A j \in Kind : /\ DOMAIN positions'[j] \subseteq 0 .. positions_id_counter' - 1
                         /\ DOMAIN void_positions'[j] \subseteq 0 .. positions_id_counter' - 1
<1> DEFINE id == positions_id_counter
           o == Opposite(k)
           F == IF st.matcher_filled THEN {id} ELSE {}
<1>1. o \in Kind /\ o # k /\ \A j \in Kind : j = k \/ j = o
  BY Kinds
<1>2. /\ id \in Nat /\ \A j \in Kind : /\ DOMAIN positions[j] \subseteq 0 .. id - 1
                                       /\ DOMAIN void_positions[j] \subseteq 0 .. id - 1
  BY MarketNumbers DEF ShapeInv, TypeOK
<1>3. /\ DOMAIN positions'[k] = (DOMAIN positions[k] \cup {id}) \ F
      /\ DOMAIN positions'[o] = DOMAIN positions[o] \ st.filled
      /\ DOMAIN void_positions'[k] = DOMAIN void_positions[k] \cup F
      /\ DOMAIN void_positions'[o] = DOMAIN void_positions[o] \cup st.filled
      /\ positions_id_counter' = id + 1
  BY DEF Created
<1>4. st.filled \subseteq DOMAIN positions[o] /\ F \subseteq {id}
  BY DEF LoopData, MatchState, Matchees
<1> HIDE DEF id, o, F
<1>5. \A x \in 0 .. id - 1 : x \in 0 .. (id + 1) - 1
  BY <1>2
<1>6. id \in 0 .. (id + 1) - 1
  BY <1>2
<1>7. \A j \in Kind : \A x \in DOMAIN positions[j] \cup DOMAIN void_positions[j] \cup {id} :
        x \in 0 .. (id + 1) - 1
  BY <1>2, <1>5, <1>6
<1>8. /\ DOMAIN positions'[k] \subseteq DOMAIN positions[k] \cup DOMAIN void_positions[k] \cup {id}
      /\ DOMAIN positions'[o] \subseteq DOMAIN positions[o] \cup DOMAIN void_positions[o] \cup {id}
      /\ DOMAIN void_positions'[k] \subseteq DOMAIN positions[k] \cup DOMAIN void_positions[k] \cup {id}
      /\ DOMAIN void_positions'[o] \subseteq DOMAIN positions[o] \cup DOMAIN void_positions[o] \cup {id}
  BY <1>3, <1>4
<1> QED
  BY <1>1, <1>3, <1>7, <1>8

LEMMA CreateTypes ==
  ASSUME ShapeInv, CallsInv', BookInv', NEW k \in Kind, NEW p0, NEW st, LoopData(k, p0, st),
         Created(k, positions_id_counter, st), UNCHANGED <<paidVars, positions_balance>>,
         positions_id_counter < MaxId
  PROVE  TypeOK'
<1> DEFINE id == positions_id_counter
<1>1. TypeOK
  BY DEF ShapeInv
<1>2. id \in Nat /\ positions_id_counter' = id + 1 /\ positions_id_counter' \in 0 .. MaxId
  BY <1>1, MarketNumbers DEF TypeOK, Created
<1>3. \A j \in Kind : /\ DOMAIN positions'[j] \subseteq 0 .. positions_id_counter' - 1
                      /\ DOMAIN void_positions'[j] \subseteq 0 .. positions_id_counter' - 1
  BY CreateDomains
<1>4. \A j \in Kind : \A x \in DOMAIN positions'[j] : positions'[j][x] \in PositionType
  BY DEF BookInv, PositionOK, SoundPosition
<1>5. \A j \in Kind : \A x \in DOMAIN void_positions'[j] : void_positions'[j][x] \in VoidPositionType
  BY DEF BookInv, VoidOK
<1>6. \A j \in Kind : /\ positions'[j] = [x \in DOMAIN positions'[j] |-> positions'[j][x]]
                      /\ void_positions'[j] = [x \in DOMAIN void_positions'[j] |-> void_positions'[j][x]]
  BY DEF Created
<1>7. \A j \in Kind : positions'[j] \in [DOMAIN positions'[j] -> PositionType]
  BY <1>4, <1>6
<1>8. \A j \in Kind : void_positions'[j] \in [DOMAIN void_positions'[j] -> VoidPositionType]
  BY <1>5, <1>6
<1>9. /\ trade_logs' \in Seq(MatchLogType) /\ Len(trade_logs') = Len(trade_logs) + Len(st.logs)
      /\ Len(trade_logs) \in Nat /\ Len(st.logs) \in Nat
  <2>1. trade_logs \in Seq(MatchLogType) /\ st \in MatchState(Matchees(k)) /\ trade_logs' = AllLogs(st)
    BY <1>1 DEF TypeOK, LoopData, Created
  <2>2. st.logs \in Seq(MatchLogType)
    BY <2>1 DEF MatchState
  <2> QED
    BY <2>1, <2>2, AllLogsAre, LogsAreLogs
<1>10. settled' \in [Kind -> SUBSET (1 .. Len(trade_logs'))] /\ moved' \in 0 .. Len(trade_logs')
  <2>1. /\ settled \in [Kind -> SUBSET (1 .. Len(trade_logs))] /\ moved \in 0 .. Len(trade_logs)
        /\ settled' = settled /\ moved' = moved
    BY <1>1 DEF TypeOK, paidVars
  <2>2. 1 .. Len(trade_logs) \subseteq 1 .. Len(trade_logs') /\ 0 .. Len(trade_logs) \subseteq 0 .. Len(trade_logs')
    BY <1>9
  <2> QED
    BY <2>1, <2>2
<1>11. cut' \subseteq 0 .. positions_id_counter' - 1
  <2>1. cut \subseteq 0 .. id - 1 /\ cut' \subseteq cut \cup {id}
    BY <1>1 DEF TypeOK, Created
  <2> HIDE DEF id
  <2>2. 0 .. id - 1 \subseteq 0 .. (id + 1) - 1 /\ id \in 0 .. (id + 1) - 1
    BY <1>2
  <2> QED
    BY <1>2, <2>1, <2>2
<1>12. /\ locks' \in [Kind -> SUBSET User] /\ calls' \in [Call -> CallType]
       /\ positions_balance' \in [Kind -> Nat]
  BY <1>1 DEF CallsInv, TypeOK
<1> QED
  BY <1>2, <1>3, <1>7, <1>8, <1>9, <1>10, <1>11, <1>12 DEF TypeOK

(* The position takes the room that its call kept. *)
LEMMA CreateRoom ==
  ASSUME ShapeInv, RoomReserved, BookInv, UNCHANGED moved,
         NEW c \in Call, calls[c].op = "trade", NEW k \in Kind, calls[c].kind = k,
         calls' = [calls EXCEPT ![c] = NoCall], NEW p0, NEW st, LoopData(k, p0, st),
         Created(k, positions_id_counter, st)
  PROVE  RoomReserved' /\ IsFiniteSet(Active')
         /\ positions_id_counter < MaxId /\ positions_id_counter' + Cardinality(TradeCalls') <= MaxId
<1> DEFINE id == positions_id_counter
           o == Opposite(k)
           F == IF st.matcher_filled THEN {id} ELSE {}
           D == DOMAIN positions[k] \cup {id}
           G == st.filled
<1>1. o \in Kind /\ o # k /\ \A j \in Kind : j = k \/ j = o
  BY Kinds
<1>2. /\ id \in Nat /\ id + Cardinality(TradeCalls) <= MaxId
      /\ DOMAIN positions[k] \subseteq 0 .. id - 1
      /\ DOMAIN void_positions[k] \subseteq 0 .. id - 1
      /\ calls \in [Call -> CallType] /\ IsFiniteSet(Active)
  BY MarketNumbers DEF ShapeInv, TypeOK
<1>3. /\ DOMAIN positions'[k] = D \ F
      /\ DOMAIN positions'[o] = DOMAIN positions[o] \ G
      /\ DOMAIN void_positions'[k] = DOMAIN void_positions[k] \cup F
      /\ DOMAIN void_positions'[o] = DOMAIN void_positions[o] \cup G
      /\ positions_id_counter' = id + 1 /\ trade_logs' = AllLogs(st)
  BY DEF Created
<1>4. /\ IsFiniteSet(Active')
      /\ Cardinality(TradeCalls) \in Nat /\ Cardinality(TradeCalls') \in Nat
      /\ Cardinality(TradeCalls') = Cardinality(TradeCalls) - 1
      /\ \A j : TradesInProgress(j) \in Nat /\ TradesInProgress(j)' \in Nat
      /\ TradesInProgress(k)' = TradesInProgress(k) - 1
      /\ TradesInProgress(o)' = TradesInProgress(o)
  <2>1. /\ IsFiniteSet(Active')
        /\ Cardinality(TradeCalls) \in Nat /\ Cardinality(TradeCalls') \in Nat
        /\ Cardinality(TradeCalls') = Cardinality(TradeCalls) - One(calls[c].op = "trade")
                                                              + One(NoCall.op = "trade")
        /\ \A j : /\ TradesInProgress(j) \in Nat /\ TradesInProgress(j)' \in Nat
                  /\ TradesInProgress(j)' =
                       TradesInProgress(j) - One(calls[c].op = "trade" /\ calls[c].kind = j)
                                           + One(NoCall.op = "trade" /\ NoCall.kind = j)
    BY <1>2, TradesAt
  <2>2. NoCall.op # "trade"
    BY DEF NoCall
  <2> QED
    BY <1>1, <2>1, <2>2 DEF One
<1>5. /\ IsFiniteSet(DOMAIN positions[k]) /\ IsFiniteSet(DOMAIN void_positions[k])
      /\ IsFiniteSet(DOMAIN positions[o]) /\ IsFiniteSet(DOMAIN void_positions[o])
  BY <1>1, BookTypes
<1>6. id \notin DOMAIN positions[k] /\ id \notin DOMAIN void_positions[k]
  BY <1>2
<1>7. F \subseteq D /\ F \cap DOMAIN void_positions[k] = {}
  BY <1>6
<1>8. G \subseteq DOMAIN positions[o] /\ G \cap DOMAIN void_positions[o] = {}
  BY <1>1 DEF LoopData, MatchState, Matchees, BookInv
<1>9. IsFiniteSet(D) /\ Cardinality(D) = Cardinality(DOMAIN positions[k]) + 1
  BY <1>5, <1>6, FS_AddElement
<1>10. Len(trade_logs') - moved <= MaxTradeLogs
  <2>1. trade_logs \in Seq(MatchLogType) /\ st \in MatchState(Matchees(k)) /\ moved \in Nat
        /\ Len(trade_logs) - moved + Len(st.logs) <= MaxTradeLogs
    BY LogsAreLogs DEF ShapeInv, TypeOK, LoopData
  <2>2. st.logs \in Seq(MatchLogType)
    BY <2>1 DEF MatchState
  <2>3. Len(trade_logs') = Len(trade_logs) + Len(st.logs) /\ Len(trade_logs) \in Nat /\ Len(st.logs) \in Nat
    BY <1>3, <2>1, <2>2, AllLogsAre, LogsAreLogs
  <2> QED
    BY <2>1, <2>3, MarketNumbers
<1> HIDE DEF id, o, F, D, G
<1>11. /\ Cardinality(DOMAIN positions'[k]) + TradesInProgress(k)' + Reserve <= MaxPositions
       /\ Cardinality(DOMAIN void_positions'[k]) + Cardinality(DOMAIN positions'[k])
            + TradesInProgress(k)' + Reserve <= MaxVoidPositions + 1
  <2> DEFINE p == Cardinality(DOMAIN positions[k])
             v == Cardinality(DOMAIN void_positions[k])
             p2 == Cardinality(D \ F)
             v2 == Cardinality(DOMAIN void_positions[k] \cup F)
             t == TradesInProgress(k)
  <2>1. v \in Nat /\ p2 \in Nat /\ v2 \in Nat /\ p2 <= Cardinality(D) /\ v2 + p2 = v + Cardinality(D)
    BY <1>5, <1>7, <1>9, CardMoves
  <2>2. p \in Nat /\ p2 <= p + 1 /\ v2 + p2 = v + p + 1
    BY <1>5, <1>9, <2>1, FS_CardinalityType
  <2>3. p + t + Reserve <= MaxPositions /\ v + p + t + Reserve <= MaxVoidPositions + 1 /\ t \in Nat
    BY <1>4 DEF RoomReserved
  <2> HIDE DEF p, v, p2, v2, t
  <2>4. p2 + (t - 1) + Reserve <= MaxPositions /\ v2 + p2 + (t - 1) + Reserve <= MaxVoidPositions + 1
    BY <2>1, <2>2, <2>3, MarketNumbers
  <2> QED
    BY <1>3, <1>4, <2>4 DEF p2, v2, t
<1>12. /\ Cardinality(DOMAIN positions'[o]) + TradesInProgress(o)' + Reserve <= MaxPositions
       /\ Cardinality(DOMAIN void_positions'[o]) + Cardinality(DOMAIN positions'[o])
            + TradesInProgress(o)' + Reserve <= MaxVoidPositions + 1
  <2> DEFINE p == Cardinality(DOMAIN positions[o])
             v == Cardinality(DOMAIN void_positions[o])
             p2 == Cardinality(DOMAIN positions[o] \ G)
             v2 == Cardinality(DOMAIN void_positions[o] \cup G)
             t == TradesInProgress(o)
  <2>1. /\ v \in Nat /\ p2 \in Nat /\ v2 \in Nat /\ p \in Nat /\ p2 <= p /\ v2 + p2 = v + p
    BY <1>5, <1>8, CardMoves
  <2>2. p + t + Reserve <= MaxPositions /\ v + p + t + Reserve <= MaxVoidPositions + 1 /\ t \in Nat
    BY <1>1, <1>4 DEF RoomReserved
  <2> HIDE DEF p, v, p2, v2, t
  <2>3. p2 + t + Reserve <= MaxPositions /\ v2 + p2 + t + Reserve <= MaxVoidPositions + 1
    BY <2>1, <2>2, MarketNumbers
  <2> QED
    BY <1>3, <1>4, <2>3 DEF p2, v2, t
<1>13. id < MaxId /\ positions_id_counter' + Cardinality(TradeCalls') <= MaxId
  <2>1. Cardinality(TradeCalls) >= 1
    BY <1>4
  <2> QED
    BY <1>2, <1>3, <1>4, <2>1, MarketNumbers
<1>14. RoomReserved'
  <2>1. moved' = moved
    OBVIOUS
  <2> QED
    BY <1>1, <1>10, <1>11, <1>12, <2>1 DEF RoomReserved
<1> QED
  BY <1>4, <1>13, <1>14 DEF id

LEMMA CreateStep ==
  ASSUME MarketInv, CallsInv', NEW c \in Call, calls[c].op = "trade", calls[c].answer = "ok",
         NEW limit \in Nat,
         CreateAndMatch(calls[c].kind, calls[c].user, calls[c].quantity, calls[c].rate, limit),
         calls' = [calls EXCEPT ![c] = NoCall], UNCHANGED <<paidVars, positions_balance>>
  PROVE  MarketInv'
<1>1. CallsInv /\ ShapeInv /\ QuestsOK /\ RoomReserved /\ BookInv /\ BookUncrossed /\ Solvent
  BY DEF MarketInv
<1>2. PICK k \in Kind, user \in User, quantity \in Nat, rate \in Nat :
        /\ calls[c].kind = k /\ calls[c].user = user
        /\ calls[c].quantity = quantity /\ calls[c].rate = rate
  <2>1. calls[c] \in CallType
    BY <1>1 DEF CallsInv
  <2>2. calls[c] \in [op : {"trade", "transfer"}, user : User, kind : Kind,
                      quantity : Nat, rate : Nat, answer : {"none", "ok", "err"}]
    BY <2>1, CallFields
  <2> QED
    BY <2>2
<1> DEFINE id == positions_id_counter
           p0 == NewPosition(user, quantity, rate)
           st == Matched(k, id, p0, positions[Opposite(k)], Queue, limit)
           o == Opposite(k)
<1>3. rate # 0 /\ ~BelowMinimumQuest(k, quantity, rate)
  BY <1>1, <1>2 DEF QuestsOK, TradeCalls
<1>4. p0.mainder = quantity
  BY DEF NewPosition
<1>5. CreateAndMatch(k, user, quantity, rate, limit)
  BY <1>2
<1>6. /\ UNCHANGED <<settled, moved>> /\ positions_balance' = positions_balance
      /\ calls \in [Call -> CallType] /\ calls' \in [Call -> CallType]
      /\ calls'[c].op # "trade" /\ \A d \in Call : d # c => calls'[d] = calls[d]
  BY <1>1 DEF CallsInv, paidVars, NoCall
<1> HIDE DEF p0
<1>7. Ready(k, id, p0)
  BY <1>1, <1>2, <1>3, MatcherReady DEF p0
<1>8. LoopInv(k, id, p0, st, Cardinality(Matchees(k)))
  BY <1>7, LoopDone
<1>9. Matchees(k) \in SUBSET Nat /\ IsFiniteSet(Matchees(k))
  BY <1>7 DEF Ready
<1> HIDE DEF st, id
<1>10. /\ LoopData(k, p0, st) /\ LoopBook(k, id, st) /\ LoopSolvent(k, p0, st)
       /\ LoopUncrossed(k, p0, st, Cardinality(Matchees(k)))
  BY <1>8 DEF LoopInv
<1>11. DOMAIN st.matchees = Matchees(k) /\ st.filled \subseteq Matchees(k)
  BY <1>10 DEF LoopData, MatchState
<1>12. Created(k, id, st)
  <2>1. positions = [j \in Kind |-> positions[j]]
    BY <1>1 DEF ShapeInv
  <2> QED
    BY <1>2, <1>5, <1>11, <2>1, CreateIs DEF st, p0, id
<1>13. BookInv'
  BY <1>1, <1>2, <1>10, <1>12, CreateBook DEF id
<1>14. BookUncrossed'
  BY <1>1, <1>2, <1>9, <1>10, <1>12, CreateUncrossed DEF id
<1>15. Owed(k)' = Owed(k) + quantity /\ Owed(o)' = Owed(o)
  BY <1>1, <1>2, <1>4, <1>6, <1>10, <1>12, CreateOwed DEF id
<1>16. /\ RoomReserved' /\ IsFiniteSet(Active') /\ id < MaxId
       /\ positions_id_counter' + Cardinality(TradeCalls') <= MaxId
  BY <1>1, <1>2, <1>6, <1>10, <1>12, CreateRoom DEF id
<1>17. TypeOK'
  BY <1>1, <1>2, <1>10, <1>12, <1>13, <1>16, CreateTypes DEF id
<1>18. ShapeInv'
  <2>1. positions' = [j \in Kind |-> positions'[j]] /\ void_positions' = [j \in Kind |-> void_positions'[j]]
    BY <1>12 DEF Created
  <2> QED
    BY <1>16, <1>17, <2>1 DEF ShapeInv
<1>19. QuestsOK'
  <2> SUFFICES ASSUME NEW d \in Call, calls'[d].op = "trade"
               PROVE  calls'[d].rate # 0
                      /\ ~BelowMinimumQuest(calls'[d].kind, calls'[d].quantity, calls'[d].rate)
    BY DEF QuestsOK, TradeCalls
  <2>1. d # c /\ calls'[d] = calls[d]
    BY <1>6
  <2> QED
    BY <1>1, <2>1 DEF QuestsOK, TradeCalls
<1>20. Solvent'
  <2>1. \A j \in Kind : Owed(j) \in Nat /\ positions_balance[j] \in Nat
    BY <1>1, OwedType DEF ShapeInv, TypeOK
  <2>2. /\ PaidPart(calls, c, k) = quantity /\ PaidPart(calls, c, o) = 0
        /\ \A j \in Kind : PaidPart(calls', c, j) = 0
    BY <1>2, <1>6, Kinds DEF PaidPart, PaidCallsIn
  <2>3. o \in Kind /\ \A j \in Kind : j = k \/ j = o
    BY <1>2, Kinds
  <2>4. \A j \in Kind : Owed(j)' \in Nat /\ positions_balance'[j] \in Nat
    <3> TAKE j \in Kind
    <3>1. CASE j = k
      BY <1>2, <1>6, <1>15, <2>1, <3>1
    <3>2. CASE j = o
      BY <1>6, <1>15, <2>1, <2>3, <3>2
    <3> QED
      BY <2>3, <3>1, <3>2
  <2>5. ASSUME NEW j \in Kind
        PROVE  positions_balance'[j] + Owed(j) + PaidPart(calls, c, j)
                 >= positions_balance[j] + Owed(j)' + PaidPart(calls', c, j)
    <3> DEFINE b == positions_balance[j]
               a == Owed(j)
               a2 == Owed(j)'
               q == PaidPart(calls, c, j)
    <3>1. b \in Nat /\ a \in Nat /\ a2 \in Nat /\ positions_balance'[j] = b /\ PaidPart(calls', c, j) = 0
      BY <1>6, <2>1, <2>2, <2>4
    <3>2. a2 = a + q /\ q \in Nat
      <4>1. CASE j = k
        BY <1>2, <1>15, <2>2, <4>1
      <4>2. CASE j = o
        BY <1>15, <2>1, <2>2, <4>2
      <4> QED
        BY <2>3, <4>1, <4>2
    <3> HIDE DEF b, a, a2, q
    <3>3. b + a + q >= b + a2 + 0
      BY <3>1, <3>2
    <3> QED
      BY <3>1, <3>3 DEF b, a, a2, q
  <2> QED
    BY <1>1, <1>6, <1>16, <2>4, <2>5, SolventStep
<1> QED
  BY <1>13, <1>14, <1>16, <1>18, <1>19, <1>20 DEF MarketInv

LEMMA ReturnStep ==
  ASSUME MarketInv, NEW c \in Call, TradeReturns(c) \/ TransferBalanceReturns(c), CallsInv'
  PROVE  MarketInv'
<1>1. CASE calls[c].op = "trade" /\ calls[c].answer = "ok"
  <2>1. PICK limit \in MatchLimits :
          CreateAndMatch(calls[c].kind, calls[c].user, calls[c].quantity, calls[c].rate, limit)
    BY <1>1 DEF TradeReturns, TransferBalanceReturns
  <2>2. limit \in Nat
    BY MarketAssumption
  <2>3. calls' = [calls EXCEPT ![c] = NoCall] /\ UNCHANGED <<paidVars, positions_balance>>
    BY <1>1 DEF TradeReturns, TransferBalanceReturns, CallEnds
  <2> QED
    BY <1>1, <2>1, <2>2, <2>3, CreateStep
<1>2. CASE ~(calls[c].op = "trade" /\ calls[c].answer = "ok")
  <2>1. CallEnds(c) /\ UNCHANGED <<bookVars, paidVars, positions_balance>>
    BY <1>2 DEF TradeReturns, TransferBalanceReturns
  <2> QED
    BY <1>2, <2>1, EndStep
<1> QED
  BY <1>1, <1>2

----------------------------------------------------------------------------
(* Steps that leave the calls alone. *)

LEMMA SameProgress ==
  ASSUME UNCHANGED calls
  PROVE  /\ QuestsOK => QuestsOK'
         /\ Active' = Active /\ TradeCalls' = TradeCalls
         /\ \A k : TradesInProgress(k)' = TradesInProgress(k)
BY DEF QuestsOK, Active, TradeCalls, TradesInProgress

LEMMA VoidPositionStep ==
  ASSUME MarketInv, CallsInv', NEW user \in User, NEW k \in Kind, VoidPosition(user, k)
  PROVE  MarketInv'
<1>1. CallsInv /\ ShapeInv /\ QuestsOK /\ RoomReserved /\ BookInv /\ BookUncrossed /\ Solvent
  BY DEF MarketInv
<1>2. PICK id \in DOMAIN positions[k] :
        /\ positions' = [positions EXCEPT ![k] = Without(@, {id})]
        /\ void_positions' = [void_positions EXCEPT
             ![k] = With(@, id, VoidPositionOf(k, positions[k][id]))]
        /\ UNCHANGED <<positions_id_counter, trade_logs, cut, paidVars, positions_balance, locks, calls>>
  BY DEF VoidPosition
<1>3. /\ positions_id_counter' = positions_id_counter /\ trade_logs' = trade_logs /\ cut' = cut
      /\ settled' = settled /\ moved' = moved /\ positions_balance' = positions_balance
      /\ locks' = locks /\ calls' = calls
  BY <1>2 DEF paidVars
<1>4. TypeOK /\ positions = [j \in Kind |-> positions[j]] /\ void_positions = [j \in Kind |-> void_positions[j]]
  BY <1>1 DEF ShapeInv
<1> DEFINE v == VoidPositionOf(k, positions[k][id])
<1>5. /\ \A j \in Kind : positions'[j] = IF j = k THEN Without(positions[j], {id}) ELSE positions[j]
      /\ \A j \in Kind : void_positions'[j] = IF j = k THEN With(void_positions[j], id, v)
                                                        ELSE void_positions[j]
      /\ positions' = [j \in Kind |-> positions'[j]] /\ void_positions' = [j \in Kind |-> void_positions'[j]]
  BY <1>2, <1>4
<1>6. /\ \A j \in Kind : DOMAIN positions'[j] = IF j = k THEN DOMAIN positions[j] \ {id} ELSE DOMAIN positions[j]
      /\ \A j \in Kind : \A x \in DOMAIN positions'[j] : positions'[j][x] = positions[j][x]
  BY <1>5 DEF Without
<1>7. /\ \A j \in Kind : DOMAIN void_positions'[j] = IF j = k THEN DOMAIN void_positions[j] \cup {id}
                                                              ELSE DOMAIN void_positions[j]
      /\ \A j \in Kind : \A x \in DOMAIN void_positions'[j] :
           void_positions'[j][x] = IF j = k /\ x = id THEN v ELSE void_positions[j][x]
  BY <1>5 DEF With
<1>8. /\ \A j \in Kind : DOMAIN positions[j] \cap DOMAIN void_positions[k] = {}
      /\ \A j \in Kind : j # k => id \notin DOMAIN positions[j]
  BY <1>1, Kinds DEF BookInv
<1>9. VoidOK(trade_logs, k, id, v) /\ v.quantity = positions[k][id].mainder
  BY <1>1, Voided DEF BookInv
<1> HIDE DEF v
<1>10. BookInv'
  <2>1. \A j \in Kind : \A x \in DOMAIN positions'[j] :
          PositionOK(trade_logs, j, x, positions'[j][x]) /\ Worth(j, positions'[j][x])
    BY <1>1, <1>6 DEF BookInv
  <2>2. \A j \in Kind : \A x \in DOMAIN void_positions'[j] : VoidOK(trade_logs, j, x, void_positions'[j][x])
    <3> SUFFICES ASSUME NEW j \in Kind, NEW x \in DOMAIN void_positions'[j]
                 PROVE  VoidOK(trade_logs, j, x, void_positions'[j][x])
      OBVIOUS
    <3>1. CASE j = k /\ x = id
      <4>1. void_positions'[j][x] = v
        BY <1>7, <3>1
      <4> QED
        BY <1>9, <3>1, <4>1
    <3>2. CASE ~(j = k /\ x = id)
      <4>1. void_positions'[j][x] = void_positions[j][x] /\ x \in DOMAIN void_positions[j]
        BY <1>7, <3>2
      <4> QED
        BY <1>1, <4>1 DEF BookInv
    <3> QED
      BY <3>1, <3>2
  <2>3. \A j \in Kind : DOMAIN positions'[j] \cap DOMAIN positions'[Opposite(j)] = {}
    BY <1>1, <1>6, Kinds DEF BookInv
  <2>4. \A i, j \in Kind : DOMAIN positions'[j] \cap DOMAIN void_positions'[i] = {}
    <3> TAKE i, j \in Kind
    <3>1. DOMAIN positions[j] \cap DOMAIN void_positions[i] = {}
      BY <1>1 DEF BookInv
    <3> QED
      BY <1>6, <1>7, <1>8, <3>1
  <2>5. LogsReal(trade_logs', positions_id_counter' - 1)
    BY <1>1, <1>3 DEF BookInv
  <2> QED
    BY <1>3, <2>1, <2>2, <2>3, <2>4, <2>5 DEF BookInv
<1>11. BookUncrossed'
  <2>1. \A j \in Kind : DOMAIN positions'[j] \subseteq DOMAIN positions[j]
    BY <1>6
  <2>2. "Cycles" \in Kind /\ "Token" \in Kind
    BY DEF Kind
  <2> QED
    BY <1>1, <1>3, <1>6, <2>1, <2>2 DEF BookUncrossed
<1>12. TypeOK'
  <2>1. id \in 0 .. positions_id_counter - 1
    BY <1>4 DEF TypeOK
  <2>2. \A j \in Kind : DOMAIN positions'[j] \subseteq 0 .. positions_id_counter - 1
                        /\ DOMAIN void_positions'[j] \subseteq 0 .. positions_id_counter - 1
    <3> TAKE j \in Kind
    <3>1. DOMAIN positions[j] \subseteq 0 .. positions_id_counter - 1
          /\ DOMAIN void_positions[j] \subseteq 0 .. positions_id_counter - 1
      BY <1>4 DEF TypeOK
    <3>2. DOMAIN positions'[j] \subseteq DOMAIN positions[j]
          /\ DOMAIN void_positions'[j] \subseteq DOMAIN void_positions[j] \cup {id}
      BY <1>6, <1>7
    <3> QED
      BY <2>1, <3>1, <3>2
  <2>3. \A j \in Kind : positions'[j] \in [DOMAIN positions'[j] -> PositionType]
    <3> TAKE j \in Kind
    <3>1. \A x \in DOMAIN positions'[j] : positions'[j][x] \in PositionType
      BY <1>10 DEF BookInv, PositionOK, SoundPosition
    <3>2. positions'[j] = [x \in DOMAIN positions'[j] |-> positions'[j][x]]
      BY <1>4, <1>5 DEF Without, TypeOK
    <3> QED
      BY <3>1, <3>2
  <2>4. \A j \in Kind : void_positions'[j] \in [DOMAIN void_positions'[j] -> VoidPositionType]
    <3> TAKE j \in Kind
    <3>1. \A x \in DOMAIN void_positions'[j] : void_positions'[j][x] \in VoidPositionType
      BY <1>10 DEF BookInv, VoidOK
    <3>2. void_positions'[j] = [x \in DOMAIN void_positions'[j] |-> void_positions'[j][x]]
      BY <1>4, <1>5 DEF With, TypeOK
    <3> QED
      BY <3>1, <3>2
  <2> QED
    BY <1>3, <1>4, <2>2, <2>3, <2>4 DEF TypeOK
<1>13. QuestsOK' /\ Active' = Active /\ TradeCalls' = TradeCalls
       /\ \A j : TradesInProgress(j)' = TradesInProgress(j)
  BY <1>1, <1>3, SameProgress
<1>14. ShapeInv'
  BY <1>1, <1>3, <1>5, <1>12, <1>13 DEF ShapeInv
<1>15. RoomReserved'
  <2>1. \A j \in Kind :
          /\ Cardinality(DOMAIN positions[j]) \in Nat /\ Cardinality(DOMAIN void_positions[j]) \in Nat
          /\ TradesInProgress(j) \in Nat
          /\ Cardinality(DOMAIN positions[j]) + TradesInProgress(j) + Reserve <= MaxPositions
          /\ Cardinality(DOMAIN void_positions[j]) + Cardinality(DOMAIN positions[j])
               + TradesInProgress(j) + Reserve <= MaxVoidPositions + 1
    <3> TAKE j \in Kind
    <3>1. TradesOn(j) \in SUBSET Active /\ IsFiniteSet(Active)
      BY <1>1 DEF TradesOn, Active, ShapeInv
    <3>2. TradesInProgress(j) = Cardinality(TradesOn(j))
      BY DEF TradesInProgress, TradesOn
    <3>3. TradesInProgress(j) \in Nat
      BY <3>1, <3>2, FS_Subset, FS_CardinalityType
    <3> QED
      BY <1>1, <3>3, BookCounts DEF RoomReserved
  <2>2. ASSUME NEW j \in Kind
        PROVE  /\ Cardinality(DOMAIN positions'[j]) + TradesInProgress(j)' + Reserve <= MaxPositions
               /\ Cardinality(DOMAIN void_positions'[j]) + Cardinality(DOMAIN positions'[j])
                    + TradesInProgress(j)' + Reserve <= MaxVoidPositions + 1
    <3>1. CASE j # k
      <4>1. DOMAIN positions'[j] = DOMAIN positions[j] /\ DOMAIN void_positions'[j] = DOMAIN void_positions[j]
        BY <1>6, <1>7, <3>1
      <4> QED
        BY <1>13, <2>1, <4>1
    <3>2. CASE j = k
      <4> DEFINE P == DOMAIN positions[k]
                 V == DOMAIN void_positions[k]
                 t == TradesInProgress(k)
      <4>1. DOMAIN positions'[j] = P \ {id} /\ DOMAIN void_positions'[j] = V \cup {id}
        BY <1>6, <1>7, <3>2
      <4>2. IsFiniteSet(P) /\ IsFiniteSet(V) /\ {id} \subseteq P /\ {id} \cap V = {}
        BY <1>1, <1>8, BookTypes
      <4>3. /\ Cardinality(P) \in Nat /\ Cardinality(V) \in Nat /\ t \in Nat
            /\ Cardinality(P) + t + Reserve <= MaxPositions
            /\ Cardinality(V) + Cardinality(P) + t + Reserve <= MaxVoidPositions + 1
        BY <2>1
      <4>4. TradesInProgress(j)' = t
        BY <1>13, <3>2
      <4> HIDE DEF P, V, t
      <4>5. /\ Cardinality(P \ {id}) \in Nat /\ Cardinality(V \cup {id}) \in Nat
            /\ Cardinality(P \ {id}) <= Cardinality(P)
            /\ Cardinality(V \cup {id}) + Cardinality(P \ {id}) = Cardinality(V) + Cardinality(P)
        BY <4>2, CardMoves
      <4>6. /\ Cardinality(P \ {id}) + t + Reserve <= MaxPositions
            /\ Cardinality(V \cup {id}) + Cardinality(P \ {id}) + t + Reserve <= MaxVoidPositions + 1
        BY <4>3, <4>5, MarketNumbers
      <4> QED
        BY <4>1, <4>4, <4>6
    <3> QED
      BY <3>1, <3>2
  <2> QED
    BY <1>1, <1>3, <2>2 DEF RoomReserved
<1>16. \A j \in Kind : Owed(j)' = Owed(j)
  <2> TAKE j \in Kind
  <2>1. Owed(j)' = Mainder(positions'[j]) + VoidSum(void_positions'[j]) + Unpaid(trade_logs, j)
    BY <1>3 DEF Owed, Mainder, VoidSum, Unpaid
  <2>2. CASE j # k
    <3>1. positions'[j] = positions[j] /\ void_positions'[j] = void_positions[j]
      BY <1>5, <2>2
    <3> QED
      BY <2>1, <3>1, OwedIs
  <2>3. CASE j = k
    <3> DEFINE b == positions[k]
               w == void_positions[k]
               b2 == positions'[k]
               w2 == void_positions'[k]
    <3>1. /\ DOMAIN b2 = DOMAIN b \ {id} /\ \A x \in DOMAIN b2 : b2[x] = b[x]
          /\ DOMAIN w2 = DOMAIN w \cup {id} /\ w2[id] = v
          /\ \A x \in DOMAIN w : x # id => w2[x] = w[x]
      BY <1>6, <1>7
    <3>2. /\ IsFiniteSet(DOMAIN b) /\ IsFiniteSet(DOMAIN w)
          /\ \A x \in DOMAIN b : b[x].mainder \in Nat
          /\ \A x \in DOMAIN w : w[x].quantity \in Nat
      BY <1>1, BookTypes
    <3>3. {id} \subseteq DOMAIN b /\ {id} \cap DOMAIN w = {} /\ v.quantity = b[id].mainder
      BY <1>8, <1>9
    <3> HIDE DEF b, w, b2, w2
    <3>4. BookMoves(b, w, b2, w2, {id})
      BY <3>1, <3>2, <3>3 DEF BookMoves
    <3>5. /\ Mainder(b2) + VoidSum(w2) = Mainder(b) + VoidSum(w)
          /\ Mainder(b2) \in Nat /\ VoidSum(w2) \in Nat /\ Mainder(b) \in Nat /\ VoidSum(w) \in Nat
      BY <3>4, MoveOwed
    <3>6. Owed(k)' = Mainder(b2) + VoidSum(w2) + Unpaid(trade_logs, k)
          /\ Owed(k) = Mainder(b) + VoidSum(w) + Unpaid(trade_logs, k)
      BY <2>1, <2>3, OwedIs DEF b, w, b2, w2
    <3>7. Unpaid(trade_logs, k) \in Nat
      BY <1>4, UnpaidType DEF TypeOK
    <3> QED
      BY <2>3, <3>5, <3>6, <3>7
  <2> QED
    BY <2>2, <2>3
<1>17. Solvent'
  <2>1. \A j \in Kind : Owed(j) \in Nat /\ Owed(j)' \in Nat /\ positions_balance'[j] = positions_balance[j]
                        /\ positions_balance[j] \in Nat
    BY <1>1, <1>3, <1>4, <1>16, OwedType DEF TypeOK
  <2>2. \A j \in Kind : positions_balance'[j] + Owed(j) >= positions_balance[j] + Owed(j)'
    BY <1>16, <2>1
  <2> QED
    BY <1>1, <1>3, <2>1, <2>2, SolventPaid
<1> QED
  BY <1>10, <1>11, <1>13, <1>14, <1>15, <1>17 DEF MarketInv

(* A payout takes no more than its net amount, and only what is there. *)
LEMMA PayOutIs ==
  ASSUME NEW k \in Kind, NEW net \in Nat, positions_balance \in [Kind -> Nat], PayOut(k, net)
  PROVE  /\ positions_balance' \in [Kind -> Nat]
         /\ \A j \in Kind : j # k => positions_balance'[j] = positions_balance[j]
         /\ positions_balance'[k] + net >= positions_balance[k]
<1>1. LedgerFee[k] \in Nat
  BY MatchingAssumption
<1>2. CASE net > LedgerFee[k]
  <2>1. /\ positions_balance[k] >= net /\ positions_balance[k] \in Nat
        /\ positions_balance' = [positions_balance EXCEPT ![k] = @ - net]
    BY <1>2 DEF PayOut
  <2>2. positions_balance'[k] = positions_balance[k] - net /\ positions_balance[k] - net \in Nat
    BY <2>1
  <2> QED
    BY <2>1, <2>2
<1>3. CASE ~(net > LedgerFee[k])
  <2>1. positions_balance' = positions_balance /\ positions_balance[k] \in Nat
    BY <1>3 DEF PayOut
  <2> QED
    BY <2>1
<1> QED
  BY <1>2, <1>3

LEMMA VoidPaidOutStep ==
  ASSUME MarketInv, CallsInv', NEW k \in Kind, VoidPaidOut(k)
  PROVE  MarketInv'
<1>1. CallsInv /\ ShapeInv /\ QuestsOK /\ RoomReserved /\ BookInv /\ BookUncrossed /\ Solvent
  BY DEF MarketInv
<1>2. PICK id \in DOMAIN void_positions[k] :
        /\ PayOut(k, void_positions[k][id].quantity)
        /\ void_positions' = [void_positions EXCEPT ![k] = Without(@, {id})]
        /\ UNCHANGED <<positions, positions_id_counter, trade_logs, cut, paidVars, locks, calls>>
  BY DEF VoidPaidOut
<1>3. /\ positions_id_counter' = positions_id_counter /\ trade_logs' = trade_logs /\ cut' = cut
      /\ settled' = settled /\ moved' = moved /\ positions' = positions
      /\ locks' = locks /\ calls' = calls
  BY <1>2 DEF paidVars
<1>4. TypeOK /\ void_positions = [j \in Kind |-> void_positions[j]]
      /\ positions = [j \in Kind |-> positions[j]] /\ positions_balance \in [Kind -> Nat]
  BY <1>1 DEF ShapeInv, TypeOK
<1>5. /\ \A j \in Kind : void_positions'[j] = IF j = k THEN Without(void_positions[j], {id})
                                                        ELSE void_positions[j]
      /\ void_positions' = [j \in Kind |-> void_positions'[j]]
  BY <1>2, <1>4
<1>6. /\ \A j \in Kind : DOMAIN void_positions'[j] = IF j = k THEN DOMAIN void_positions[j] \ {id}
                                                     ELSE DOMAIN void_positions[j]
      /\ \A j \in Kind : \A x \in DOMAIN void_positions'[j] : void_positions'[j][x] = void_positions[j][x]
  BY <1>5 DEF Without
<1>7. \A j \in Kind : DOMAIN void_positions'[j] \subseteq DOMAIN void_positions[j]
  BY <1>6
<1> DEFINE q == void_positions[k][id].quantity
<1>8. q \in Nat
  BY <1>1, BookTypes
<1>9. /\ positions_balance' \in [Kind -> Nat]
      /\ \A j \in Kind : j # k => positions_balance'[j] = positions_balance[j]
      /\ positions_balance'[k] + q >= positions_balance[k]
  BY <1>2, <1>4, <1>8, PayOutIs
<1>10. BookInv'
  <2>1. \A j \in Kind : \A x \in DOMAIN void_positions'[j] : VoidOK(trade_logs, j, x, void_positions'[j][x])
    BY <1>1, <1>6, <1>7 DEF BookInv
  <2>2. \A i, j \in Kind : DOMAIN positions[j] \cap DOMAIN void_positions'[i] = {}
    BY <1>1, <1>7 DEF BookInv
  <2> QED
    BY <1>1, <1>3, <2>1, <2>2 DEF BookInv
<1>11. BookUncrossed'
  BY <1>1, <1>3 DEF BookUncrossed
<1>12. TypeOK'
  <2>1. \A j \in Kind : DOMAIN void_positions'[j] \subseteq 0 .. positions_id_counter - 1
    <3> TAKE j \in Kind
    <3>1. DOMAIN void_positions[j] \subseteq 0 .. positions_id_counter - 1
      BY <1>4 DEF TypeOK
    <3> QED
      BY <1>7, <3>1
  <2>2. \A j \in Kind : void_positions'[j] \in [DOMAIN void_positions'[j] -> VoidPositionType]
    <3> TAKE j \in Kind
    <3>1. \A x \in DOMAIN void_positions'[j] : void_positions'[j][x] \in VoidPositionType
      BY <1>10 DEF BookInv, VoidOK
    <3>2. void_positions'[j] = [x \in DOMAIN void_positions'[j] |-> void_positions'[j][x]]
      BY <1>4, <1>5 DEF Without, TypeOK
    <3> QED
      BY <3>1, <3>2
  <2> QED
    BY <1>3, <1>4, <1>9, <2>1, <2>2 DEF TypeOK
<1>13. QuestsOK' /\ Active' = Active /\ TradeCalls' = TradeCalls
       /\ \A j : TradesInProgress(j)' = TradesInProgress(j)
  BY <1>1, <1>3, SameProgress
<1>14. ShapeInv'
  BY <1>1, <1>3, <1>4, <1>5, <1>12, <1>13 DEF ShapeInv
<1>15. RoomReserved'
  <2>1. ASSUME NEW j \in Kind
        PROVE  /\ Cardinality(DOMAIN positions[j]) + TradesInProgress(j) + Reserve <= MaxPositions
               /\ Cardinality(DOMAIN void_positions'[j]) + Cardinality(DOMAIN positions[j])
                    + TradesInProgress(j) + Reserve <= MaxVoidPositions + 1
    <3>1. DOMAIN void_positions'[j] \in SUBSET DOMAIN void_positions[j] /\ IsFiniteSet(DOMAIN void_positions[j])
      BY <1>1, <1>7, BookTypes
    <3>2. Cardinality(DOMAIN void_positions'[j]) <= Cardinality(DOMAIN void_positions[j])
          /\ Cardinality(DOMAIN void_positions'[j]) \in Nat /\ Cardinality(DOMAIN void_positions[j]) \in Nat
      BY <3>1, FS_Subset, FS_CardinalityType
    <3>3. TradesInProgress(j) \in Nat
      <4>1. TradesOn(j) \in SUBSET Active /\ IsFiniteSet(Active)
        BY <1>1 DEF TradesOn, Active, ShapeInv
      <4>2. TradesInProgress(j) = Cardinality(TradesOn(j))
        BY DEF TradesInProgress, TradesOn
      <4> QED
        BY <4>1, <4>2, FS_Subset, FS_CardinalityType
    <3>4. Cardinality(DOMAIN positions[j]) \in Nat
      BY <1>1, BookCounts
    <3>5. /\ Cardinality(DOMAIN positions[j]) + TradesInProgress(j) + Reserve <= MaxPositions
          /\ Cardinality(DOMAIN void_positions[j]) + Cardinality(DOMAIN positions[j])
               + TradesInProgress(j) + Reserve <= MaxVoidPositions + 1
      BY <1>1 DEF RoomReserved
    <3> QED
      BY <3>2, <3>3, <3>4, <3>5, MarketNumbers
  <2> QED
    BY <1>1, <1>3, <1>13, <2>1 DEF RoomReserved
<1>16. /\ \A j \in Kind : j # k => Owed(j)' = Owed(j)
       /\ Owed(k) = Owed(k)' + q /\ Owed(k)' \in Nat
  <2>1. \A j \in Kind : Owed(j)' = Mainder(positions[j]) + VoidSum(void_positions'[j]) + Unpaid(trade_logs, j)
    BY <1>3 DEF Owed, Mainder, VoidSum, Unpaid
  <2>2. ASSUME NEW j \in Kind, j # k
        PROVE  Owed(j)' = Owed(j)
    <3>1. void_positions'[j] = void_positions[j]
      BY <1>5, <2>2
    <3> QED
      BY <2>1, <3>1, OwedIs
  <2>3. Owed(k) = Owed(k)' + q /\ Owed(k)' \in Nat
    <3> DEFINE w == void_positions[k]
               w2 == void_positions'[k]
               f == [x \in DOMAIN w |-> w[x].quantity]
               g == [x \in DOMAIN w2 |-> w2[x].quantity]
    <3>1. /\ IsFiniteSet(DOMAIN w) /\ \A x \in DOMAIN w : w[x].quantity \in Nat
          /\ DOMAIN w2 = DOMAIN w \ {id} /\ \A x \in DOMAIN w2 : w2[x] = w[x]
      BY <1>1, <1>6, BookTypes
    <3>2. VoidSum(w) = SumFunction(f) /\ VoidSum(w2) = SumFunction(g)
      BY DEF VoidSum
    <3>3. /\ IsFiniteSet(DOMAIN f) /\ id \in DOMAIN f /\ DOMAIN g = DOMAIN f \ {id} /\ f[id] = q
          /\ \A y \in DOMAIN f : f[y] \in Int
          /\ \A y \in DOMAIN g : f[y] = g[y]
          /\ \A y \in DOMAIN g : g[y] \in Nat /\ g[y] \in Int
      BY <3>1
    <3> HIDE DEF f, g, q
    <3>4. SumFunction(f) = SumFunction(g) + f[id]
      BY <3>3, SumDrop
    <3>5. IsFiniteSet(DOMAIN g)
      <4>1. DOMAIN g \in SUBSET DOMAIN f
        BY <3>3
      <4> QED
        BY <3>3, <4>1, FS_Subset
    <3>6. SumFunction(g) \in Nat
      BY <3>3, <3>5, SumType
    <3>7. Owed(k) = Mainder(positions[k]) + SumFunction(f) + Unpaid(trade_logs, k)
          /\ Owed(k)' = Mainder(positions[k]) + SumFunction(g) + Unpaid(trade_logs, k)
      BY <2>1, <3>2, OwedIs
    <3>8. Mainder(positions[k]) \in Nat /\ Unpaid(trade_logs, k) \in Nat
      BY <1>1, <1>4, BookTypes, MainderType, UnpaidType DEF TypeOK
    <3>9. SumFunction(f) = SumFunction(g) + q /\ q \in Nat
      BY <1>8, <3>3, <3>4 DEF q
    <3> DEFINE a == Owed(k)
               a2 == Owed(k)'
               m == Mainder(positions[k])
               u == Unpaid(trade_logs, k)
               s == SumFunction(g)
    <3>10. a = m + (s + q) + u /\ a2 = m + s + u /\ m \in Nat /\ u \in Nat /\ s \in Nat
      BY <3>6, <3>7, <3>8, <3>9
    <3> HIDE DEF a, a2, m, u, s
    <3>11. a = a2 + q /\ a2 \in Nat
      BY <3>9, <3>10
    <3> QED
      BY <3>11 DEF a, a2
  <2> QED
    BY <2>2, <2>3
<1>17. Solvent'
  <2>1. \A j \in Kind : Owed(j) \in Nat /\ positions_balance[j] \in Nat /\ positions_balance'[j] \in Nat
    BY <1>1, <1>4, <1>9, OwedType
  <2>2. \A j \in Kind : Owed(j)' \in Nat
    BY <1>16, <2>1
  <2>3. \A j \in Kind : positions_balance'[j] + Owed(j) >= positions_balance[j] + Owed(j)'
    <3> TAKE j \in Kind
    <3>1. CASE j # k
      BY <1>9, <1>16, <2>1, <3>1
    <3>2. CASE j = k
      <4> DEFINE b == positions_balance[k]
                 b2 == positions_balance'[k]
                 a == Owed(k)
                 a2 == Owed(k)'
      <4>1. b2 + q >= b /\ a = a2 + q /\ b \in Nat /\ b2 \in Nat /\ a2 \in Nat /\ q \in Nat
        BY <1>8, <1>9, <1>16, <2>1
      <4> HIDE DEF b, b2, a, a2, q
      <4>2. b2 + a >= b + a2
        BY <4>1
      <4> QED
        BY <3>2, <4>2 DEF b, b2, a, a2
    <3> QED
      BY <3>1, <3>2
  <2> QED
    BY <1>1, <1>3, <2>1, <2>2, <2>3, SolventPaid
<1> QED
  BY <1>10, <1>11, <1>13, <1>14, <1>15, <1>17 DEF MarketInv

(* The room is kept when the maps and the calls stay as they are. *)
LEMMA SameRoom ==
  ASSUME RoomReserved, UNCHANGED <<bookVars, calls>>, Len(trade_logs) - moved' <= MaxTradeLogs
  PROVE  RoomReserved'
<1>1. /\ positions' = positions /\ void_positions' = void_positions /\ trade_logs' = trade_logs
      /\ \A k : TradesInProgress(k)' = TradesInProgress(k)
  BY SameProgress DEF bookVars
<1> QED
  BY <1>1 DEF RoomReserved

LEMMA TradePaidOutStep ==
  ASSUME MarketInv, CallsInv', NEW k \in Kind, TradePaidOut(k)
  PROVE  MarketInv'
<1>1. CallsInv /\ ShapeInv /\ QuestsOK /\ RoomReserved /\ BookInv /\ BookUncrossed /\ Solvent
  BY DEF MarketInv
<1>2. PICK i \in (moved + 1 .. Len(trade_logs)) \ settled[k] :
        /\ PayOut(k, trade_logs[i].mount[k] - trade_logs[i].cts_fee[k])
        /\ settled' = [settled EXCEPT ![k] = @ \cup {i}]
        /\ UNCHANGED <<bookVars, moved, locks, calls>>
  BY DEF TradePaidOut
<1>3. /\ positions_id_counter' = positions_id_counter /\ trade_logs' = trade_logs /\ cut' = cut
      /\ moved' = moved /\ positions' = positions /\ void_positions' = void_positions
      /\ locks' = locks /\ calls' = calls
  BY <1>2 DEF bookVars
<1>4. TypeOK /\ settled \in [Kind -> SUBSET (1 .. Len(trade_logs))] /\ positions_balance \in [Kind -> Nat]
      /\ trade_logs \in Seq(MatchLogType) /\ moved \in Nat
  BY <1>1, LogsAreLogs DEF ShapeInv, TypeOK
<1>5. i \in 1 .. Len(trade_logs) /\ i \notin settled[k] /\ Len(trade_logs) \in Nat
  BY <1>2, <1>4, LogsAreLogs
<1> DEFINE q == trade_logs[i].mount[k]
           fee == trade_logs[i].cts_fee[k]
<1>6. q \in Nat /\ fee \in Nat /\ fee < q
  <2>1. trade_logs[i] \in MatchLogType
    BY <1>4, <1>5, LogsAreLogs
  <2>2. LogReal(trade_logs[i], positions_id_counter - 1)
    BY <1>1, <1>5 DEF BookInv, LogsReal
  <2> QED
    BY <2>1, <2>2 DEF MatchLogType, LogReal
<1>7. /\ positions_balance' \in [Kind -> Nat]
      /\ \A j \in Kind : j # k => positions_balance'[j] = positions_balance[j]
      /\ positions_balance'[k] + q >= positions_balance[k]
  <2> HIDE DEF q, fee
  <2>1. q - fee \in Nat
    BY <1>6
  <2>2. PayOut(k, q - fee)
    BY <1>2 DEF q, fee
  <2>3. /\ positions_balance' \in [Kind -> Nat]
        /\ \A j \in Kind : j # k => positions_balance'[j] = positions_balance[j]
        /\ positions_balance'[k] + (q - fee) >= positions_balance[k]
    BY <1>4, <2>1, <2>2, PayOutIs
  <2>4. positions_balance'[k] \in Nat /\ positions_balance[k] \in Nat
    BY <1>4, <2>3
  <2> DEFINE b == positions_balance[k]
             b2 == positions_balance'[k]
  <2>5. b2 + (q - fee) >= b /\ b \in Nat /\ b2 \in Nat
    BY <2>3, <2>4
  <2> HIDE DEF b, b2
  <2>6. b2 + q >= b
    BY <1>6, <2>5
  <2> QED
    BY <2>3, <2>6 DEF b, b2
<1>8. BookInv' /\ BookUncrossed'
  BY <1>1, <1>2, SameBook
<1>9. \A j \in Kind : settled'[j] = IF j = k THEN settled[j] \cup {i} ELSE settled[j]
  BY <1>2, <1>4
<1>10. settled' \in [Kind -> SUBSET (1 .. Len(trade_logs))]
  BY <1>2, <1>4, <1>5
<1>11. TypeOK'
  BY <1>3, <1>4, <1>7, <1>10 DEF TypeOK
<1>12. QuestsOK' /\ Active' = Active /\ TradeCalls' = TradeCalls
  BY <1>1, <1>3, SameProgress
<1>13. ShapeInv'
  BY <1>1, <1>3, <1>11, <1>12 DEF ShapeInv
<1>14. RoomReserved'
  <2>1. Len(trade_logs) - moved' <= MaxTradeLogs
    BY <1>1, <1>3 DEF RoomReserved
  <2> QED
    BY <1>1, <1>2, <2>1, SameRoom
<1>15. /\ \A j \in Kind : j # k => Owed(j)' = Owed(j)
       /\ Owed(k) = Owed(k)' + q /\ Owed(k)' \in Nat
  <2> DEFINE f == [n \in (1 .. Len(trade_logs)) \ settled[k] |-> trade_logs[n].mount[k]]
             g == [n \in (1 .. Len(trade_logs)) \ settled'[k] |-> trade_logs[n].mount[k]]
  <2>1. ASSUME NEW j \in Kind, j # k
        PROVE  Owed(j)' = Owed(j)
    <3>1. settled'[j] = settled[j]
      BY <1>9, <2>1
    <3> QED
      BY <1>3, <3>1 DEF Owed
  <2>2. Owed(k) = Mainder(positions[k]) + VoidSum(void_positions[k]) + SumFunction(f)
        /\ Owed(k)' = Mainder(positions[k]) + VoidSum(void_positions[k]) + SumFunction(g)
    BY <1>3 DEF Owed, Mainder, VoidSum
  <2>3. \A n \in 1 .. Len(trade_logs) : trade_logs[n].mount[k] \in Nat
    <3> TAKE n \in 1 .. Len(trade_logs)
    <3>1. trade_logs[n] \in MatchLogType
      BY <1>4, LogsAreLogs
    <3> QED
      BY <3>1 DEF MatchLogType
  <2>4. /\ DOMAIN f \in SUBSET (1 .. Len(trade_logs)) /\ i \in DOMAIN f /\ DOMAIN g = DOMAIN f \ {i}
        /\ DOMAIN g \in SUBSET DOMAIN f /\ f[i] = q
        /\ \A y \in DOMAIN f : f[y] \in Int
        /\ \A y \in DOMAIN g : f[y] = g[y]
        /\ \A y \in DOMAIN g : g[y] \in Nat /\ g[y] \in Int
    <3>1. DOMAIN f = (1 .. Len(trade_logs)) \ settled[k] /\ DOMAIN g = (1 .. Len(trade_logs)) \ settled'[k]
      OBVIOUS
    <3>2. settled'[k] = settled[k] \cup {i}
      BY <1>9
    <3>3. \A n \in 1 .. Len(trade_logs) : n \notin settled[k] => f[n] = trade_logs[n].mount[k]
      OBVIOUS
    <3>4. \A n \in 1 .. Len(trade_logs) : n \notin settled'[k] => g[n] = trade_logs[n].mount[k]
      OBVIOUS
    <3>5. f[i] = q
      BY <1>5, <3>3
    <3> HIDE DEF f, g, q, fee
    <3>6. /\ DOMAIN f \in SUBSET (1 .. Len(trade_logs)) /\ i \in DOMAIN f /\ DOMAIN g = DOMAIN f \ {i}
      BY <1>5, <3>1, <3>2
    <3>7. /\ \A y \in DOMAIN f : f[y] \in Int
          /\ \A y \in DOMAIN g : f[y] = g[y]
          /\ \A y \in DOMAIN g : g[y] \in Nat /\ g[y] \in Int
      BY <2>3, <3>1, <3>2, <3>3, <3>4
    <3> QED
      BY <3>5, <3>6, <3>7
  <2> HIDE DEF f, g, q, fee
  <2>5. IsFiniteSet(DOMAIN f)
    BY <1>4, <2>4, LogsAreLogs, FS_Subset
  <2>6. IsFiniteSet(DOMAIN g)
    BY <2>4, <2>5, FS_Subset
  <2>7. SumFunction(f) = SumFunction(g) + f[i]
    BY <2>4, <2>5, SumDrop
  <2>8. SumFunction(g) \in Nat
    BY <2>4, <2>6, SumType
  <2> DEFINE a == Owed(k)
             a2 == Owed(k)'
             m == Mainder(positions[k])
             v == VoidSum(void_positions[k])
             s == SumFunction(g)
  <2>9. a = m + v + (s + q) /\ a2 = m + v + s /\ s \in Nat
    BY <2>2, <2>4, <2>7, <2>8
  <2>10. m \in Nat /\ v \in Nat
    BY <1>1, BookTypes, MainderType, VoidSumType
  <2> HIDE DEF a, a2, m, v, s
  <2>11. a = a2 + q /\ a2 \in Nat
    BY <1>6, <2>9, <2>10
  <2> QED
    BY <2>1, <2>11 DEF a, a2
<1>16. Solvent'
  <2>1. \A j \in Kind : Owed(j) \in Nat /\ positions_balance[j] \in Nat /\ positions_balance'[j] \in Nat
    BY <1>1, <1>4, <1>7, OwedType
  <2>2. \A j \in Kind : Owed(j)' \in Nat
    BY <1>15, <2>1
  <2>3. \A j \in Kind : positions_balance'[j] + Owed(j) >= positions_balance[j] + Owed(j)'
    <3> TAKE j \in Kind
    <3>1. CASE j # k
      BY <1>7, <1>15, <2>1, <3>1
    <3>2. CASE j = k
      <4> DEFINE b == positions_balance[k]
                 b2 == positions_balance'[k]
                 a == Owed(k)
                 a2 == Owed(k)'
      <4>1. b2 + q >= b /\ a = a2 + q /\ b \in Nat /\ b2 \in Nat /\ a2 \in Nat /\ q \in Nat
        BY <1>6, <1>7, <1>15, <2>1
      <4> HIDE DEF b, b2, a, a2, q, fee
      <4>2. b2 + a >= b + a2
        BY <4>1
      <4> QED
        BY <3>2, <4>2 DEF b, b2, a, a2
    <3> QED
      BY <3>1, <3>2
  <2> QED
    BY <1>1, <1>3, <2>1, <2>2, <2>3, SolventPaid
<1> QED
  BY <1>8, <1>12, <1>13, <1>14, <1>16 DEF MarketInv

LEMMA TradeMovedStep ==
  ASSUME MarketInv, CallsInv', TradeMoved
  PROVE  MarketInv'
<1>1. CallsInv /\ ShapeInv /\ QuestsOK /\ RoomReserved /\ BookInv /\ BookUncrossed /\ Solvent
  BY DEF MarketInv
<1>2. /\ \A k \in Kind : moved + 1 \in settled[k]
      /\ moved' = moved + 1 /\ settled' = settled /\ positions_balance' = positions_balance
      /\ UNCHANGED bookVars /\ locks' = locks /\ calls' = calls
      /\ positions_id_counter' = positions_id_counter /\ trade_logs' = trade_logs /\ cut' = cut
      /\ positions' = positions /\ void_positions' = void_positions
  BY DEF TradeMoved, bookVars
<1>3. TypeOK /\ moved \in Nat /\ Len(trade_logs) \in Nat
  BY <1>1, LogsAreLogs DEF ShapeInv, TypeOK
<1>4. moved' \in 0 .. Len(trade_logs)
  <2>1. "Cycles" \in Kind
    BY DEF Kind
  <2>2. settled["Cycles"] \subseteq 1 .. Len(trade_logs)
    BY <1>3, <2>1 DEF TypeOK
  <2>3. moved + 1 \in 1 .. Len(trade_logs)
    BY <1>2, <2>1, <2>2
  <2> QED
    BY <1>2, <1>3, <2>3
<1>5. TypeOK'
  BY <1>2, <1>3, <1>4 DEF TypeOK
<1>6. BookInv' /\ BookUncrossed' /\ \A k : Owed(k)' = Owed(k)
  BY <1>1, <1>2, SameBook
<1>7. QuestsOK' /\ Active' = Active /\ TradeCalls' = TradeCalls
  BY <1>1, <1>2, SameProgress
<1>8. ShapeInv'
  BY <1>1, <1>2, <1>5, <1>7 DEF ShapeInv
<1>9. RoomReserved'
  <2>1. Len(trade_logs) - moved <= MaxTradeLogs
    BY <1>1 DEF RoomReserved
  <2>2. Len(trade_logs) - moved' <= MaxTradeLogs
    BY <1>2, <1>3, <2>1, MarketNumbers
  <2> QED
    BY <1>1, <1>2, <2>2, SameRoom
<1>10. Solvent'
  <2>1. \A k \in Kind : Owed(k) \in Nat /\ positions_balance[k] \in Nat
    BY <1>1, <1>3, OwedType DEF TypeOK
  <2>2. \A k \in Kind : /\ Owed(k)' \in Nat /\ positions_balance'[k] \in Nat
                        /\ positions_balance'[k] + Owed(k) >= positions_balance[k] + Owed(k)'
    BY <1>2, <1>6, <2>1
  <2> QED
    BY <1>1, <1>2, <2>2, SolventPaid
<1> QED
  BY <1>6, <1>7, <1>8, <1>9, <1>10 DEF MarketInv

LEMMA SameMarket ==
  ASSUME MarketInv, UNCHANGED vars
  PROVE  MarketInv'
<1>1. CallsInv /\ ShapeInv /\ QuestsOK /\ RoomReserved /\ BookInv /\ BookUncrossed /\ Solvent
  BY DEF MarketInv
<1>2. /\ UNCHANGED bookVars /\ locks' = locks /\ calls' = calls /\ positions_balance' = positions_balance
      /\ moved' = moved /\ settled' = settled
      /\ positions_id_counter' = positions_id_counter /\ trade_logs' = trade_logs /\ cut' = cut
      /\ positions' = positions /\ void_positions' = void_positions
  BY DEF vars, bookVars, paidVars
<1>3. CallsInv'
  BY <1>1, <1>2, SameCalls
<1>4. BookInv' /\ BookUncrossed' /\ \A k : Owed(k)' = Owed(k)
  BY <1>1, <1>2, SameBook
<1>5. QuestsOK' /\ Active' = Active /\ TradeCalls' = TradeCalls
  BY <1>1, <1>2, SameProgress
<1>6. ShapeInv'
  BY <1>1, <1>2, <1>5 DEF ShapeInv, TypeOK
<1>7. RoomReserved'
  BY <1>1, <1>2, SameRoom DEF RoomReserved
<1>8. Solvent'
  BY <1>1, <1>2, <1>4 DEF Solvent, PaidIn
<1> QED
  BY <1>3, <1>4, <1>5, <1>6, <1>7, <1>8 DEF MarketInv

----------------------------------------------------------------------------
(* The invariant and what follows from it. *)

LEMMA InitMarket == Init => MarketInv
<1> SUFFICES ASSUME Init
             PROVE  MarketInv
  OBVIOUS
<1> USE DEF Init
<1>1. CallsInv
  BY InitCalls
<1>2. \A k \in Kind : positions[k] = <<>> /\ void_positions[k] = <<>> /\ settled[k] = {}
                      /\ DOMAIN positions[k] = {} /\ DOMAIN void_positions[k] = {}
  OBVIOUS
<1>3. Active = {} /\ TradeCalls = {} /\ \A k : TradesOn(k) = {}
  BY DEF Active, TradeCalls, TradesOn, NoCall
<1>4. Cardinality({}) = 0 /\ IsFiniteSet({})
  BY FS_EmptySet
<1>5. TypeOK
  <2>1. positions_id_counter \in 0 .. MaxId
    BY MarketNumbers
  <2>2. \A k \in Kind : /\ DOMAIN positions[k] \subseteq 0 .. positions_id_counter - 1
                        /\ positions[k] \in [DOMAIN positions[k] -> PositionType]
                        /\ DOMAIN void_positions[k] \subseteq 0 .. positions_id_counter - 1
                        /\ void_positions[k] \in [DOMAIN void_positions[k] -> VoidPositionType]
    BY <1>2
  <2>3. trade_logs = <<>> /\ trade_logs \in Seq(MatchLogType) /\ Len(trade_logs) = 0
    OBVIOUS
  <2>4. settled \in [Kind -> SUBSET (1 .. Len(trade_logs))] /\ moved \in 0 .. Len(trade_logs)
    BY <2>3
  <2>5. cut \subseteq 0 .. positions_id_counter - 1 /\ positions_balance \in [Kind -> Nat]
    OBVIOUS
  <2>6. locks \in [Kind -> SUBSET User] /\ calls \in [Call -> CallType]
    BY <1>1 DEF CallsInv
  <2> QED
    BY <2>1, <2>2, <2>3, <2>4, <2>5, <2>6 DEF TypeOK
<1>6. ShapeInv
  <2>1. positions_id_counter + Cardinality(TradeCalls) <= MaxId
    BY <1>3, <1>4, MarketNumbers
  <2>2. positions = [k \in Kind |-> positions[k]] /\ void_positions = [k \in Kind |-> void_positions[k]]
    OBVIOUS
  <2> QED
    BY <1>3, <1>4, <1>5, <2>1, <2>2 DEF ShapeInv
<1>7. QuestsOK
  BY <1>3 DEF QuestsOK
<1>8. RoomReserved
  <2>1. \A k \in Kind : Cardinality(DOMAIN positions[k]) = 0 /\ Cardinality(DOMAIN void_positions[k]) = 0
                        /\ TradesInProgress(k) = 0
    BY <1>2, <1>3, <1>4 DEF TradesInProgress, TradesOn
  <2>2. Len(trade_logs) - moved <= MaxTradeLogs
    BY MarketNumbers
  <2> QED
    BY <2>1, <2>2, MarketNumbers DEF RoomReserved
<1>9. BookInv
  <2>1. \A k \in Kind : Opposite(k) \in Kind
    BY Kinds
  <2>2. 1 .. Len(trade_logs) = {}
    OBVIOUS
  <2> QED
    BY <1>2, <2>1, <2>2 DEF BookInv, LogsReal
<1>10. BookUncrossed
  BY <1>2 DEF BookUncrossed, Kind
<1>11. Solvent
  <2> SUFFICES ASSUME NEW k \in Kind
               PROVE  positions_balance[k] >= Owed(k) + PaidIn(k)
    BY DEF Solvent
  <2>1. /\ DOMAIN [id \in DOMAIN positions[k] |-> positions[k][id].mainder] = {}
        /\ DOMAIN [id \in DOMAIN void_positions[k] |-> void_positions[k][id].quantity] = {}
    BY <1>2
  <2>2. DOMAIN [i \in (1 .. Len(trade_logs)) \ settled[k] |-> trade_logs[i].mount[k]] = {}
    <3>1. 1 .. Len(trade_logs) = {}
      OBVIOUS
    <3> QED
      BY <3>1
  <2>3. Owed(k) = 0
    BY <2>1, <2>2, SumNothing DEF Owed
  <2>4. PaidCallsIn(calls, k) = {}
    BY DEF PaidCallsIn, NoCall
  <2>5. PaidIn(k) = 0
    <3> DEFINE f == [c \in PaidCallsIn(calls, k) |-> calls[c].quantity]
    <3>1. DOMAIN f = {} /\ PaidIn(k) = SumFunction(f)
      BY <2>4, PaidInIs DEF PaidSum
    <3> HIDE DEF f
    <3> QED
      BY <3>1, SumNothing
  <2> QED
    BY <2>3, <2>5
<1> QED
  BY <1>1, <1>6, <1>7, <1>8, <1>9, <1>10, <1>11 DEF MarketInv

LEMMA NextMarket == MarketInv /\ [Next]_vars => MarketInv'
<1> SUFFICES ASSUME MarketInv, [Next]_vars
             PROVE  MarketInv'
  OBVIOUS
<1>1. CallsInv'
  BY NextCalls DEF MarketInv
<1>2. ASSUME NEW c \in Call, NEW user \in User, NEW k \in Kind,
             TradeCall(c, user, k) \/ TransferBalanceCall(c, user, k)
      PROVE  MarketInv'
  BY <1>1, <1>2, TradeCallStep, TransferCallStep
<1>3. ASSUME NEW c \in Call, LedgerAccepts(c) \/ LedgerRefuses(c)
      PROVE  MarketInv'
  BY <1>1, <1>3, AnswerStep
<1>4. ASSUME NEW c \in Call, TradeReturns(c) \/ TransferBalanceReturns(c)
      PROVE  MarketInv'
  BY <1>1, <1>4, ReturnStep
<1>5. ASSUME NEW user \in User, NEW k \in Kind, VoidPosition(user, k)
      PROVE  MarketInv'
  BY <1>1, <1>5, VoidPositionStep
<1>6. ASSUME NEW k \in Kind, VoidPaidOut(k)
      PROVE  MarketInv'
  BY <1>1, <1>6, VoidPaidOutStep
<1>7. ASSUME NEW k \in Kind, TradePaidOut(k)
      PROVE  MarketInv'
  BY <1>1, <1>7, TradePaidOutStep
<1>8. CASE TradeMoved
  BY <1>1, <1>8, TradeMovedStep
<1>9. CASE UNCHANGED vars
  BY <1>9, SameMarket
<1> QED
  BY <1>2, <1>3, <1>4, <1>5, <1>6, <1>7, <1>8, <1>9 DEF Next

(* The inductive invariant of the market holds in every reachable state.   *)
THEOREM MarketInvariant == Spec => []MarketInv
BY InitMarket, NextMarket, PTL DEF Spec

(* The maps and the queue of trade logs never outgrow the memory they were *)
(* given, with the positions that trades in progress will still make       *)
(* (the checks of _trade before its await, the limit in match_trades).     *)
THEOREM RoomIsReserved == Spec => []RoomInv
<1>1. MarketInv => RoomInv
  BY DEF MarketInv, ShapeInv, RoomInv
<1> QED
  BY <1>1, MarketInvariant, PTL

(* The positions-subaccounts cover all that the contract owes, through     *)
(* every trade, cancellation and payout.                                   *)
THEOREM SolventAlways == Spec => []Solvent
<1>1. MarketInv => Solvent
  BY DEF MarketInv
<1> QED
  BY <1>1, MarketInvariant, PTL

(* match_trades leaves two positions that could trade on the book only     *)
(* when a limit stopped it.                                                *)
THEOREM Uncrossed == Spec => []BookUncrossed
<1>1. MarketInv => BookUncrossed
  BY DEF MarketInv
<1> QED
  BY <1>1, MarketInvariant, PTL

LEMMA TotalsAre ==
  \A id, k : /\ Traded(id, k) = TotalIn(trade_logs, id, "mount", k)
             /\ FeesOf(id, k) = TotalIn(trade_logs, id, "fee", k)
BY DEF Traded, FeesOf, TotalIn, TradesOf, TradesIn, Part

(* subtract_tokens never saturates: what is left of a position and what    *)
(* its trades took add up to its quantity, and the log of a void position  *)
(* reports what its trades bought and the fees they cost.                  *)
THEOREM Conserved == Spec => []PositionsConserved
<1>1. MarketInv => PositionsConserved
  <2> SUFFICES ASSUME BookInv
               PROVE  PositionsConserved
    BY DEF MarketInv
  <2>1. \A k \in Kind : \A id \in DOMAIN positions[k] :
          positions[k][id].quantity = positions[k][id].mainder + Traded(id, k)
    BY TotalsAre DEF BookInv, PositionOK
  <2>2. \A k \in Kind : \A id \in DOMAIN void_positions[k] :
          LET v == void_positions[k][id]
          IN /\ v.log.quantity = v.quantity + Traded(id, k)
             /\ v.log.fill_quantity = Traded(id, Opposite(k))
             /\ v.log.payouts_fees_sum = FeesOf(id, Opposite(k))
    BY TotalsAre DEF BookInv, VoidOK
  <2> QED
    BY <2>1, <2>2 DEF PositionsConserved
<1> QED
  BY <1>1, MarketInvariant, PTL

(* Every trade leaves both sides something after the fee, and is within    *)
(* the limits of both positions, as is the average that a void log tells.  *)
THEOREM WithinLimits == Spec => []TradesWithinLimits
<1>1. MarketInv => TradesWithinLimits
  <2> SUFFICES ASSUME BookInv
               PROVE  TradesWithinLimits
    BY DEF MarketInv
  <2>1. "Cycles" \in Kind /\ "Token" \in Kind /\ \A k \in Kind : k = "Cycles" \/ k = "Token"
    BY DEF Kind
  <2>2. \A i \in 1 .. Len(trade_logs) : LogReal(trade_logs[i], positions_id_counter - 1)
    BY DEF BookInv, LogsReal
  <2>3. \A k \in Kind : \A x : Known(k, x) => LimitsKept(trade_logs, k, x, Limit(k, x))
    <3> SUFFICES ASSUME NEW k \in Kind, NEW x, Known(k, x)
                 PROVE  LimitsKept(trade_logs, k, x, Limit(k, x))
      OBVIOUS
    <3>1. CASE x \in DOMAIN positions[k]
      BY <3>1 DEF BookInv, PositionOK, Limit
    <3>2. CASE x \notin DOMAIN positions[k]
      BY <3>2 DEF BookInv, VoidOK, Limit, Known
    <3> QED
      BY <3>1, <3>2
  <2>4. ASSUME NEW i \in 1 .. Len(trade_logs), NEW k \in Kind, Known(k, PositionOf(trade_logs[i], k))
        PROVE  IF k = "Cycles" THEN trade_logs[i].rate <= Limit(k, PositionOf(trade_logs[i], k))
               ELSE trade_logs[i].rate >= Limit(k, PositionOf(trade_logs[i], k))
    <3>1. LimitsKept(trade_logs, k, PositionOf(trade_logs[i], k), Limit(k, PositionOf(trade_logs[i], k)))
      BY <2>3, <2>4
    <3> QED
      BY <3>1 DEF LimitsKept, LimitsRate
  <2>5. \A k \in Kind : \A x \in DOMAIN void_positions[k] :
          LimitsRate(k, void_positions[k][x].log.rate, void_positions[k][x].log.fill_average_rate)
    BY DEF BookInv, VoidOK
  <2>6. /\ \A x \in DOMAIN void_positions["Cycles"] :
             void_positions["Cycles"][x].log.fill_average_rate <= void_positions["Cycles"][x].log.rate
        /\ \A x \in DOMAIN void_positions["Token"] :
             void_positions["Token"][x].log.fill_average_rate >= void_positions["Token"][x].log.rate
    BY <2>1, <2>5 DEF LimitsRate
  <2> QED
    BY <2>2, <2>4, <2>6 DEF TradesWithinLimits, LogReal
<1> QED
  BY <1>1, MarketInvariant, PTL

----------------------------------------------------------------------------
(* The fees of the trades.  A second invariant on top of MarketInv: each   *)
(* trade was charged for the volume that its two positions had then, and a *)
(* position is on the same side of all of its trades.                      *)

VolumeIn(logs, i, x) == SumFunction([j \in {t \in TradesIn(logs, x) : t < i} |-> logs[j].mount["Cycles"]])

Charged(log, k, volume) ==
  log.cts_fee[Opposite(k)] = FeeAt(k, calculate_trade_fee(volume, log.mount["Cycles"]), log.rate)

LogsCharged(logs) ==
  \A i \in 1 .. Len(logs), k \in Kind :
    Charged(logs[i], k, VolumeIn(logs, i, PositionOf(logs[i], k)))

(* No trade has x on the other side than k. *)
OfSide(logs, x, k) == \A i \in 1 .. Len(logs) : PositionOf(logs[i], Opposite(k)) # x

SidesKept(logs) == \A i \in 1 .. Len(logs), k \in Kind : OfSide(logs, PositionOf(logs[i], k), k)

FeesInv ==
  /\ LogsCharged(trade_logs) /\ SidesKept(trade_logs)
  /\ \A k \in Kind : \A x \in DOMAIN positions[k] : OfSide(trade_logs, x, k)

(* The same in the loop of match_trades. *)
LoopFees(k, id, st) ==
  /\ LogsCharged(AllLogs(st)) /\ SidesKept(AllLogs(st))
  /\ OfSide(AllLogs(st), id, k)
  /\ \A x \in DOMAIN positions[k] : OfSide(AllLogs(st), x, k)
  /\ \A m \in Matchees(k) : OfSide(AllLogs(st), m, Opposite(k))

(* One more trade leaves the volumes before the others as they were. *)
LEMMA VolumeAppend ==
  ASSUME NEW logs \in Seq(MatchLogType), NEW log \in MatchLogType, NEW x
  PROVE  /\ \A i \in 1 .. Len(logs) : VolumeIn(Append(logs, log), i, x) = VolumeIn(logs, i, x)
         /\ VolumeIn(Append(logs, log), Len(logs) + 1, x) = TotalIn(logs, x, "mount", "Cycles")
<1> DEFINE all == Append(logs, log)
           n == Len(logs) + 1
<1>1. /\ Len(all) = n /\ \A i \in 1 .. Len(logs) : all[i] = logs[i]
      /\ 1 .. n = (1 .. Len(logs)) \cup {n} /\ n \notin 1 .. Len(logs) /\ Len(logs) \in Nat
  BY AppendLog, LogsAreLogs
<1> HIDE DEF all
<1>2. ASSUME NEW i \in 1 .. n
      PROVE  VolumeIn(all, i, x) = VolumeIn(logs, i, x)
  <2> DEFINE S == {t \in TradesIn(logs, x) : t < i}
             T == {t \in TradesIn(all, x) : t < i}
             f == [j \in S |-> logs[j].mount["Cycles"]]
             g == [j \in T |-> all[j].mount["Cycles"]]
  <2>1. S = T
    <3>1. \A t \in 1 .. n : t < i => t \in 1 .. Len(logs)
      BY <1>1
    <3> QED
      BY <1>1, <3>1 DEF TradesIn
  <2>2. \A j \in S : all[j] = logs[j]
    BY <1>1 DEF TradesIn
  <2>3. f = g
    BY <2>1, <2>2
  <2> QED
    BY <2>3 DEF VolumeIn
<1>3. VolumeIn(logs, n, x) = TotalIn(logs, x, "mount", "Cycles")
  <2>1. {t \in TradesIn(logs, x) : t < n} = TradesIn(logs, x)
    BY <1>1 DEF TradesIn
  <2> QED
    BY <2>1 DEF VolumeIn, TotalIn, Part
<1> QED
  BY <1>1, <1>2, <1>3 DEF all

LEMMA SideAppend ==
  ASSUME NEW logs \in Seq(MatchLogType), NEW log \in MatchLogType, NEW x, NEW k \in Kind,
         OfSide(logs, x, k), PositionOf(log, Opposite(k)) # x
  PROVE  OfSide(Append(logs, log), x, k)
<1> DEFINE all == Append(logs, log)
           n == Len(logs) + 1
<1>1. /\ Len(all) = n /\ \A i \in 1 .. Len(logs) : all[i] = logs[i]
      /\ all[n] = log /\ 1 .. n = (1 .. Len(logs)) \cup {n}
  BY AppendLog
<1> HIDE DEF all, n
<1>2. OfSide(all, x, k)
  BY <1>1 DEF OfSide
<1> QED
  BY <1>2 DEF all

(* The volume the fee of a trade is computed with is that of the trades of *)
(* the position before it.                                                 *)
LEMMA ChargedByVolume ==
  ASSUME NEW logs \in Seq(MatchLogType), NEW k \in Kind, NEW x, NEW p, PositionOK(logs, k, x, p),
         NEW tokens \in Nat, NEW rate \in Nat
  PROVE  FeeCycles(k, p, tokens, rate) =
           calculate_trade_fee(TotalIn(logs, x, "mount", "Cycles"), tokens * rate)
<1>1. CASE k = "Cycles"
  <2> DEFINE v == TotalIn(logs, x, "mount", "Cycles")
  <2>1. p.quantity = p.mainder + v /\ p.mainder \in Nat /\ v \in Nat
    BY <1>1, TotalType DEF PositionOK, SoundPosition, PositionType
  <2> HIDE DEF v
  <2>2. p.quantity - p.mainder = v
    BY <2>1
  <2> QED
    BY <1>1, <2>2 DEF FeeCycles, v
<1>2. CASE k # "Cycles"
  <2>1. Opposite(k) = "Cycles" /\ p.rates_sum = TotalIn(logs, x, "mount", "Cycles")
    BY <1>2 DEF PositionOK, Fill, Opposite, Kind
  <2> QED
    BY <1>2, <2>1 DEF FeeCycles
<1> QED
  BY <1>1, <1>2

LEMMA LoopFeesMatch ==
  ASSUME NEW k \in Kind, NEW id \in Nat, NEW mid \in Matchees(k), NEW st, NEW new,
         NEW tokens \in Nat, NEW rate \in Nat, NEW log \in MatchLogType,
         st \in MatchState(Matchees(k)), trade_logs \in Seq(MatchLogType),
         LoopBook(k, id, st), LoopFees(k, id, st),
         IsMatch(k, id, mid, Queue, st, new, tokens, rate, log), Apart(k, id), Matchees(k) \in SUBSET Nat
  PROVE  LoopFees(k, id, new)
<1> DEFINE D == Matchees(k)
           o == Opposite(k)
           p == st.matcher
           m == st.matchees[mid]
           all == AllLogs(st)
           all2 == AllLogs(new)
           n == Len(all) + 1
<1>1. IsLog(log, k, id, mid, p, m, tokens, rate) /\ new.logs = Append(st.logs, log)
  BY DEF IsMatch
<1>2. all \in Seq(MatchLogType) /\ all2 = Append(all, log)
  BY <1>1, AllLogsAre
<1>3. o \in Kind /\ o # k /\ Opposite(o) = k /\ \A j \in Kind : j = k \/ j = o
  BY Kinds
<1>4. PositionOf(log, k) = id /\ PositionOf(log, o) = mid
  BY <1>1, <1>3 DEF IsLog, PositionOf
<1>5. id # mid /\ \A x \in D : x # id
  BY DEF Apart
<1>6. /\ PositionOK(all, k, id, p) /\ PositionOK(all, o, mid, m)
      /\ LogsCharged(all) /\ SidesKept(all) /\ OfSide(all, id, k) /\ OfSide(all, mid, o)
      /\ \A x \in DOMAIN positions[k] : OfSide(all, x, k)
      /\ \A x \in D : OfSide(all, x, o)
  BY DEF LoopBook, LoopFees
<1>7. \A x \in DOMAIN positions[k] : x # mid
  BY DEF Apart
<1>8. \A j \in Kind : log.cts_fee[Opposite(j)] =
                        FeeAt(j, FeeCycles(j, IF j = k THEN p ELSE m, tokens, rate), rate)
  BY <1>1 DEF IsLog
<1>9. log.rate = rate /\ log.mount["Cycles"] = tokens * rate
  BY <1>1 DEF IsLog, Amount, Kind
<1>10. /\ Len(all2) = n /\ \A i \in 1 .. Len(all) : all2[i] = all[i]
       /\ all2[n] = log /\ 1 .. n = (1 .. Len(all)) \cup {n}
  BY <1>2, AppendLog
<1> HIDE DEF D, o, p, m, all, all2, n
<1>11. \A x : OfSide(all, x, k) /\ x # mid => OfSide(all2, x, k)
  BY <1>2, <1>3, <1>4, SideAppend DEF o
<1>12. \A x : OfSide(all, x, o) /\ x # id => OfSide(all2, x, o)
  BY <1>2, <1>3, <1>4, SideAppend
<1>13. SidesKept(all2)
  <2> SUFFICES ASSUME NEW i \in 1 .. Len(all2), NEW j \in Kind
               PROVE  OfSide(all2, PositionOf(all2[i], j), j)
    BY DEF SidesKept
  <2>1. CASE i \in 1 .. Len(all)
    <3> DEFINE x == PositionOf(all[i], j)
    <3>1. all2[i] = all[i] /\ OfSide(all, x, j)
      BY <1>6, <1>10, <2>1 DEF SidesKept
    <3>2. j = k => x # mid
      BY <1>3, <1>6, <2>1 DEF OfSide
    <3>3. j = o => x # id
      BY <1>3, <1>6, <2>1 DEF OfSide, o
    <3> HIDE DEF x
    <3>4. OfSide(all2, x, j)
      BY <1>3, <1>11, <1>12, <3>1, <3>2, <3>3
    <3> QED
      BY <3>1, <3>4 DEF x
  <2>2. CASE i = n
    BY <1>3, <1>4, <1>5, <1>6, <1>10, <1>11, <1>12, <2>2
  <2> QED
    BY <1>10, <2>1, <2>2
<1>14. LogsCharged(all2)
  <2> SUFFICES ASSUME NEW i \in 1 .. Len(all2), NEW j \in Kind
               PROVE  Charged(all2[i], j, VolumeIn(all2, i, PositionOf(all2[i], j)))
    BY DEF LogsCharged
  <2>1. CASE i \in 1 .. Len(all)
    <3>1. all2[i] = all[i] /\ VolumeIn(all2, i, PositionOf(all[i], j)) = VolumeIn(all, i, PositionOf(all[i], j))
      BY <1>2, <1>10, <2>1, VolumeAppend
    <3> QED
      BY <1>6, <2>1, <3>1 DEF LogsCharged
  <2>2. CASE i = n
    <3> DEFINE x == PositionOf(log, j)
               q == IF j = k THEN p ELSE m
               v == TotalIn(all, x, "mount", "Cycles")
    <3>1. PositionOK(all, j, x, q)
      BY <1>3, <1>4, <1>6
    <3>2. VolumeIn(all2, n, x) = v
      BY <1>2, VolumeAppend DEF n
    <3>3. log.cts_fee[Opposite(j)] = FeeAt(j, FeeCycles(j, q, tokens, rate), rate)
      BY <1>8
    <3> HIDE DEF x, q, v
    <3>4. FeeCycles(j, q, tokens, rate) = calculate_trade_fee(v, tokens * rate)
      BY <1>2, <3>1, ChargedByVolume DEF v
    <3>5. Charged(log, j, v)
      BY <1>9, <3>3, <3>4 DEF Charged
    <3> QED
      BY <1>10, <2>2, <3>2, <3>5 DEF x
  <2> QED
    BY <1>10, <2>1, <2>2
<1>15. OfSide(all2, id, k) /\ \A x \in DOMAIN positions[k] : OfSide(all2, x, k)
  BY <1>5, <1>6, <1>7, <1>11
<1>16. \A x \in D : OfSide(all2, x, o)
  BY <1>5, <1>6, <1>12
<1> QED
  BY <1>13, <1>14, <1>15, <1>16 DEF LoopFees, all2, D, o

LEMMA LoopFeesStep ==
  ASSUME NEW k, NEW id, NEW p0, Ready(k, id, p0), NEW n \in Nat, n < Cardinality(Matchees(k)),
         NEW limit \in Nat, NEW st, NEW new, LoopInv(k, id, p0, st, n), LoopFees(k, id, st),
         new = MatchStep(k, id, Queue, limit, st, InOrder(Matchees(k))[n + 1])
  PROVE  LoopFees(k, id, new)
<1> DEFINE D == Matchees(k)
           o == Opposite(k)
           mid == InOrder(D)[n + 1]
           c == Cardinality(D)
<1>1. /\ k \in Kind /\ id \in Nat /\ trade_logs \in Seq(MatchLogType) /\ moved \in Nat
      /\ D \in SUBSET Nat /\ IsFiniteSet(D) /\ Apart(k, id)
  BY DEF Ready
<1>2. LoopData(k, p0, st) /\ LoopBook(k, id, st) /\ LoopUncrossed(k, p0, st, n)
  BY DEF LoopInv
<1>3. c \in Nat /\ mid \in D /\ n + 1 \in n + 1 .. c
  <2>1. c \in Nat /\ \A i \in 1 .. c : InOrder(D)[i] \in D
    BY <1>1, Ordered
  <2>2. n + 1 \in 1 .. c /\ n + 1 \in n + 1 .. c
    BY <2>1
  <2> QED
    BY <2>1, <2>2
<1>4. st \in MatchState(D) /\ SoundPosition(st.matcher) /\ SoundPosition(st.matchees[mid])
  BY <1>2, <1>3 DEF LoopData, LoopBook, PositionOK
<1>5. ~st.stopped => Worth(k, st.matcher)
  BY <1>2 DEF LoopData
<1>6. Worth(o, st.matchees[mid])
  <2>1. mid \notin st.filled
    BY <1>2, <1>3 DEF LoopUncrossed
  <2> QED
    BY <1>2, <1>3, <2>1 DEF LoopData
<1>0. Queue \in Int
  BY <1>1 DEF Queue
<1> HIDE DEF D, mid, o, c
<1>7. \/ new = st
      \/ IsCut(st, new)
      \/ \E tokens \in Nat, rate \in Nat, log \in MatchLogType :
           IsMatch(k, id, mid, Queue, st, new, tokens, rate, log)
  BY <1>0, <1>1, <1>3, <1>4, <1>5, <1>6, StepIs DEF D, o, mid
<1>8. CASE new = st \/ IsCut(st, new)
  <2>1. AllLogs(new) = AllLogs(st)
    BY <1>8 DEF IsCut, AllLogs
  <2> QED
    BY <2>1 DEF LoopFees
<1>9. ASSUME NEW tokens \in Nat, NEW rate \in Nat, NEW log \in MatchLogType,
             IsMatch(k, id, mid, Queue, st, new, tokens, rate, log)
      PROVE  LoopFees(k, id, new)
  <2>1. /\ k \in Kind /\ id \in Nat /\ mid \in Matchees(k) /\ st \in MatchState(Matchees(k))
        /\ trade_logs \in Seq(MatchLogType) /\ LoopBook(k, id, st) /\ LoopFees(k, id, st)
        /\ Apart(k, id) /\ Matchees(k) \in SUBSET Nat
    BY <1>1, <1>2, <1>3, <1>4 DEF D
  <2> HIDE DEF D, mid, o, c
  <2> QED
    BY ONLY <1>9, <2>1, LoopFeesMatch
<1> QED
  BY <1>7, <1>8, <1>9

LEMMA LoopFeesFirst ==
  ASSUME NEW k, NEW id, NEW p0, Ready(k, id, p0), FeesInv
  PROVE  LoopFees(k, id, FirstState(p0, positions[Opposite(k)]))
<1>1. AllLogs(FirstState(p0, positions[Opposite(k)])) = trade_logs
  <2> DEFINE L == MatchLogType
  <2>1. trade_logs \in Seq(L)
    BY DEF Ready
  <2> HIDE DEF L
  <2>2. trade_logs \o <<>> = trade_logs
    BY <2>1
  <2> QED
    BY <2>2 DEF AllLogs, FirstState
<1>2. k \in Kind /\ Opposite(k) \in Kind /\ id \in Nat
  BY Kinds DEF Ready
<1>3. OfSide(trade_logs, id, k)
  <2>1. \A i \in 1 .. Len(trade_logs) :
          /\ trade_logs[i].matcher <= id - 1 /\ trade_logs[i].matchee <= id - 1
          /\ trade_logs[i].matcher \in Nat /\ trade_logs[i].matchee \in Nat
    <3>1. \A i \in 1 .. Len(trade_logs) : trade_logs[i] \in MatchLogType
      BY LogsAreLogs DEF Ready
    <3> QED
      BY <3>1 DEF Ready, LogsReal, LogReal, MatchLogType
  <2> QED
    BY <1>2, <2>1 DEF OfSide, PositionOf
<1> QED
  BY <1>1, <1>2, <1>3 DEF LoopFees, FeesInv, Matchees

LEMMA LoopFeesDone ==
  ASSUME NEW k, NEW id, NEW p0, Ready(k, id, p0), NEW limit \in Nat, FeesInv
  PROVE  LoopFees(k, id, Matched(k, id, p0, positions[Opposite(k)], Queue, limit))
<1> DEFINE run == MatchRun(k, id, p0, positions[Opposite(k)], Queue, limit)
           c == Cardinality(Matchees(k))
           Good(n) == LoopInv(k, id, p0, run[n], n) /\ LoopFees(k, id, run[n])
           T == {n \in 0 .. c : ~Good(n)}
<1>1. Matchees(k) \in SUBSET Nat /\ IsFiniteSet(Matchees(k)) /\ c \in Nat
  BY Ordered DEF Ready
<1>2. /\ run[0] = FirstState(p0, positions[Opposite(k)])
      /\ \A i \in 1 .. c : run[i] = MatchStep(k, id, Queue, limit, run[i - 1], InOrder(Matchees(k))[i])
  BY <1>1, MatchRunIs DEF Matchees
<1>3. Matched(k, id, p0, positions[Opposite(k)], Queue, limit) = run[c]
  BY DEF Matched, Matchees
<1> HIDE DEF run, c
<1>4. Good(0)
  BY <1>2, LoopFirst, LoopFeesFirst
<1>5. ASSUME T # {} PROVE FALSE
  <2>1. PICK m \in T : \A n \in T : m <= n
    <3>1. T \subseteq Nat
      BY <1>1
    <3> HIDE DEF T
    <3> QED
      BY <3>1, <1>5, LeastNat
  <2>2. m \in 0 .. c /\ m # 0 /\ ~Good(m)
    BY <1>4, <2>1
  <2>3. m \in 1 .. c /\ m - 1 \in 0 .. c /\ m - 1 \in Nat /\ (m - 1) + 1 = m /\ m - 1 < c
        /\ m - 1 \notin T
    BY <1>1, <2>1, <2>2
  <2>4. Good(m - 1)
    BY <2>3
  <2> HIDE DEF T
  <2> DEFINE i == m - 1
  <2>5. run[m] = MatchStep(k, id, Queue, limit, run[i], InOrder(Matchees(k))[i + 1]) /\ i + 1 = m
    BY <1>2, <2>3
  <2>6. i \in Nat /\ i < c /\ LoopInv(k, id, p0, run[i], i) /\ LoopFees(k, id, run[i])
    BY <2>3, <2>4
  <2> HIDE DEF i
  <2>7. LoopInv(k, id, p0, run[m], i + 1)
    BY <2>5, <2>6, LoopStep DEF c
  <2>8. LoopFees(k, id, run[m])
    BY <2>5, <2>6, LoopFeesStep DEF c
  <2> QED
    BY <2>2, <2>5, <2>7, <2>8
<1>6. c \in 0 .. c /\ c \notin T
  BY <1>1, <1>5
<1> QED
  BY <1>3, <1>6 DEF c

(* The action that makes trades, and the others, which make none.          *)
LEMMA FeesReturn ==
  ASSUME MarketInv, FeesInv, NEW c \in Call, calls[c].op = "trade", NEW limit \in Nat,
         CreateAndMatch(calls[c].kind, calls[c].user, calls[c].quantity, calls[c].rate, limit)
  PROVE  FeesInv'
<1>1. CallsInv /\ ShapeInv /\ QuestsOK /\ RoomReserved /\ BookInv
  BY DEF MarketInv
<1>2. PICK k \in Kind, user \in User, quantity \in Nat, rate \in Nat :
        /\ calls[c].kind = k /\ calls[c].user = user
        /\ calls[c].quantity = quantity /\ calls[c].rate = rate
  <2>1. calls[c] \in CallType
    BY <1>1 DEF CallsInv
  <2>2. calls[c] \in [op : {"trade", "transfer"}, user : User, kind : Kind,
                      quantity : Nat, rate : Nat, answer : {"none", "ok", "err"}]
    BY <2>1, CallFields
  <2> QED
    BY <2>2
<1> DEFINE id == positions_id_counter
           p0 == NewPosition(user, quantity, rate)
           st == Matched(k, id, p0, positions[Opposite(k)], Queue, limit)
           o == Opposite(k)
<1>3. rate # 0 /\ ~BelowMinimumQuest(k, quantity, rate)
  BY <1>1, <1>2 DEF QuestsOK, TradeCalls
<1>4. CreateAndMatch(k, user, quantity, rate, limit)
  BY <1>2
<1> HIDE DEF p0
<1>5. Ready(k, id, p0)
  BY <1>1, <1>2, <1>3, MatcherReady DEF p0
<1>6. LoopInv(k, id, p0, st, Cardinality(Matchees(k))) /\ LoopFees(k, id, st)
  BY <1>5, LoopDone, LoopFeesDone
<1> HIDE DEF st, id
<1>7. DOMAIN st.matchees = Matchees(k) /\ st.filled \subseteq Matchees(k)
  BY <1>6 DEF LoopInv, LoopData, MatchState
<1>8. Created(k, id, st)
  <2>1. positions = [j \in Kind |-> positions[j]]
    BY <1>1 DEF ShapeInv
  <2> QED
    BY <1>2, <1>4, <1>7, <2>1, CreateIs DEF st, p0, id
<1>9. o \in Kind /\ o # k /\ \A j \in Kind : j = k \/ j = o
  BY Kinds
<1>10. trade_logs' = AllLogs(st)
  BY <1>8 DEF Created
<1>11. \A x \in DOMAIN positions'[k] : OfSide(AllLogs(st), x, k)
  <2>1. DOMAIN positions'[k] \subseteq DOMAIN positions[k] \cup {id}
    BY <1>8 DEF Created
  <2> QED
    BY <1>6, <2>1 DEF LoopFees
<1>12. \A x \in DOMAIN positions'[o] : OfSide(AllLogs(st), x, o)
  <2>1. DOMAIN positions'[o] \subseteq Matchees(k)
    BY <1>8 DEF Created, Matchees
  <2> QED
    BY <1>6, <2>1 DEF LoopFees
<1>13. \A j \in Kind : \A x \in DOMAIN positions'[j] : OfSide(trade_logs', x, j)
  <2> TAKE j \in Kind
  <2>1. CASE j = k
    BY <1>10, <1>11, <2>1
  <2>2. CASE j = o
    BY <1>10, <1>12, <2>2
  <2> QED
    BY <1>9, <2>1, <2>2
<1> QED
  BY <1>6, <1>10, <1>13 DEF FeesInv, LoopFees

LEMMA FeesSame ==
  ASSUME FeesInv, UNCHANGED trade_logs,
         \A k \in Kind : DOMAIN positions'[k] \subseteq DOMAIN positions[k]
  PROVE  FeesInv'
BY DEF FeesInv

LEMMA InitFees == Init => FeesInv
<1> SUFFICES ASSUME Init
             PROVE  FeesInv
  OBVIOUS
<1>1. trade_logs = <<>> /\ 1 .. Len(trade_logs) = {} /\ \A k \in Kind : DOMAIN positions[k] = {}
  BY DEF Init
<1> QED
  BY <1>1 DEF FeesInv, LogsCharged, SidesKept

LEMMA NextFees == MarketInv /\ FeesInv /\ [Next]_vars => FeesInv'
<1> SUFFICES ASSUME MarketInv, FeesInv, [Next]_vars
             PROVE  FeesInv'
  OBVIOUS
<1>1. ASSUME UNCHANGED bookVars PROVE FeesInv'
  BY <1>1, FeesSame DEF bookVars
<1>2. ASSUME NEW c \in Call, NEW user \in User, NEW k \in Kind,
             TradeCall(c, user, k) \/ TransferBalanceCall(c, user, k)
      PROVE  FeesInv'
  BY <1>1, <1>2 DEF TradeCall, TransferBalanceCall
<1>3. ASSUME NEW c \in Call, LedgerAccepts(c) \/ LedgerRefuses(c)
      PROVE  FeesInv'
  BY <1>1, <1>3 DEF LedgerAccepts, LedgerRefuses
<1>4. ASSUME NEW c \in Call, TradeReturns(c) \/ TransferBalanceReturns(c)
      PROVE  FeesInv'
  <2>1. CASE UNCHANGED bookVars
    BY <1>1, <2>1
  <2>2. CASE ~UNCHANGED bookVars
    <3>1. calls[c].op = "trade"
          /\ \E limit \in MatchLimits :
               CreateAndMatch(calls[c].kind, calls[c].user, calls[c].quantity, calls[c].rate, limit)
      BY <1>4, <2>2 DEF TradeReturns, TransferBalanceReturns
    <3>2. MatchLimits \subseteq Nat
      BY MarketAssumption
    <3> QED
      BY <3>1, <3>2, FeesReturn
  <2> QED
    BY <2>1, <2>2
<1>5. ASSUME NEW user \in User, NEW k \in Kind, VoidPosition(user, k)
      PROVE  FeesInv'
  <2>1. PICK id \in DOMAIN positions[k] :
          positions' = [positions EXCEPT ![k] = Without(@, {id})] /\ trade_logs' = trade_logs
    BY <1>5 DEF VoidPosition
  <2>2. positions = [j \in Kind |-> positions[j]]
    BY DEF MarketInv, ShapeInv
  <2>3. \A j \in Kind : DOMAIN positions'[j] \subseteq DOMAIN positions[j]
    BY <2>1, <2>2 DEF Without
  <2> QED
    BY <2>1, <2>3, FeesSame
<1>6. ASSUME NEW k \in Kind, VoidPaidOut(k)
      PROVE  FeesInv'
  <2>1. positions' = positions /\ trade_logs' = trade_logs
    BY <1>6 DEF VoidPaidOut
  <2> QED
    BY <2>1, FeesSame
<1>7. ASSUME NEW k \in Kind, TradePaidOut(k)
      PROVE  FeesInv'
  BY <1>1, <1>7 DEF TradePaidOut
<1>8. CASE TradeMoved
  BY <1>1, <1>8 DEF TradeMoved
<1>9. CASE UNCHANGED vars
  BY <1>1, <1>9 DEF vars
<1> QED
  BY <1>2, <1>3, <1>4, <1>5, <1>6, <1>7, <1>8, <1>9 DEF Next

LEMMA TierSumType == ASSUME NEW from \in Nat, NEW to \in Nat PROVE TierSum(from, to) \in Nat
<1>1. TierSum(from, to) \in Nat
  BY PartFeesAre
<1> QED
  BY <1>1

(* Trades that are each charged at most for the tiers they go through cost *)
(* together at most what one trade of the whole volume would.              *)
Earlier(logs, n, x) == {t \in TradesIn(logs, x) : t < n}

LEMMA EarlierAre ==
  ASSUME NEW logs \in Seq(MatchLogType), NEW x, NEW n \in 1 .. Len(logs)
  PROVE  /\ IsFiniteSet(Earlier(logs, n, x)) /\ n \notin Earlier(logs, n, x)
         /\ Earlier(logs, n + 1, x) = Earlier(logs, n, x) \cup (IF n \in TradesIn(logs, x) THEN {n} ELSE {})
         /\ Earlier(logs, 1, x) = {} /\ Earlier(logs, Len(logs) + 1, x) = TradesIn(logs, x)
<1>1. Len(logs) \in Nat /\ \A t \in TradesIn(logs, x) : t \in 1 .. Len(logs)
  BY LogsAreLogs DEF TradesIn
<1>2. IsFiniteSet(Earlier(logs, n, x))
  <2>1. IsFiniteSet(TradesIn(logs, x))
    <3>1. "Cycles" \in Kind
      BY DEF Kind
    <3> QED
      BY <3>1, TotalType
  <2>2. Earlier(logs, n, x) \in SUBSET TradesIn(logs, x)
    BY DEF Earlier
  <2> QED
    BY <2>1, <2>2, FS_Subset
<1> QED
  BY <1>1, <1>2 DEF Earlier

LEMMA VolumeGrows ==
  ASSUME NEW logs \in Seq(MatchLogType), NEW x, NEW n \in 1 .. Len(logs)
  PROVE  /\ VolumeIn(logs, n, x) \in Nat /\ logs[n].mount["Cycles"] \in Nat
         /\ VolumeIn(logs, n + 1, x) =
              VolumeIn(logs, n, x) + (IF n \in TradesIn(logs, x) THEN logs[n].mount["Cycles"] ELSE 0)
<1> DEFINE f == [j \in Earlier(logs, n, x) |-> logs[j].mount["Cycles"]]
           g == [j \in Earlier(logs, n + 1, x) |-> logs[j].mount["Cycles"]]
<1>1. \A j \in 1 .. Len(logs) : logs[j].mount["Cycles"] \in Nat
  <2>1. "Cycles" \in Kind /\ \A j \in 1 .. Len(logs) : logs[j] \in MatchLogType
    BY LogsAreLogs DEF Kind
  <2> QED
    BY <2>1 DEF MatchLogType
<1>2. VolumeIn(logs, n, x) = SumFunction(f) /\ VolumeIn(logs, n + 1, x) = SumFunction(g)
  BY DEF VolumeIn, Earlier
<1>3. /\ DOMAIN f = Earlier(logs, n, x) /\ DOMAIN g = Earlier(logs, n + 1, x)
      /\ \A j \in DOMAIN f : f[j] \in Nat /\ f[j] \in Int
      /\ \A j \in DOMAIN g : g[j] \in Int
      /\ \A j \in DOMAIN f \cap DOMAIN g : f[j] = g[j]
      /\ n \in DOMAIN g => g[n] = logs[n].mount["Cycles"]
  BY <1>1 DEF Earlier, TradesIn
<1>4. /\ IsFiniteSet(DOMAIN f) /\ n \notin DOMAIN f
      /\ DOMAIN g = DOMAIN f \cup (IF n \in TradesIn(logs, x) THEN {n} ELSE {})
  BY <1>3, EarlierAre
<1> HIDE DEF f, g
<1>5. SumFunction(f) \in Nat
  BY <1>3, <1>4, SumType
<1>6. CASE n \in TradesIn(logs, x)
  <2>1. DOMAIN g = DOMAIN f \cup {n}
    BY <1>4, <1>6
  <2>2. SumFunction(g) = SumFunction(f) + g[n]
    BY <1>3, <1>4, <2>1, SumPut
  <2> QED
    BY <1>1, <1>2, <1>3, <1>5, <1>6, <2>1, <2>2
<1>7. CASE n \notin TradesIn(logs, x)
  <2>1. DOMAIN g = DOMAIN f
    BY <1>4, <1>7
  <2>2. SumFunction(g) = SumFunction(f)
    BY <1>3, <1>4, <2>1, SumKeep
  <2> QED
    BY <1>1, <1>2, <1>5, <1>7, <2>2
<1> QED
  BY <1>6, <1>7

LEMMA PiecesCostLess ==
  ASSUME NEW logs \in Seq(MatchLogType), NEW x, NEW f,
         \A i \in TradesIn(logs, x) :
           /\ f[i] \in Nat
           /\ f[i] <= TierSum(VolumeIn(logs, i, x), VolumeIn(logs, i, x) + logs[i].mount["Cycles"])
  PROVE  SumFunctionOnSet(f, TradesIn(logs, x)) <= TierSum(0, TotalIn(logs, x, "mount", "Cycles"))
<1> DEFINE Low(n) == SumFunctionOnSet(f, Earlier(logs, n, x)) <= TierSum(0, VolumeIn(logs, n, x))
           c == Len(logs)
           T == {n \in 1 .. c + 1 : ~Low(n)}
<1>1. c \in Nat /\ TradesIn(logs, x) \subseteq 1 .. c
  BY LogsAreLogs DEF TradesIn
<1>2. Low(1)
  <2>1. Earlier(logs, 1, x) = {}
    BY <1>1 DEF Earlier
  <2>2. VolumeIn(logs, 1, x) = 0
    <3> DEFINE h == [j \in Earlier(logs, 1, x) |-> logs[j].mount["Cycles"]]
    <3>1. VolumeIn(logs, 1, x) = SumFunction(h) /\ DOMAIN h = {}
      BY <2>1 DEF VolumeIn, Earlier
    <3> HIDE DEF h
    <3> QED
      BY <3>1, SumNothing
  <2>3. TierSum(0, 0) \in Nat
    BY PartFeesAre
  <2>4. SumFunctionOnSet(f, {}) = 0
    BY SumEmpty
  <2>5. SumFunctionOnSet(f, {}) <= TierSum(0, 0)
    BY <2>3, <2>4
  <2> QED
    BY <2>1, <2>2, <2>5
<1>3. ASSUME NEW n \in 1 .. c, Low(n)
      PROVE  Low(n + 1)
  <2> DEFINE v == VolumeIn(logs, n, x)
             m == logs[n].mount["Cycles"]
             S == Earlier(logs, n, x)
  <2>1. v \in Nat /\ m \in Nat
        /\ VolumeIn(logs, n + 1, x) = v + (IF n \in TradesIn(logs, x) THEN m ELSE 0)
    BY VolumeGrows
  <2>2. /\ IsFiniteSet(S) /\ n \notin S
        /\ Earlier(logs, n + 1, x) = S \cup (IF n \in TradesIn(logs, x) THEN {n} ELSE {})
    BY EarlierAre
  <2>3. S \subseteq TradesIn(logs, x)
    BY DEF Earlier
  <2>4. CASE n \in TradesIn(logs, x)
    <3>1. SumFunctionOnSet(f, S \cup {n}) = SumFunctionOnSet(f, S) + f[n]
      <4>1. \A y \in S \cup {n} : f[y] \in Int
        BY <2>3, <2>4
      <4> HIDE DEF S
      <4> QED
        BY <2>2, <4>1, SumAdd
    <3>2. f[n] \in Nat /\ f[n] <= TierSum(v, v + m)
      BY <2>4
    <3>3. SumFunctionOnSet(f, S) \in Nat
      <4>1. \A y \in S : f[y] \in Nat
        BY <2>3
      <4> HIDE DEF S
      <4> QED
        BY <2>2, <4>1, SumNat
    <3>4. SumFunctionOnSet(f, S) <= TierSum(0, v)
      BY <1>3
    <3>5. Earlier(logs, n + 1, x) = S \cup {n} /\ VolumeIn(logs, n + 1, x) = v + m
      BY <2>1, <2>2, <2>4
    <3> HIDE DEF v, m, S
    <3>6. TierSum(0, v) + TierSum(v, v + m) <= TierSum(0, v + m)
      BY <2>1, TierSumGrows
    <3>7. TierSum(0, v) \in Nat /\ TierSum(v, v + m) \in Nat /\ TierSum(0, v + m) \in Nat
      <4>1. v \in Nat /\ v + m \in Nat /\ 0 \in Nat
        BY <2>1
      <4> QED
        BY <4>1, TierSumType
    <3>8. SumFunctionOnSet(f, S \cup {n}) <= TierSum(0, v + m)
      <4> DEFINE a == SumFunctionOnSet(f, S)
                 b == TierSum(0, v)
                 d == TierSum(v, v + m)
                 e == TierSum(0, v + m)
      <4>1. /\ a \in Nat /\ f[n] \in Nat /\ b \in Nat /\ d \in Nat /\ e \in Nat
            /\ a <= b /\ f[n] <= d /\ b + d <= e
        BY <3>2, <3>3, <3>4, <3>6, <3>7
      <4> HIDE DEF a, b, d, e
      <4>2. a + f[n] <= e
        BY <4>1
      <4> QED
        BY <3>1, <4>2 DEF a, e
    <3> QED
      BY <3>5, <3>8
  <2>5. CASE n \notin TradesIn(logs, x)
    <3>1. Earlier(logs, n + 1, x) = S /\ VolumeIn(logs, n + 1, x) = v
      BY <2>1, <2>2, <2>5
    <3> QED
      BY <1>3, <3>1
  <2> QED
    BY <2>4, <2>5
<1> HIDE DEF Low
<1>4. ASSUME T # {} PROVE FALSE
  <2>1. PICK n \in T : \A k \in T : n <= k
    <3>1. T \subseteq Nat
      BY <1>1
    <3> HIDE DEF T
    <3> QED
      BY <3>1, <1>4, LeastNat
  <2>2. n \in 1 .. c + 1 /\ n # 1 /\ ~Low(n)
    BY <1>2, <2>1
  <2>3. n - 1 \in 1 .. c /\ n - 1 \in 1 .. c + 1 /\ n - 1 \notin T /\ (n - 1) + 1 = n
    BY <1>1, <2>1, <2>2
  <2>4. Low(n - 1)
    BY <2>3
  <2> HIDE DEF T
  <2> DEFINE i == n - 1
  <2>5. i \in 1 .. c /\ Low(i) /\ i + 1 = n
    BY <2>3, <2>4
  <2> HIDE DEF i
  <2>6. Low(i + 1)
    BY <1>3, <2>5
  <2> QED
    BY <2>2, <2>5, <2>6
<1>5. Low(c + 1)
  BY <1>1, <1>4
<1>6. Earlier(logs, c + 1, x) = TradesIn(logs, x)
  BY <1>1 DEF Earlier
<1>7. VolumeIn(logs, c + 1, x) = TotalIn(logs, x, "mount", "Cycles")
  <2>1. {t \in TradesIn(logs, x) : t < c + 1} = TradesIn(logs, x)
    BY <1>1
  <2> QED
    BY <2>1 DEF VolumeIn, TotalIn, Part
<1> QED
  BY <1>5, <1>6, <1>7 DEF Low

(* What calculate_trade_fee charges for a trade is the sum over the tiers  *)
(* that the volumes of both its positions went through in it, and a        *)
(* position pays for all of its trades at most the fee of their sum.       *)
THEOREM FeesFollow == Spec => []FeesFollowVolume
<1>1. MarketInv /\ FeesInv => FeesFollowVolume
  <2> SUFFICES ASSUME MarketInv, FeesInv
               PROVE  FeesFollowVolume
    OBVIOUS
  <2>1. /\ trade_logs \in Seq(MatchLogType) /\ LogsCharged(trade_logs) /\ SidesKept(trade_logs)
        /\ LogsReal(trade_logs, positions_id_counter - 1)
    BY DEF MarketInv, ShapeInv, TypeOK, FeesInv, BookInv
  <2>2. \A i, x : VolumeBefore(i, x) = VolumeIn(trade_logs, i, x)
    BY DEF VolumeBefore, VolumeIn, TradesOf, TradesIn
  <2>3. ASSUME NEW i \in 1 .. Len(trade_logs), NEW k \in Kind
        PROVE  LET log == trade_logs[i]
                   v   == VolumeIn(trade_logs, i, PositionOf(log, k))
                   t   == TierSum(v, v + log.mount["Cycles"])
               IN /\ log.cts_fee[Opposite(k)] = FeeAt(k, t, log.rate) /\ t \in Nat
                  /\ log.rate \in Nat /\ log.rate > 0 /\ log.cts_fee[Opposite(k)] \in Nat
    <3> DEFINE log == trade_logs[i]
               v == VolumeIn(trade_logs, i, PositionOf(log, k))
               m == log.mount["Cycles"]
    <3>1. v \in Nat /\ m \in Nat
      BY <2>1, VolumeGrows
    <3>2. Charged(log, k, v)
      BY <2>1 DEF LogsCharged
    <3>3. log \in MatchLogType /\ LogReal(log, positions_id_counter - 1)
      BY <2>1, LogsAreLogs DEF LogsReal
    <3> HIDE DEF log, v
    <3>4. log.rate \in Nat /\ log.rate > 0 /\ log.cts_fee[Opposite(k)] \in Nat
      <4>1. log.rate \in Nat /\ Opposite(k) \in Kind /\ log.cts_fee \in [Kind -> Nat] /\ log.mount \in [Kind -> Nat]
        BY <3>3, Kinds DEF MatchLogType
      <4>2. log.mount["Cycles"] = log.mount["Token"] * log.rate /\ log.cts_fee["Cycles"] < log.mount["Cycles"]
            /\ log.mount["Token"] \in Nat /\ log.cts_fee["Cycles"] \in Nat
        BY <3>3, <4>1 DEF LogReal, Kind
      <4>3. ASSUME log.rate = 0 PROVE FALSE
        <5>1. log.mount["Token"] * 0 = 0
          BY <4>2
        <5> QED
          BY <4>2, <4>3, <5>1
      <4> QED
        BY <4>1, <4>3
    <3>5. calculate_trade_fee(v, m) = TierSum(v, v + m) /\ TierSum(v, v + m) \in Nat
      <4> HIDE DEF m
      <4>1. v + m \in Nat
        BY <3>1
      <4> QED
        BY <3>1, <4>1, FeeIsTierSum, TierSumType
    <3> QED
      BY <3>2, <3>4, <3>5 DEF Charged, v, log
  <2>4. ASSUME NEW k \in Kind, NEW j \in 1 .. Len(trade_logs)
        PROVE  LET id == PositionOf(trade_logs[j], k)
               IN SumFunction([i \in TradesOf(id) |-> trade_logs[i].cts_fee[Opposite(k)]
                                          * (IF k = "Cycles" THEN trade_logs[i].rate ELSE 1)])
                    <= TierSum(0, Traded(id, "Cycles"))
    <3> DEFINE id == PositionOf(trade_logs[j], k)
               f == [i \in TradesOf(id) |-> trade_logs[i].cts_fee[Opposite(k)]
                                          * (IF k = "Cycles" THEN trade_logs[i].rate ELSE 1)]
    <3>1. OfSide(trade_logs, id, k)
      BY <2>1 DEF SidesKept
    <3> HIDE DEF id
    <3>2. DOMAIN f = TradesIn(trade_logs, id)
      BY DEF TradesOf, TradesIn
    <3>3. \A i \in TradesIn(trade_logs, id) : i \in 1 .. Len(trade_logs) /\ PositionOf(trade_logs[i], k) = id
      <4> TAKE i \in TradesIn(trade_logs, id)
      <4>1. i \in 1 .. Len(trade_logs) /\ id \in {trade_logs[i].matcher, trade_logs[i].matchee}
        BY DEF TradesIn
      <4>2. PositionOf(trade_logs[i], Opposite(k)) # id /\ trade_logs[i] \in MatchLogType
        BY <2>1, <3>1, <4>1, LogsAreLogs DEF OfSide
      <4>3. trade_logs[i].matchee_kind \in Kind
        BY <4>2 DEF MatchLogType
      <4>4. Opposite(k) # k /\ (trade_logs[i].matchee_kind = k \/ trade_logs[i].matchee_kind = Opposite(k))
        BY <4>3, Kinds
      <4> QED
        BY <4>1, <4>2, <4>4 DEF PositionOf
    <3>4. ASSUME NEW i \in TradesIn(trade_logs, id)
          PROVE  /\ f[i] \in Nat
                 /\ f[i] <= TierSum(VolumeIn(trade_logs, i, id),
                                    VolumeIn(trade_logs, i, id) + trade_logs[i].mount["Cycles"])
      <4> DEFINE log == trade_logs[i]
                 v == VolumeIn(trade_logs, i, id)
                 t == TierSum(v, v + log.mount["Cycles"])
                 fee == log.cts_fee[Opposite(k)]
                 r == log.rate
      <4>1. i \in 1 .. Len(trade_logs) /\ PositionOf(log, k) = id
        BY <3>3
      <4>2. fee = FeeAt(k, t, r) /\ t \in Nat /\ r \in Nat /\ r > 0 /\ fee \in Nat
        BY <2>3, <4>1
      <4>3. f[i] = fee * (IF k = "Cycles" THEN r ELSE 1)
        BY <3>2
      <4> HIDE DEF t, fee, r, f
      <4>4. CASE k = "Cycles"
        <5>1. fee = t \div r /\ f[i] = fee * r
          BY <4>2, <4>3, <4>4 DEF FeeAt
        <5>2. fee * r <= t /\ fee * r \in Nat
          BY <4>2, <5>1, Quotient
        <5> QED
          BY <5>1, <5>2 DEF t
      <4>5. CASE k # "Cycles"
        <5>1. f[i] = fee * 1 /\ fee = t
          BY <4>2, <4>3, <4>5 DEF FeeAt
        <5>2. f[i] = t
          BY <4>2, <5>1
        <5> QED
          BY <4>2, <5>2 DEF t
      <4> QED
        BY <4>4, <4>5
    <3> HIDE DEF f
    <3>5. SumFunctionOnSet(f, TradesIn(trade_logs, id)) <= TierSum(0, TotalIn(trade_logs, id, "mount", "Cycles"))
      BY <2>1, <3>4, PiecesCostLess
    <3>6. SumFunction(f) <= TierSum(0, Traded(id, "Cycles"))
      BY <3>2, <3>5, TotalsAre DEF SumFunction
    <3> QED
      BY <3>6 DEF f, id
  <2>5. ASSUME NEW k \in Kind, NEW i \in 1 .. Len(trade_logs)
        PROVE  LET log    == trade_logs[i]
                   volume == VolumeBefore(i, PositionOf(log, k))
               IN log.cts_fee[Opposite(k)] =
                    FeeAt(k, TierSum(volume, volume + log.mount["Cycles"]), log.rate)
    BY <2>2, <2>3
  <2>6. \A k \in Kind : \A id \in {PositionOf(trade_logs[i], k) : i \in 1 .. Len(trade_logs)} :
          SumFunction([i \in TradesOf(id) |-> trade_logs[i].cts_fee[Opposite(k)]
                                     * (IF k = "Cycles" THEN trade_logs[i].rate ELSE 1)])
            <= TierSum(0, Traded(id, "Cycles"))
    BY <2>4
  <2> QED
    BY <2>5, <2>6 DEF FeesFollowVolume
<1>2. Spec => [](MarketInv /\ FeesInv)
  <2>1. Init => MarketInv /\ FeesInv
    BY InitMarket, InitFees
  <2>2. MarketInv /\ FeesInv /\ [Next]_vars => (MarketInv /\ FeesInv)'
    BY NextMarket, NextFees
  <2> QED
    BY <2>1, <2>2, PTL DEF Spec
<1> QED
  BY <1>1, <1>2, PTL

----------------------------------------------------------------------------
(* The pages of the positions. *)

LEMMA MinIs ==
  ASSUME NEW S, S \subseteq Nat, S # {}
  PROVE  Min(S) \in S /\ \A y \in S : Min(S) <= y
BY LeastNat DEF Min

(* What comes behind x. *)
Above(S, x) == {y \in S : y > x}

LEMMA LatestIs ==
  ASSUME NEW S, NEW n
  PROVE  Latest(S, n) = {x \in S : Cardinality(Above(S, x)) < n}
BY DEF Latest, Above

LEMMA AboveIs ==
  ASSUME NEW S, S \subseteq Nat, IsFiniteSet(S), NEW T, T \subseteq S, NEW x \in Nat, NEW y \in Nat, x <= y
  PROVE  /\ Above(T, y) \subseteq T /\ Above(T, y) \subseteq Above(S, x)
         /\ IsFiniteSet(Above(T, y)) /\ Cardinality(Above(T, y)) \in Nat
         /\ Cardinality(Above(T, y)) <= Cardinality(Above(S, x))
<1>1. Above(T, y) \subseteq T
  BY DEF Above
<1>2. Above(T, y) \subseteq Above(S, x) /\ Above(S, x) \subseteq S
  <2>1. \A z \in Nat : z > y => z > x
    OBVIOUS
  <2> QED
    BY <2>1 DEF Above
<1>3. IsFiniteSet(Above(S, x)) /\ IsFiniteSet(Above(T, y))
  BY <1>2, FS_Subset
<1>4. Cardinality(Above(T, y)) <= Cardinality(Above(S, x)) /\ Cardinality(Above(T, y)) \in Nat
  BY <1>2, <1>3, FS_Subset, FS_CardinalityType
<1> QED
  BY <1>1, <1>2, <1>3, <1>4

(* The latest are the latest of the latest one more. *)
LEMMA LatestOfLatest ==
  ASSUME NEW S, S \subseteq Nat, IsFiniteSet(S), NEW n \in Nat
  PROVE  Latest(Latest(S, n + 1), n) = Latest(S, n)
<1> DEFINE page == Latest(S, n + 1)
<1>1. page = {x \in S : Cardinality(Above(S, x)) < n + 1} /\ page \subseteq S
  BY LatestIs
<1>2. Latest(page, n) = {x \in page : Cardinality(Above(page, x)) < n}
      /\ Latest(S, n) = {x \in S : Cardinality(Above(S, x)) < n}
  BY LatestIs
<1> HIDE DEF page
<1>3. ASSUME NEW x \in S
      PROVE  /\ Cardinality(Above(S, x)) \in Nat /\ Cardinality(Above(page, x)) \in Nat
             /\ Cardinality(Above(page, x)) <= Cardinality(Above(S, x))
  <2>1. x \in Nat /\ x <= x
    OBVIOUS
  <2> QED
    BY <1>1, <2>1, AboveIs
<1>4. ASSUME NEW x \in page
      PROVE  Above(S, x) = Above(page, x)
  <2>1. x \in S /\ x \in Nat /\ Cardinality(Above(S, x)) < n + 1
    BY <1>1
  <2>2. ASSUME NEW y \in S, y > x
        PROVE  y \in page
    <3>1. y \in Nat /\ x <= y
      BY <2>1, <2>2
    <3>2. Cardinality(Above(S, y)) <= Cardinality(Above(S, x))
      BY <3>1, <2>1, AboveIs
    <3> QED
      BY <3>2, <2>1, <1>1, <1>3
  <2> QED
    BY <2>2, <1>1 DEF Above
<1>5. \A x \in page : x \in S /\ Cardinality(Above(page, x)) = Cardinality(Above(S, x))
  BY <1>1, <1>4
<1>6. \A x \in S : Cardinality(Above(S, x)) < n => x \in page
  BY <1>1, <1>3
<1>7. Latest(page, n) = Latest(S, n)
  BY <1>2, <1>5, <1>6
<1> QED
  BY <1>7 DEF page

(* There are as many of the latest as there is room for. *)
LEMMA LatestFill ==
  ASSUME NEW S, IsFiniteSet(S), NEW n \in Nat
  PROVE  S \subseteq Nat /\ n <= Cardinality(S) => n <= Cardinality(Latest(S, n))
<1> DEFINE C == {T \in SUBSET S : n <= Cardinality(T) /\ ~ (n <= Cardinality(Latest(T, n)))}
<1>0. ASSUME S \subseteq Nat, n <= Cardinality(S), C # {}
      PROVE  FALSE
  <2>1. PICK T \in C : \A Y \in C : Y \subseteq T => Y = T
    <3>1. C \subseteq SUBSET S
      BY DEF C
    <3>2. C # {}
      BY <1>0
    <3> HIDE DEF C
    <3> QED
      BY <3>1, <3>2, MinimalSubset
  <2>2. T \subseteq Nat /\ IsFiniteSet(T) /\ Cardinality(T) \in Nat
    BY <1>0, <2>1, FS_Subset, FS_CardinalityType
  <2>3. Latest(T, n) \subseteq T /\ IsFiniteSet(Latest(T, n)) /\ Cardinality(Latest(T, n)) \in Nat
    <3>1. Latest(T, n) \subseteq T
      BY LatestIs
    <3> QED
      BY <3>1, <2>2, FS_Subset, FS_CardinalityType
  <2>4. T # {}
    <3> SUFFICES ASSUME T = {}
                 PROVE  FALSE
      OBVIOUS
    <3>1. n <= 0
      BY <2>1, FS_EmptySet
    <3> QED
      BY <3>1, <2>1, <2>3
  <2>5. PICK m \in T : \A y \in T : m <= y
    BY <2>2, <2>4, LeastNat
  <2> DEFINE R == T \ {m}
  <2>6. IsFiniteSet(R) /\ Cardinality(R) = Cardinality(T) - 1
    BY <2>2, <2>5, FS_RemoveElement
  <2>7. \A x \in R : Above(R, x) = Above(T, x)
    BY <2>2, <2>5 DEF Above
  <2>8. CASE n <= Cardinality(R)
    <3>1. Latest(R, n) \subseteq Latest(T, n)
      BY <2>7, LatestIs
    <3>2. Cardinality(Latest(R, n)) <= Cardinality(Latest(T, n))
      BY <3>1, <2>3, FS_Subset
    <3>3. IsFiniteSet(Latest(R, n)) /\ Cardinality(Latest(R, n)) \in Nat
      BY <3>1, <2>3, FS_Subset, FS_CardinalityType
    <3>4. R \in C
      BY <2>1, <2>3, <2>8, <3>2, <3>3
    <3> QED
      BY <3>4, <2>1, <2>5
  <2>9. CASE ~ (n <= Cardinality(R))
    <3>1. Cardinality(T) = n
      BY <2>1, <2>2, <2>6, <2>9
    <3>2. ASSUME NEW x \in T
          PROVE  x \in Latest(T, n)
      <4>1. Above(T, x) \subseteq T /\ x \notin Above(T, x)
        BY <2>2 DEF Above
      <4>2. Cardinality(Above(T, x)) <= n /\ Cardinality(Above(T, x)) # n /\ Cardinality(Above(T, x)) \in Nat
        BY <4>1, <3>1, <2>2, FS_Subset, FS_CardinalityType
      <4> QED
        BY <4>2, LatestIs
    <3>3. Latest(T, n) = T
      BY <3>2, <2>3
    <3> QED
      BY <3>1, <3>3, <2>1
  <2> QED
    BY <2>8, <2>9
<1> QED
  BY <1>0

(* The more of the latest, the more. *)
LEMMA OneIsLatest ==
  ASSUME NEW S, S \subseteq Nat, IsFiniteSet(S), S # {}, NEW n \in Nat \ {0}
  PROVE  Latest(S, n) # {}
<1>1. Cardinality(S) \in Nat /\ Cardinality(S) # 0
  BY FS_CardinalityType, FS_EmptySet
<1>2. 1 <= Cardinality(Latest(S, 1))
  <2>1. 1 \in Nat /\ 1 <= Cardinality(S)
    BY <1>1
  <2> QED
    BY <2>1, LatestFill
<1>3. Latest(S, 1) # {}
  BY <1>2, FS_EmptySet
<1>4. ASSUME NEW x \in S, Cardinality(Above(S, x)) < 1
      PROVE  Cardinality(Above(S, x)) < n
  <2>1. x \in Nat /\ x <= x
    OBVIOUS
  <2>2. Cardinality(Above(S, x)) \in Nat
    BY <2>1, AboveIs
  <2> QED
    BY <1>4, <2>2
<1>5. Latest(S, 1) \subseteq Latest(S, n)
  BY <1>4, LatestIs
<1> QED
  BY <1>3, <1>5

(* The first page of two maps together: what each gives of its latest,     *)
(* and of these the latest again.                                          *)
PageOf(B, n) == Latest(UNION {Latest(B[k], n) : k \in Kind}, n)

(* A page has only what is there, is empty only if nothing is there, and   *)
(* leaves out nothing behind its first.                                    *)
LEMMA PageIs ==
  ASSUME NEW B, NEW n \in Nat \ {0}, \A k \in Kind : B[k] \subseteq Nat /\ IsFiniteSet(B[k])
  PROVE  LET page == PageOf(B, n)
             all  == UNION {B[k] : k \in Kind}
         IN /\ page \subseteq all
            /\ page = {} => all = {}
            /\ \A x \in page : \A y \in all : y > x => y \in page
<1> DEFINE both == UNION {Latest(B[k], n) : k \in Kind}
           page == PageOf(B, n)
           all  == UNION {B[k] : k \in Kind}
<1>1. \A k \in Kind : /\ Latest(B[k], n) = {x \in B[k] : Cardinality(Above(B[k], x)) < n}
                       /\ Latest(B[k], n) \subseteq B[k] /\ IsFiniteSet(Latest(B[k], n))
  <2>1. \A k \in Kind : Latest(B[k], n) = {x \in B[k] : Cardinality(Above(B[k], x)) < n}
    BY LatestIs
  <2>2. \A k \in Kind : Latest(B[k], n) \subseteq B[k]
    BY <2>1
  <2> QED
    BY <2>1, <2>2, FS_Subset
<1>2. IsFiniteSet(both) /\ both \subseteq all /\ both \subseteq Nat
  <2>1. both = Latest(B["Cycles"], n) \cup Latest(B["Token"], n)
    BY DEF Kind
  <2>2. IsFiniteSet(Latest(B["Cycles"], n) \cup Latest(B["Token"], n))
    <3>1. IsFiniteSet(Latest(B["Cycles"], n)) /\ IsFiniteSet(Latest(B["Token"], n))
      BY <1>1 DEF Kind
    <3> QED
      BY <3>1, FS_Union
  <2> QED
    BY <2>1, <2>2, <1>1
<1>3. page = {x \in both : Cardinality(Above(both, x)) < n}
  BY LatestIs DEF PageOf
<1>4. \A k \in Kind : Latest(B[k], n) \subseteq both
  OBVIOUS
<1>5. \A x \in Nat : /\ Above(both, x) \subseteq both /\ IsFiniteSet(Above(both, x))
                      /\ Cardinality(Above(both, x)) \in Nat
  <2> TAKE x \in Nat
  <2>1. x <= x
    OBVIOUS
  <2> HIDE DEF both
  <2> QED
    BY <2>1, <1>2, AboveIs
<1>6. all \subseteq Nat /\ \A y \in all : \E k \in Kind : y \in B[k]
  OBVIOUS
<1> HIDE DEF both, page
<1>7. ASSUME NEW k \in Kind, NEW x \in page, NEW y \in B[k], y > x
      PROVE  y \in both
  <2> SUFFICES ASSUME y \notin Latest(B[k], n)
               PROVE  FALSE
    BY <1>4
  <2> DEFINE T == Above(B[k], y)
  <2>1. x \in Nat /\ y \in Nat /\ y <= y /\ B[k] \subseteq B[k]
    BY <1>2, <1>3
  <2>2. T \subseteq B[k] /\ T \subseteq Nat /\ IsFiniteSet(T) /\ Cardinality(T) \in Nat
    <3>1. T \subseteq B[k] /\ IsFiniteSet(T) /\ Cardinality(T) \in Nat
      BY <2>1, AboveIs
    <3> QED
      BY <3>1
  <2>3. n <= Cardinality(T)
    BY <2>2, <1>1
  <2>4. n <= Cardinality(Latest(T, n))
    BY <2>2, <2>3, LatestFill
  <2>5. ASSUME NEW z \in Latest(T, n)
        PROVE  z \in Above(both, x)
    <3>1. z \in T /\ Cardinality(Above(T, z)) < n
      BY LatestIs
    <3>2. z \in B[k] /\ z > y /\ z \in Nat
      BY <3>1, <2>2 DEF Above
    <3>3. Above(T, z) = Above(B[k], z)
      <4>1. \A w \in Nat : w > z => w > y
        BY <3>2, <2>1
      <4> QED
        BY <4>1 DEF Above
    <3>4. z \in both
      BY <3>1, <3>2, <3>3, <1>1, <1>4
    <3>5. z > x
      BY <3>2, <2>1, <1>7
    <3> QED
      BY <3>4, <3>5 DEF Above
  <2>6. Latest(T, n) \subseteq Above(both, x)
    BY <2>5
  <2>7. IsFiniteSet(Latest(T, n)) /\ Cardinality(Latest(T, n)) \in Nat
        /\ Cardinality(Latest(T, n)) <= Cardinality(Above(both, x))
    BY <2>1, <2>6, <1>5, FS_Subset, FS_CardinalityType
  <2>8. Cardinality(Above(both, x)) < n
    BY <1>3
  <2> QED
    BY <2>1, <2>4, <2>7, <2>8, <1>5
<1>8. ASSUME NEW x \in page, NEW y \in all, y > x
      PROVE  y \in page
  <2>1. x \in Nat /\ y \in Nat /\ y \in both
    BY <1>2, <1>3, <1>6, <1>7, <1>8
  <2>2. x <= y
    BY <2>1, <1>8
  <2>3. Cardinality(Above(both, y)) <= Cardinality(Above(both, x))
    BY <2>1, <2>2, <1>2, AboveIs
  <2>4. Cardinality(Above(both, x)) < n
    BY <1>3
  <2> QED
    BY <2>1, <2>3, <2>4, <1>3, <1>5
<1>9. ASSUME page = {}
      PROVE  all = {}
  <2> SUFFICES ASSUME NEW k \in Kind, B[k] # {}
               PROVE  FALSE
    BY <1>6
  <2>1. Latest(B[k], n) # {}
    BY OneIsLatest
  <2>2. Latest(both, n) # {}
    BY <2>1, <1>2, <1>4, OneIsLatest
  <2> QED
    BY <2>2, <1>9 DEF PageOf, both, page
<1>10. page \subseteq all
  BY <1>2, <1>3
<1> QED
  BY <1>8, <1>9, <1>10 DEF page

(* Reading page before page gives all there is: f is the function of       *)
(* PagesRead.                                                              *)
IsRead(f, page, till) ==
  f = [start \in 0 .. till |-> IF page[start] = {} THEN {} ELSE page[start] \cup f[Min(page[start])]]

Upto(S, start) == {x \in S : x < start}

(* The page before start leaves out nothing between its first and start.   *)
WholePage(page, S, start) ==
  /\ page \subseteq Upto(S, start)
  /\ page = {} => Upto(S, start) = {}
  /\ \A x \in page : \A y \in Upto(S, start) : y > x => y \in page

LEMMA PageStep ==
  ASSUME NEW S, S \subseteq Nat, NEW start \in Nat, NEW page, WholePage(page, S, start), page # {}
  PROVE  /\ Min(page) \in Nat /\ Min(page) < start
         /\ page \cup Upto(S, Min(page)) = Upto(S, start)
<1>1. page \subseteq Upto(S, start) /\ Upto(S, start) \subseteq S
      /\ (\A x \in Upto(S, start) : x < start)
      /\ (\A x \in page : \A y \in Upto(S, start) : y > x => y \in page)
  BY DEF WholePage, Upto
<1> DEFINE m == Min(page)
<1>2. m \in page /\ \A y \in page : m <= y
  BY <1>1, MinIs
<1> HIDE DEF m
<1>3. m \in Nat /\ m < start
  BY <1>1, <1>2
<1>4. ASSUME NEW x \in Upto(S, start)
      PROVE  x \in page \/ x \in Upto(S, m)
  <2>1. x \in Nat /\ x \in S
    BY <1>1
  <2>2. x > m \/ x = m \/ x < m
    BY <2>1, <1>3
  <2> QED
    BY <2>1, <2>2, <1>1, <1>2 DEF Upto
<1>5. ASSUME NEW x \in Upto(S, m)
      PROVE  x \in Upto(S, start)
  <2>1. x \in S /\ x \in Nat /\ x < m
    BY DEF Upto
  <2>2. x < start
    BY <2>1, <1>3
  <2> QED
    BY <2>1, <2>2 DEF Upto
<1>6. page \cup Upto(S, m) = Upto(S, start)
  BY <1>1, <1>4, <1>5
<1> QED
  BY <1>3, <1>6 DEF m

LEMMA ReadAll ==
  ASSUME NEW till \in Nat, NEW S, S \subseteq Nat, NEW page,
         \A start \in 0 .. till : WholePage(page[start], S, start)
  PROVE  (CHOOSE f : IsRead(f, page, till))[till] = Upto(S, till)
<1> DEFINE g == [start \in 0 .. till |-> Upto(S, start)]
<1>1. ASSUME NEW start \in 0 .. till, page[start] # {}
      PROVE  /\ Min(page[start]) \in 0 .. till /\ Min(page[start]) < start
             /\ page[start] \cup Upto(S, Min(page[start])) = Upto(S, start)
  <2>1. start \in Nat /\ start <= till
    OBVIOUS
  <2>2. /\ Min(page[start]) \in Nat /\ Min(page[start]) < start
        /\ page[start] \cup Upto(S, Min(page[start])) = Upto(S, start)
    BY <2>1, <1>1, PageStep
  <2>3. Min(page[start]) \in 0 .. till
    BY <2>1, <2>2
  <2> QED
    BY <2>2, <2>3
<1>2. IsRead(g, page, till)
  <2>1. ASSUME NEW start \in 0 .. till
        PROVE  Upto(S, start) = IF page[start] = {} THEN {} ELSE page[start] \cup g[Min(page[start])]
    BY <1>1 DEF WholePage
  <2> QED
    BY <2>1 DEF IsRead
<1> DEFINE f == CHOOSE h : IsRead(h, page, till)
<1>3. IsRead(f, page, till)
  BY <1>2
<1> HIDE DEF f
<1>4. \A start \in 0 .. till :
        f[start] = IF page[start] = {} THEN {} ELSE page[start] \cup f[Min(page[start])]
  BY <1>3 DEF IsRead
<1> DEFINE T == {start \in 0 .. till : f[start] # Upto(S, start)}
<1>5. T = {}
  <2> SUFFICES ASSUME T # {}
               PROVE  FALSE
    OBVIOUS
  <2>1. PICK m \in T : \A n \in T : m <= n
    <3>1. T \subseteq Nat /\ T # {}
      OBVIOUS
    <3> HIDE DEF T
    <3>2. \E m \in T : \A n \in T : m <= n
      BY <3>1, LeastNat
    <3> QED
      BY <3>2
  <2>2. m \in 0 .. till /\ f[m] # Upto(S, m)
    BY <2>1
  <2>3. page[m] # {}
    BY <2>2, <1>4 DEF WholePage
  <2>4. Min(page[m]) \in 0 .. till /\ Min(page[m]) < m
    BY <2>2, <2>3, <1>1
  <2>5. f[Min(page[m])] = Upto(S, Min(page[m]))
    BY <2>1, <2>2, <2>4
  <2> QED
    BY <2>2, <2>3, <2>5, <1>1, <1>4
<1>6. till \in 0 .. till
  OBVIOUS
<1> QED
  BY <1>5, <1>6 DEF f

(* One of the two sets of maps of positions, read by everybody or by one   *)
(* user.                                                                   *)
AllBefore(maps, start, key) == UNION {Before(maps[k], start, key) : k \in Kind}
PageFrom(maps, key, till) == [start \in 0 .. till |-> LatestOfBoth(maps, start, key, MaxLogs)]
NewestFrom(maps, key, till) == [start \in 0 .. till |-> Newest(LatestOfBoth(maps, start, key, MaxLogs + 1))]

LEMMA MapsPaged ==
  ASSUME NEW till \in Nat, NEW maps, NEW key,
         \A k \in Kind : DOMAIN maps[k] \subseteq 0 .. till - 1
  PROVE  /\ (CHOOSE f : IsRead(f, PageFrom(maps, key, till), till))[till] = AllBefore(maps, till, key)
         /\ (CHOOSE f : IsRead(f, NewestFrom(maps, key, till), till))[till] = AllBefore(maps, till, key)
<1> DEFINE all == AllBefore(maps, till, key)
           B(start) == [k \in Kind |-> Before(maps[k], start, key)]
<1>1. MaxLogs \in Nat \ {0}
  BY PositionViewsAssumption
<1>2. ASSUME NEW start, NEW k \in Kind
      PROVE  Before(maps[k], start, key) \subseteq 0 .. till - 1 /\ Before(maps[k], start, key) \subseteq Nat
             /\ IsFiniteSet(Before(maps[k], start, key))
  <2>1. Before(maps[k], start, key) \subseteq 0 .. till - 1
    BY DEF Before
  <2>2. IsFiniteSet(0 .. till - 1)
    BY FS_Interval
  <2> QED
    BY <2>1, <2>2, FS_Subset
<1>3. ASSUME NEW start \in 0 .. till
      PROVE  /\ LatestOfBoth(maps, start, key, MaxLogs) = PageOf(B(start), MaxLogs)
             /\ Newest(LatestOfBoth(maps, start, key, MaxLogs + 1)) = PageOf(B(start), MaxLogs)
  <2> DEFINE both == UNION {Latest(Before(maps[k], start, key), MaxLogs) : k \in Kind}
  <2>1. both = UNION {Latest(B(start)[k], MaxLogs) : k \in Kind}
    OBVIOUS
  <2>2. LatestOfBoth(maps, start, key, MaxLogs) = Latest(both, MaxLogs)
        /\ Newest(LatestOfBoth(maps, start, key, MaxLogs + 1)) = Latest(Latest(both, MaxLogs + 1), MaxLogs)
    BY DEF LatestOfBoth, Latest, Newest
  <2>3. \A k \in Kind : Latest(Before(maps[k], start, key), MaxLogs) \subseteq Before(maps[k], start, key)
    BY DEF Latest
  <2>4. both \subseteq Nat /\ IsFiniteSet(both)
    <3>1. both = Latest(Before(maps["Cycles"], start, key), MaxLogs)
                   \cup Latest(Before(maps["Token"], start, key), MaxLogs)
      BY DEF Kind
    <3>2. \A k \in Kind : IsFiniteSet(Latest(Before(maps[k], start, key), MaxLogs))
      BY <2>3, <1>2, FS_Subset
    <3>3. IsFiniteSet(Latest(Before(maps["Cycles"], start, key), MaxLogs)
                        \cup Latest(Before(maps["Token"], start, key), MaxLogs))
      <4>1. IsFiniteSet(Latest(Before(maps["Cycles"], start, key), MaxLogs))
            /\ IsFiniteSet(Latest(Before(maps["Token"], start, key), MaxLogs))
        BY <3>2 DEF Kind
      <4> QED
        BY <4>1, FS_Union
    <3>4. both \subseteq Nat
      BY <2>3, <1>2
    <3> QED
      BY <3>1, <3>3, <3>4
  <2>5. PageOf(B(start), MaxLogs) = Latest(both, MaxLogs)
    BY <2>1 DEF PageOf
  <2> HIDE DEF both
  <2>6. Latest(Latest(both, MaxLogs + 1), MaxLogs) = Latest(both, MaxLogs)
    BY <2>4, <1>1, LatestOfLatest
  <2> QED
    BY <2>2, <2>5, <2>6
<1>4. \A start \in 0 .. till : UNION {B(start)[k] : k \in Kind} = Upto(all, start)
  <2> TAKE start \in 0 .. till
  <2>1. ASSUME NEW k \in Kind, NEW x \in DOMAIN maps[k], x < start
        PROVE  x < till
    BY <2>1
  <2>2. \A k \in Kind : \A x : x \in Before(maps[k], start, key)
                               <=> x \in Before(maps[k], till, key) /\ x < start
    BY <2>1 DEF Before
  <2> QED
    BY <2>2 DEF AllBefore, Upto
<1>5. all \subseteq Nat /\ Upto(all, till) = all
  BY <1>2 DEF Before, AllBefore, Upto
<1>6. ASSUME NEW start \in 0 .. till
      PROVE  WholePage(PageOf(B(start), MaxLogs), all, start)
  <2>1. \A k \in Kind : B(start)[k] \subseteq Nat /\ IsFiniteSet(B(start)[k])
    BY <1>2
  <2>2. UNION {B(start)[k] : k \in Kind} = Upto(all, start)
    BY <1>4
  <2> HIDE DEF B, all
  <2> DEFINE b == B(start)
  <2> HIDE DEF b
  <2>3. LET page == PageOf(b, MaxLogs)
            a    == UNION {b[k] : k \in Kind}
        IN /\ page \subseteq a
           /\ page = {} => a = {}
           /\ \A x \in page : \A y \in a : y > x => y \in page
    BY <2>1, <1>1, PageIs DEF b
  <2> QED
    BY <2>2, <2>3 DEF b, WholePage
<1>7. ASSUME NEW p, \A start \in 0 .. till : p[start] = PageOf(B(start), MaxLogs)
      PROVE  (CHOOSE f : IsRead(f, p, till))[till] = all
  <2> HIDE DEF B, all
  <2>1. \A start \in 0 .. till : WholePage(p[start], all, start)
    BY <1>6, <1>7
  <2>2. (CHOOSE f : IsRead(f, p, till))[till] = Upto(all, till)
    BY <2>1, <1>5, ReadAll
  <2> QED
    BY <2>2, <1>5
<1> HIDE DEF B, all
<1>8. \A start \in 0 .. till : /\ PageFrom(maps, key, till)[start] = PageOf(B(start), MaxLogs)
                                /\ NewestFrom(maps, key, till)[start] = PageOf(B(start), MaxLogs)
  BY <1>3 DEF PageFrom, NewestFrom
<1>9. (CHOOSE f : IsRead(f, PageFrom(maps, key, till), till))[till] = all
  BY <1>7, <1>8
<1>10. (CHOOSE f : IsRead(f, NewestFrom(maps, key, till), till))[till] = all
  BY <1>7, <1>8
<1> QED
  BY <1>9, <1>10 DEF all

(* Who reads page before page sees every current position, and every void  *)
(* position that is not paid out yet, of everybody or of one user          *)
(* (_view_current_positions and view_void_positions_pending), in every     *)
(* reachable state and for every size of the pages.                        *)
THEOREM PositionsArePaged == Spec => []PositionsPaged
<1>1. MarketInv => PositionsPaged
  <2> SUFFICES ASSUME ShapeInv, NEW key \in User \cup {Anyone}
               PROVE  LET till == positions_id_counter
                      IN /\ PagesRead(PageFrom(positions, key, till)) = AllBefore(positions, till, key)
                         /\ PagesRead(NewestFrom(void_positions, key, till))
                              = AllBefore(void_positions, till, key)
    BY DEF MarketInv, PositionsPaged, PageFrom, NewestFrom, AllBefore, view_current_positions,
           view_void_positions_pending
  <2> DEFINE till == positions_id_counter
  <2>1. till \in Nat /\ \A k \in Kind : /\ DOMAIN positions[k] \subseteq 0 .. till - 1
                                         /\ DOMAIN void_positions[k] \subseteq 0 .. till - 1
    BY MarketNumbers DEF ShapeInv, TypeOK
  <2>2. (CHOOSE f : IsRead(f, PageFrom(positions, key, till), till))[till] = AllBefore(positions, till, key)
    <3> HIDE DEF till
    <3> QED
      BY <2>1, MapsPaged
  <2>3. (CHOOSE f : IsRead(f, NewestFrom(void_positions, key, till), till))[till]
          = AllBefore(void_positions, till, key)
    <3> HIDE DEF till
    <3> QED
      BY <2>1, MapsPaged
  <2> QED
    BY <2>2, <2>3 DEF PagesRead, IsRead
<1> QED
  BY <1>1, MarketInvariant, PTL
----------------------------------------------------------------------------
(* The pages of the book: the positions behind the start in their order.   *)

RateSorted(s, ps, ids) ==
  /\ s \in [1 .. Cardinality(ids) -> ids]
  /\ \A i, j \in DOMAIN s : i < j => Precedes(ps, s[i], s[j])

LEMMA PrecedesIs ==
  ASSUME NEW ps, NEW a \in Nat, NEW b \in Nat, NEW c \in Nat,
         ps[a].rate \in Nat, ps[b].rate \in Nat, ps[c].rate \in Nat
  PROVE  /\ ~ Precedes(ps, a, a)
         /\ a # b => Precedes(ps, a, b) \/ Precedes(ps, b, a)
         /\ Precedes(ps, a, b) /\ Precedes(ps, b, c) => Precedes(ps, a, c)
BY DEF Precedes

(* Of positions that there are, one is the last. *)
LEMMA LastOfSome ==
  ASSUME NEW ps, NEW S, IsFiniteSet(S), S # {}
  PROVE  (\A x \in S : x \in Nat /\ ps[x].rate \in Nat)
           => \E m \in S : \A x \in S \ {m} : Precedes(ps, x, m)
<1> DEFINE IsLast(T, m) == m \in T /\ \A x \in T \ {m} : Precedes(ps, x, m)
           C == {T \in SUBSET S : T # {} /\ ~ \E m \in T : IsLast(T, m)}
<1>1. ASSUME \A x \in S : x \in Nat /\ ps[x].rate \in Nat, C # {}
      PROVE  FALSE
  <2>1. PICK T \in C : \A Y \in C : Y \subseteq T => Y = T
    <3>1. C \subseteq SUBSET S /\ C # {}
      BY <1>1
    <3> HIDE DEF C
    <3> QED
      BY <3>1, MinimalSubset
  <2>2. T \in SUBSET S /\ T # {} /\ ~ \E m \in T : IsLast(T, m)
    BY <2>1
  <2>3. PICK x \in T : TRUE
    BY <2>2
  <2> DEFINE R == T \ {x}
  <2>4. R # {}
    BY <2>2, <2>3
  <2>5. R \notin C
    BY <2>1, <2>3
  <2>6. PICK y \in R : IsLast(R, y)
    BY <2>2, <2>4, <2>5
  <2>7. x # y /\ x \in S /\ y \in S /\ y \in T
    BY <2>2, <2>3, <2>6
  <2>8. CASE Precedes(ps, x, y)
    <3>1. IsLast(T, y)
      BY <2>6, <2>7, <2>8
    <3> QED
      BY <3>1, <2>2, <2>7
  <2>9. CASE Precedes(ps, y, x)
    <3>1. ASSUME NEW z \in T \ {x}
          PROVE  Precedes(ps, z, x)
      <4>1. z = y \/ Precedes(ps, z, y)
        BY <2>6
      <4>2. z \in S
        BY <2>2
      <4> QED
        BY <4>1, <4>2, <2>7, <2>9, <1>1, PrecedesIs
    <3>2. IsLast(T, x)
      BY <3>1, <2>3
    <3> QED
      BY <3>2, <2>2, <2>3
  <2> QED
    BY <2>7, <2>8, <2>9, <1>1, PrecedesIs
<1>2. C = {} => \E m \in S : IsLast(S, m)
  OBVIOUS
<1> QED
  BY <1>1, <1>2

(* Positions can be sorted. *)
LEMMA SortedExists ==
  ASSUME NEW ps, NEW S, IsFiniteSet(S)
  PROVE  (\A x \in S : x \in Nat /\ ps[x].rate \in Nat) => \E s : RateSorted(s, ps, S)
<1> DEFINE C == {T \in SUBSET S : ~ \E s : RateSorted(s, ps, T)}
<1>1. ASSUME \A x \in S : x \in Nat /\ ps[x].rate \in Nat, C # {}
      PROVE  FALSE
  <2>1. PICK T \in C : \A Y \in C : Y \subseteq T => Y = T
    <3>1. C \subseteq SUBSET S /\ C # {}
      BY <1>1
    <3> HIDE DEF C
    <3> QED
      BY <3>1, MinimalSubset
  <2>2. T \in SUBSET S /\ ~ \E s : RateSorted(s, ps, T)
    BY <2>1
  <2>3. IsFiniteSet(T) /\ Cardinality(T) \in Nat
    BY <2>2, FS_Subset, FS_CardinalityType
  <2>4. CASE T = {}
    <3>1. Cardinality(T) = 0
      BY <2>4, FS_EmptySet
    <3>2. RateSorted([i \in {} |-> i], ps, T)
      BY <2>4, <3>1 DEF RateSorted
    <3> QED
      BY <3>2, <2>2
  <2>5. CASE T # {}
    <3>1. PICK m \in T : \A x \in T \ {m} : Precedes(ps, x, m)
      BY <2>2, <2>3, <2>5, <1>1, LastOfSome
    <3> DEFINE R == T \ {m}
               n == Cardinality(R)
    <3>2. IsFiniteSet(R) /\ n = Cardinality(T) - 1 /\ n \in Nat
      BY <2>3, <3>1, FS_RemoveElement, FS_CardinalityType
    <3>3. R \notin C
      BY <2>1, <3>1
    <3>4. PICK s : RateSorted(s, ps, R)
      BY <2>2, <3>3
    <3> HIDE DEF n
    <3>5. s \in [1 .. n -> R] /\ \A i, j \in 1 .. n : i < j => Precedes(ps, s[i], s[j])
      BY <3>4 DEF RateSorted, n
    <3> DEFINE t == [i \in 1 .. n + 1 |-> IF i = n + 1 THEN m ELSE s[i]]
    <3>6. t \in [1 .. n + 1 -> T]
      BY <3>1, <3>2, <3>5
    <3>7. ASSUME NEW i \in 1 .. n + 1, NEW j \in 1 .. n + 1, i < j
          PROVE  Precedes(ps, t[i], t[j])
      <4>1. i \in 1 .. n /\ t[i] = s[i] /\ s[i] \in R
        BY <3>2, <3>5, <3>7
      <4>2. CASE j = n + 1
        BY <4>1, <4>2, <3>1
      <4>3. CASE j # n + 1
        <5>1. j \in 1 .. n /\ t[j] = s[j]
          BY <4>3, <3>2
        <5> QED
          BY <4>1, <5>1, <3>5, <3>7
      <4> QED
        BY <4>2, <4>3
    <3>8. Cardinality(T) = n + 1
      BY <3>2, <2>3
    <3>9. RateSorted(t, ps, T)
      BY <3>6, <3>7, <3>8 DEF RateSorted
    <3> QED
      BY <3>9, <2>2
  <2> QED
    BY <2>4, <2>5
<1>2. C = {} => \E s : RateSorted(s, ps, S)
  OBVIOUS
<1> QED
  BY <1>1, <1>2

(* Each of them is in the order once. *)
LEMMA SortedIs ==
  ASSUME NEW ps, NEW S, IsFiniteSet(S), \A x \in S : x \in Nat /\ ps[x].rate \in Nat
  PROVE  LET s == Sorted(ps, S)
             n == Cardinality(S)
         IN /\ n \in Nat /\ s \in [1 .. n -> S]
            /\ \A i, j \in 1 .. n : i < j => ps[s[i]].rate <= ps[s[j]].rate
            /\ \A i, j \in 1 .. n : s[i] = s[j] => i = j
            /\ \A x \in S : \E i \in 1 .. n : s[i] = x
<1> DEFINE s == Sorted(ps, S)
           n == Cardinality(S)
<1>1. n \in Nat
  BY FS_CardinalityType
<1>2. RateSorted(s, ps, S)
  BY SortedExists DEF Sorted, RateSorted
<1> HIDE DEF s, n
<1>3. s \in [1 .. n -> S] /\ \A i, j \in 1 .. n : i < j => Precedes(ps, s[i], s[j])
  BY <1>2 DEF RateSorted, n
<1>4. \A i, j \in 1 .. n : i < j => ps[s[i]].rate <= ps[s[j]].rate /\ s[i] # s[j]
  <2> TAKE i, j \in 1 .. n
  <2> HAVE i < j
  <2>1. s[i] \in S /\ s[j] \in S /\ Precedes(ps, s[i], s[j])
    BY <1>3
  <2>2. ps[s[i]].rate \in Nat /\ ps[s[j]].rate \in Nat /\ s[i] \in Nat /\ s[j] \in Nat
    BY <2>1
  <2> QED
    BY <2>1, <2>2 DEF Precedes
<1>5. \A i, j \in 1 .. n : s[i] = s[j] => i = j
  BY <1>4, <1>1
<1> DEFINE T == {s[i] : i \in 1 .. n}
<1>6. T \subseteq S /\ s \in Bijection(1 .. n, T)
  BY <1>3, <1>5 DEF Bijection, Injection, Surjection, IsInjective
<1>7. Cardinality(T) = n
  BY <1>6, <1>1, FS_CountingElements DEF ExistsBijection
<1>8. T = S
  BY <1>6, <1>7, FS_Subset DEF n
<1> QED
  BY <1>1, <1>3, <1>4, <1>5, <1>8 DEF s, n

----------------------------------------------------------------------------
(* The loop over them: the fold of the community module, unfolded. *)

LEMMA MaxIs ==
  ASSUME NEW n \in Nat, NEW S, S \subseteq 1 .. n, S # {}
  PROVE  Max(S) \in S /\ \A y \in S : Max(S) >= y
<1> DEFINE T == {n - x : x \in S}
<1>1. T \subseteq Nat /\ T # {}
  <2>1. \A x \in S : n - x \in Nat
    <3> TAKE x \in S
    <3>1. x \in 1 .. n
      OBVIOUS
    <3> QED
      BY <3>1
  <2> QED
    BY <2>1
<1>2. PICK d \in T : \A e \in T : d <= e
  <2> HIDE DEF T
  <2> QED
    BY <1>1, LeastNat
<1>3. PICK m \in S : d = n - m
  BY <1>2
<1>4. \A y \in S : m >= y
  <2> TAKE y \in S
  <2>1. n - m <= n - y
    BY <1>2, <1>3
  <2>2. m \in Int /\ y \in Int
    OBVIOUS
  <2> QED
    BY <2>1, <2>2
<1> QED
  BY <1>4 DEF Max

(* g has the chunk that the loop makes of the items at each set of places. *)
IsChunks(g, all, D) ==
  g = [s \in D |-> IF s = {} THEN <<>> ELSE Added(g[s \ {Max(s)}], all[Max(s)])]

LEMMA FoldIsChunks ==
  ASSUME NEW all
  PROVE  FoldLeft(Added, <<>>, all) = (CHOOSE g : IsChunks(g, all, SUBSET DOMAIN all))[DOMAIN all]
BY DEF FoldLeft, MapThenFoldSet, IsChunks

LEMMA ChunksStep ==
  ASSUME NEW all, NEW n \in Nat, NEW b \in Nat, NEW g, IsChunks(g, all, UpTo(b, 1 .. n))
  PROVE  \E h : IsChunks(h, all, UpTo(b + 1, 1 .. n))
<1> DEFINE D == UpTo(b, 1 .. n)
           E == UpTo(b + 1, 1 .. n)
           h == [s \in E |-> IF s = {} THEN <<>>
                             ELSE IF s \in D THEN g[s]
                             ELSE Added(g[s \ {Max(s)}], all[Max(s)])]
<1>0. IsFiniteSet(1 .. n)
  BY FS_Interval
<1>1. \A s \in E : s # {} => s \ {Max(s)} \in D
  <2> TAKE s \in E
  <2> HAVE s # {}
  <2>1. IsFiniteSet(s) /\ Max(s) \in s /\ s \subseteq 1 .. n
    BY <1>0, FS_Subset, MaxIs DEF UpTo
  <2>2. Cardinality(s \ {Max(s)}) = Cardinality(s) - 1 /\ Cardinality(s) \in Nat
    BY <2>1, FS_RemoveElement, FS_CardinalityType
  <2>3. Cardinality(s) <= b + 1 /\ s \ {Max(s)} \in SUBSET (1 .. n)
    BY <2>1 DEF UpTo
  <2>4. Cardinality(s \ {Max(s)}) <= b
    BY <2>2, <2>3
  <2> QED
    BY <2>3, <2>4 DEF UpTo
<1>2. D \subseteq E
  BY <1>0, FS_Subset, FS_CardinalityType DEF UpTo
<1>3. \A s \in D : g[s] = IF s = {} THEN <<>> ELSE Added(g[s \ {Max(s)}], all[Max(s)])
  BY DEF IsChunks
<1>4. \A s \in E : s # {} => h[s \ {Max(s)}] = g[s \ {Max(s)}]
  <2> TAKE s \in E
  <2> HAVE s # {}
  <2> DEFINE r == s \ {Max(s)}
  <2>1. r \in D /\ r \in E
    BY <1>1, <1>2
  <2> HIDE DEF r
  <2>2. h[r] = g[r]
    BY <2>1, <1>3 DEF D, E
  <2> QED
    BY <2>2 DEF r
<1>5. \A s \in E : h[s] = IF s = {} THEN <<>> ELSE Added(h[s \ {Max(s)}], all[Max(s)])
  <2> TAKE s \in E
  <2> HIDE DEF D, E
  <2>1. CASE s = {}
    BY <2>1
  <2>2. CASE s # {} /\ s \in D
    BY <2>2, <1>3, <1>4
  <2>3. CASE s # {} /\ s \notin D
    BY <2>3, <1>4
  <2> QED
    BY <2>1, <2>2, <2>3
<1>6. IsChunks(h, all, E)
  <2> HIDE DEF D, E
  <2>1. h = [s \in E |-> h[s]]
    OBVIOUS
  <2> QED
    BY <2>1, <1>5 DEF IsChunks
<1> QED
  BY <1>6

LEMMA ChunksExist ==
  ASSUME NEW all, NEW n \in Nat
  PROVE  \E g : IsChunks(g, all, SUBSET (1 .. n))
<1> DEFINE T == {b \in Nat : ~ \E g : IsChunks(g, all, UpTo(b, 1 .. n))}
<1>0. IsFiniteSet(1 .. n) /\ Cardinality(1 .. n) = n
  BY FS_Interval
<1>1. \E g : IsChunks(g, all, UpTo(0, 1 .. n))
  <2>1. UpTo(0, 1 .. n) = {{}}
    <3>1. \A s \in SUBSET (1 .. n) : IsFiniteSet(s) /\ Cardinality(s) \in Nat
      BY <1>0, FS_Subset, FS_CardinalityType
    <3> QED
      BY <3>1, FS_EmptySet DEF UpTo
  <2>2. IsChunks([s \in {{}} |-> <<>>], all, {{}})
    BY DEF IsChunks
  <2> QED
    BY <2>1, <2>2
<1>2. T = {}
  <2> SUFFICES ASSUME T # {}
               PROVE  FALSE
    OBVIOUS
  <2>1. PICK b \in T : \A c \in T : b <= c
    <3>1. T \subseteq Nat /\ T # {}
      OBVIOUS
    <3> HIDE DEF T
    <3> QED
      BY <3>1, LeastNat
  <2>2. b \in Nat /\ b # 0
    BY <2>1, <1>1
  <2>3. b - 1 \in Nat /\ b - 1 \notin T /\ b - 1 + 1 = b
    BY <2>1, <2>2
  <2>4. PICK g : IsChunks(g, all, UpTo(b - 1, 1 .. n))
    BY <2>3
  <2>5. \E h : IsChunks(h, all, UpTo(b - 1 + 1, 1 .. n))
    BY <2>3, <2>4, ChunksStep
  <2> QED
    BY <2>1, <2>3, <2>5
<1>3. UpTo(n, 1 .. n) = SUBSET (1 .. n)
  BY <1>0, FS_Subset DEF UpTo
<1>4. \E g : IsChunks(g, all, UpTo(n, 1 .. n))
  BY <1>2
<1> QED
  BY <1>3, <1>4

(* The chunks of the loop, one after another. *)
LEMMA ChunkAfter ==
  ASSUME NEW all, NEW n \in Nat, DOMAIN all = 1 .. n
  PROVE  \E chunk : /\ chunk[0] = <<>>
                    /\ \A i \in 0 .. n - 1 : chunk[i + 1] = Added(chunk[i], all[i + 1])
                    /\ chunk[n] = FoldLeft(Added, <<>>, all)
<1> DEFINE g == CHOOSE h : IsChunks(h, all, SUBSET (1 .. n))
           chunk == [i \in 0 .. n |-> g[1 .. i]]
<1>1. IsChunks(g, all, SUBSET (1 .. n))
  BY ChunksExist
<1>2. FoldLeft(Added, <<>>, all) = g[1 .. n]
  BY FoldIsChunks
<1> HIDE DEF g
<1>3. \A s \in SUBSET (1 .. n) : g[s] = IF s = {} THEN <<>> ELSE Added(g[s \ {Max(s)}], all[Max(s)])
  BY <1>1 DEF IsChunks
<1>4. chunk[0] = <<>>
  <2>1. 1 .. 0 = {} /\ {} \in SUBSET (1 .. n) /\ 0 \in 0 .. n
    OBVIOUS
  <2>2. g[{}] = <<>>
    BY <2>1, <1>3
  <2> QED
    BY <2>1, <2>2
<1>5. ASSUME NEW i \in 0 .. n - 1
      PROVE  chunk[i + 1] = Added(chunk[i], all[i + 1])
  <2> DEFINE s == 1 .. i + 1
  <2>0. i + 1 \in 1 .. n /\ i \in 0 .. n /\ i + 1 \in 0 .. n
    OBVIOUS
  <2>1. s \in SUBSET (1 .. n) /\ i + 1 \in s /\ \A y \in s : y <= i + 1
    BY <2>0
  <2>2. Max(s) = i + 1
    <3>1. Max(s) \in s /\ Max(s) >= i + 1
      BY <2>1, MaxIs
    <3> QED
      BY <2>0, <3>1
  <2>3. s \ {i + 1} = 1 .. i
    OBVIOUS
  <2> HIDE DEF s
  <2>4. g[s] = Added(g[1 .. i], all[i + 1])
    BY <2>1, <2>2, <2>3, <1>3
  <2> QED
    BY <2>0, <2>4 DEF s
<1>6. chunk[n] = g[1 .. n]
  OBVIOUS
<1> QED
  BY <1>2, <1>4, <1>5, <1>6

----------------------------------------------------------------------------
(* What the loop keeps: the chunk is that of the items so far. *)

Item == [rate : Nat, quantity : Nat]
Ascending(c) == \A a, b \in 1 .. Len(c) : a < b => c[a].rate < c[b].rate
Rates(c) == {c[a].rate : a \in 1 .. Len(c)}

First(ids, i) == {ids[x] : x \in 1 .. i}
Mainders(ps) == [x \in DOMAIN ps |-> ps[x].mainder]
OfRate(ps, T, r) == {x \in T : ps[x].rate = r}
(* What the positions T offer at a rate. *)
Offered(ps, T, r) == SumFunctionOnSet(Mainders(ps), OfRate(ps, T, r))

(* The positions S in their order, and the items of the loop. *)
Items(all, ids, n, ps, S) ==
  /\ n \in Nat /\ IsFiniteSet(S) /\ S \subseteq DOMAIN ps
  /\ \A x \in S : ps[x].rate \in Nat /\ ps[x].mainder \in Nat
  /\ ids \in [1 .. n -> S]
  /\ \A i, j \in 1 .. n : i < j => ps[ids[i]].rate <= ps[ids[j]].rate
  /\ \A i, j \in 1 .. n : ids[i] = ids[j] => i = j
  /\ \A x \in S : \E i \in 1 .. n : ids[i] = x
  /\ all = [i \in 1 .. n |-> [rate |-> ps[ids[i]].rate, quantity |-> ps[ids[i]].mainder]]

LEMMA OfferedType ==
  ASSUME NEW ps, NEW S, IsFiniteSet(S), S \subseteq DOMAIN ps, \A x \in S : ps[x].mainder \in Nat, NEW r
  PROVE  /\ IsFiniteSet(OfRate(ps, S, r))
         /\ \A x \in OfRate(ps, S, r) : Mainders(ps)[x] = ps[x].mainder /\ Mainders(ps)[x] \in Nat
         /\ Offered(ps, S, r) \in Nat
         /\ OfRate(ps, S, r) = {} => Offered(ps, S, r) = 0
<1>1. OfRate(ps, S, r) \subseteq S
  BY DEF OfRate
<1>2. IsFiniteSet(OfRate(ps, S, r))
  BY <1>1, FS_Subset
<1>3. \A x \in OfRate(ps, S, r) : Mainders(ps)[x] = ps[x].mainder /\ Mainders(ps)[x] \in Nat
  BY <1>1 DEF Mainders
<1>4. Offered(ps, S, r) \in Nat
  BY <1>2, <1>3, SumNat DEF Offered
<1>5. OfRate(ps, S, r) = {} => Offered(ps, S, r) = 0
  BY SumEmpty DEF Offered
<1> QED
  BY <1>2, <1>3, <1>4, <1>5

LEMMA OfferedNext ==
  ASSUME NEW all, NEW ids, NEW n, NEW ps, NEW S, Items(all, ids, n, ps, S), NEW i \in 0 .. n - 1, NEW r
  PROVE  /\ Offered(ps, First(ids, i), r) \in Nat
         /\ OfRate(ps, First(ids, i), r) = {} => Offered(ps, First(ids, i), r) = 0
         /\ Offered(ps, First(ids, i + 1), r) =
              Offered(ps, First(ids, i), r) + (IF all[i + 1].rate = r THEN all[i + 1].quantity ELSE 0)
<1> DEFINE T == First(ids, i)
           x == ids[i + 1]
           f == Mainders(ps)
<1>1. n \in Nat /\ IsFiniteSet(S) /\ S \subseteq DOMAIN ps /\ ids \in [1 .. n -> S]
      /\ (\A y \in S : ps[y].mainder \in Nat) /\ (\A a, b \in 1 .. n : ids[a] = ids[b] => a = b)
      /\ all = [a \in 1 .. n |-> [rate |-> ps[ids[a]].rate, quantity |-> ps[ids[a]].mainder]]
  BY DEF Items
<1>2. i + 1 \in 1 .. n /\ 1 .. i \subseteq 1 .. n /\ 1 .. i + 1 = (1 .. i) \cup {i + 1} /\ i + 1 \notin 1 .. i
  BY <1>1
<1>3. T \subseteq S /\ x \in S /\ x \notin T /\ First(ids, i + 1) = T \cup {x}
  BY <1>1, <1>2 DEF First
<1>4. IsFiniteSet(T) /\ T \subseteq DOMAIN ps /\ \A y \in T : ps[y].mainder \in Nat
  BY <1>1, <1>3, FS_Subset
<1>5. all[i + 1].rate = ps[x].rate /\ all[i + 1].quantity = ps[x].mainder
  BY <1>1, <1>2
<1> HIDE DEF T, x, f
<1>6. /\ IsFiniteSet(OfRate(ps, T, r)) /\ \A y \in OfRate(ps, T, r) : f[y] \in Nat
      /\ Offered(ps, T, r) \in Nat /\ (OfRate(ps, T, r) = {} => Offered(ps, T, r) = 0)
  BY <1>4, OfferedType DEF f
<1>7. CASE ps[x].rate = r
  <2>1. OfRate(ps, T \cup {x}, r) = OfRate(ps, T, r) \cup {x} /\ x \notin OfRate(ps, T, r)
    BY <1>3, <1>7 DEF OfRate
  <2>2. f[x] = ps[x].mainder /\ f[x] \in Nat
    BY <1>1, <1>3 DEF f, Mainders
  <2>3. SumFunctionOnSet(f, OfRate(ps, T, r) \cup {x}) = SumFunctionOnSet(f, OfRate(ps, T, r)) + f[x]
    BY <2>1, <2>2, <1>6, SumAdd
  <2> QED
    BY <2>1, <2>2, <2>3, <1>3, <1>5, <1>6, <1>7 DEF Offered, f, T
<1>8. CASE ps[x].rate # r
  <2>1. OfRate(ps, T \cup {x}, r) = OfRate(ps, T, r)
    BY <1>3, <1>8 DEF OfRate
  <2>2. Offered(ps, T \cup {x}, r) = Offered(ps, T, r)
    BY <2>1 DEF Offered
  <2> QED
    BY <2>2, <1>3, <1>5, <1>6, <1>8 DEF T
<1> QED
  BY <1>7, <1>8

ChunkOK(c, i, all, ids, ps) ==
  /\ c \in Seq(Item) /\ Len(c) <= MaxQuantities /\ Ascending(c)
  /\ \A a \in 1 .. Len(c) : /\ \E x \in 1 .. i : all[x].rate = c[a].rate
                            /\ c[a].quantity = Offered(ps, First(ids, i), c[a].rate)
  /\ \A x \in 1 .. i : (Len(c) < MaxQuantities \/ all[x].rate <= c[Len(c)].rate)
                         => all[x].rate \in Rates(c)

LEMMA ChunkFirst ==
  ASSUME NEW all, NEW ids, NEW ps
  PROVE  ChunkOK(<<>>, 0, all, ids, ps)
<1>1. MaxQuantities \in Nat
  BY PositionViewsAssumption
<1> QED
  BY <1>1 DEF ChunkOK, Ascending

LEMMA ChunkNext ==
  ASSUME NEW all, NEW ids, NEW n, NEW ps, NEW S, Items(all, ids, n, ps, S), NEW i \in 0 .. n - 1,
         NEW c, ChunkOK(c, i, all, ids, ps)
  PROVE  ChunkOK(Added(c, all[i + 1]), i + 1, all, ids, ps)
<1> DEFINE item == all[i + 1]
           d == Added(c, item)
           Q(j, r) == Offered(ps, First(ids, j), r)
<1>1. MaxQuantities \in Nat \ {0}
  BY PositionViewsAssumption
<1>2. i \in Nat /\ i + 1 \in 1 .. n /\ (\A x \in 1 .. i : x \in 1 .. n /\ x < i + 1 /\ x \in 1 .. i + 1)
      /\ n \in Nat /\ (\A x \in 1 .. i + 1 : x \in 1 .. i \/ x = i + 1)
  BY DEF Items
<1>3. \A x \in 1 .. n : all[x] \in Item
  BY DEF Items, Item
<1>4. \A x \in 1 .. i : all[x].rate <= item.rate
  BY <1>2 DEF Items
<1>5. /\ c \in Seq(Item) /\ Len(c) \in Nat /\ Len(c) <= MaxQuantities /\ Ascending(c)
      /\ \A a \in 1 .. Len(c) : /\ \E x \in 1 .. i : all[x].rate = c[a].rate
                                /\ c[a].quantity = Q(i, c[a].rate)
      /\ \A x \in 1 .. i : (Len(c) < MaxQuantities \/ all[x].rate <= c[Len(c)].rate)
                             => all[x].rate \in Rates(c)
  BY DEF ChunkOK
<1>6. item \in Item /\ item.rate \in Nat /\ item.quantity \in Nat
  BY <1>2, <1>3 DEF Item
<1>7. \A r : /\ Q(i, r) \in Nat /\ (OfRate(ps, First(ids, i), r) = {} => Q(i, r) = 0)
             /\ Q(i + 1, r) = Q(i, r) + (IF item.rate = r THEN item.quantity ELSE 0)
  BY OfferedNext
<1>8. \A a \in 1 .. Len(c) : c[a] \in Item /\ c[a].rate \in Nat /\ c[a].quantity \in Nat /\ c[a].rate <= item.rate
  <2> TAKE a \in 1 .. Len(c)
  <2>1. c[a] \in Item
    BY <1>5
  <2>2. PICK x \in 1 .. i : all[x].rate = c[a].rate
    BY <1>5
  <2>3. all[x].rate <= item.rate
    BY <1>4
  <2> QED
    BY <2>1, <2>2, <2>3 DEF Item
<1>9. c # <<>> <=> Len(c) # 0
  BY <1>5
<1> HIDE DEF item, Q
<1>10. CASE c # <<>> /\ c[Len(c)].rate = item.rate
  <2> DEFINE l == Len(c)
  <2>1. d = [c EXCEPT ![l] = [c[l] EXCEPT !.quantity = c[l].quantity + item.quantity]]
    BY <1>10 DEF Added, Last
  <2>2. l \in 1 .. Len(c)
    BY <1>5, <1>9, <1>10
  <2> DEFINE e == [c[l] EXCEPT !.quantity = c[l].quantity + item.quantity]
  <2>3. c[l] \in Item
    BY <2>2, <1>8
  <2>4. e \in Item /\ e.rate = c[l].rate /\ e.quantity = c[l].quantity + item.quantity
    BY <2>3, <1>6 DEF Item
  <2> HIDE DEF e
  <2>5. d = [c EXCEPT ![l] = e]
    BY <2>1 DEF e
  <2>6. d \in Seq(Item) /\ Len(d) = Len(c) /\ \A a \in 1 .. Len(c) : d[a] = IF a = l THEN e ELSE c[a]
    BY <2>2, <2>4, <2>5, <1>5
  <2> HIDE DEF d, l
  <2>7. \A a \in 1 .. Len(c) : d[a].rate = c[a].rate
    BY <2>4, <2>6
  <2>8. Ascending(d) /\ Rates(d) = Rates(c)
    <3>1. Ascending(d)
      BY <2>6, <2>7, <1>5 DEF Ascending
    <3>2. Rates(d) = Rates(c)
      BY <2>6, <2>7 DEF Rates
    <3> QED
      BY <3>1, <3>2
  <2>9. ASSUME NEW a \in 1 .. Len(d)
        PROVE  d[a].quantity = Q(i + 1, d[a].rate)
    <3>1. a \in 1 .. Len(c) /\ d[a].rate = c[a].rate /\ c[a].quantity = Q(i, c[a].rate)
      BY <2>6, <2>7, <1>5
    <3>2. CASE a = l
      <4>1. d[a].quantity = c[l].quantity + item.quantity /\ c[l].rate = item.rate
        BY <3>1, <3>2, <2>4, <2>6, <1>10 DEF l
      <4> QED
        BY <4>1, <3>1, <3>2, <1>7
    <3>3. CASE a # l
      <4>1. c[a].rate # item.rate
        <5>1. a < Len(c) /\ Len(c) \in 1 .. Len(c)
          BY <3>1, <3>3, <2>2, <1>5 DEF l
        <5>2. c[a].rate < c[Len(c)].rate
          BY <5>1, <3>1, <1>5 DEF Ascending
        <5> QED
          BY <5>1, <5>2, <3>1, <1>8, <1>10
      <4>2. d[a].quantity = c[a].quantity
        BY <3>1, <3>3, <2>6
      <4> QED
        BY <4>1, <4>2, <3>1, <1>7
    <3> QED
      BY <3>2, <3>3
  <2>10. \A a \in 1 .. Len(d) : \E x \in 1 .. i + 1 : all[x].rate = d[a].rate
    BY <2>6, <2>7, <1>2, <1>5
  <2>11. Len(d) \in 1 .. Len(d) /\ d[Len(d)].rate = c[Len(c)].rate
    BY <2>2, <2>6, <2>7 DEF l
  <2>12. \A x \in 1 .. i + 1 : (Len(d) < MaxQuantities \/ all[x].rate <= d[Len(d)].rate)
                                => all[x].rate \in Rates(d)
    <3> TAKE x \in 1 .. i + 1
    <3>1. CASE x = i + 1
      <4>1. all[x].rate = d[Len(d)].rate
        BY <3>1, <2>11, <1>10 DEF item
      <4> QED
        BY <4>1, <2>11 DEF Rates
    <3>2. CASE x \in 1 .. i
      BY <3>2, <2>6, <2>8, <2>11, <1>5
    <3> QED
      BY <3>1, <3>2, <1>2
  <2> QED
    BY <2>6, <2>8, <2>9, <2>10, <2>12, <1>5 DEF ChunkOK, Q, d, item
<1>11. ASSUME ~ (c # <<>> /\ c[Len(c)].rate = item.rate)
       PROVE  \A a \in 1 .. Len(c) : c[a].rate < item.rate
  <2> TAKE a \in 1 .. Len(c)
  <2>1. Len(c) \in 1 .. Len(c) /\ c # <<>> /\ a <= Len(c)
    BY <1>5, <1>9
  <2>2. c[Len(c)].rate < item.rate
    BY <2>1, <1>6, <1>8, <1>11
  <2>3. a = Len(c) \/ c[a].rate < c[Len(c)].rate
    BY <2>1, <1>5 DEF Ascending
  <2> QED
    BY <2>1, <2>2, <2>3, <1>6, <1>8
<1>12. CASE ~ (c # <<>> /\ c[Len(c)].rate = item.rate) /\ Len(c) >= MaxQuantities
  <2>1. d = c
    BY <1>12 DEF Added, Last
  <2>2. \A a \in 1 .. Len(c) : c[a].rate < item.rate /\ c[a].rate # item.rate
    BY <1>6, <1>8, <1>11, <1>12
  <2>3. \A a \in 1 .. Len(c) : c[a].quantity = Q(i + 1, c[a].rate)
    <3> TAKE a \in 1 .. Len(c)
    <3>1. c[a].quantity = Q(i, c[a].rate) /\ item.rate # c[a].rate
      BY <2>2, <1>5
    <3> QED
      BY <3>1, <1>7
  <2>4. \A a \in 1 .. Len(c) : \E x \in 1 .. i + 1 : all[x].rate = c[a].rate
    BY <1>2, <1>5
  <2>5. Len(c) \in 1 .. Len(c)
    BY <1>1, <1>5, <1>12
  <2>6. \A x \in 1 .. i + 1 : (Len(c) < MaxQuantities \/ all[x].rate <= c[Len(c)].rate)
                               => all[x].rate \in Rates(c)
    <3> TAKE x \in 1 .. i + 1
    <3>1. CASE x = i + 1
      <4>1. ~ (Len(c) < MaxQuantities) /\ ~ (all[x].rate <= c[Len(c)].rate)
        BY <3>1, <2>2, <2>5, <1>1, <1>5, <1>6, <1>8, <1>12 DEF item
      <4> QED
        BY <4>1
    <3>2. CASE x \in 1 .. i
      BY <3>2, <1>5
    <3> QED
      BY <3>1, <3>2, <1>2
  <2> QED
    BY <2>1, <2>3, <2>4, <2>6, <1>5 DEF ChunkOK, Q, item
<1>13. CASE ~ (c # <<>> /\ c[Len(c)].rate = item.rate) /\ ~ (Len(c) >= MaxQuantities)
  <2> DEFINE l == Len(c)
  <2>1. d = Append(c, item)
    BY <1>13 DEF Added, Last
  <2>2. d \in Seq(Item) /\ Len(d) = l + 1 /\ (\A a \in 1 .. l : d[a] = c[a]) /\ d[l + 1] = item
    BY <2>1, <1>5, <1>6
  <2>3. \A a \in 1 .. l : c[a].rate < item.rate /\ c[a].rate # item.rate
    BY <1>6, <1>8, <1>11, <1>13
  <2>4. l \in Nat /\ l < MaxQuantities /\ (\A a \in 1 .. l + 1 : a \in 1 .. l \/ a = l + 1)
        /\ (\A a \in 1 .. l : a \in 1 .. l + 1)
    BY <1>1, <1>5, <1>13
  <2> HIDE DEF d, l
  <2>5. Ascending(d)
    <3>1. ASSUME NEW a \in 1 .. l + 1, NEW b \in 1 .. l + 1, a < b
          PROVE  d[a].rate < d[b].rate
      <4>1. a \in 1 .. l /\ d[a] = c[a]
        BY <3>1, <2>2, <2>4
      <4>2. CASE b = l + 1
        BY <4>1, <4>2, <2>2, <2>3
      <4>3. CASE b \in 1 .. l
        BY <4>1, <4>3, <3>1, <2>2, <1>5 DEF Ascending, l
      <4> QED
        BY <4>2, <4>3, <2>4
    <3> QED
      BY <3>1, <2>2 DEF Ascending
  <2>6. Q(i, item.rate) = 0
    <3>1. ASSUME NEW y \in OfRate(ps, First(ids, i), item.rate)
          PROVE  FALSE
      <4>1. PICK x \in 1 .. i : y = ids[x] /\ ps[y].rate = item.rate
        BY DEF OfRate, First
      <4>2. all[x].rate = item.rate
        BY <4>1, <1>2 DEF Items
      <4>3. item.rate \in Rates(c)
        BY <4>2, <2>4, <1>5 DEF l
      <4> QED
        BY <4>3, <2>3 DEF Rates, l
    <3>2. OfRate(ps, First(ids, i), item.rate) = {}
      BY <3>1
    <3> QED
      BY <3>2, <1>7
  <2>7. ASSUME NEW a \in 1 .. l + 1
        PROVE  d[a].quantity = Q(i + 1, d[a].rate) /\ \E x \in 1 .. i + 1 : all[x].rate = d[a].rate
    <3>1. CASE a = l + 1
      <4>1. d[a].quantity = Q(i + 1, d[a].rate)
        BY <3>1, <2>2, <2>6, <1>6, <1>7
      <4>2. i + 1 \in 1 .. i + 1 /\ all[i + 1].rate = d[a].rate
        BY <3>1, <2>2, <1>2 DEF item
      <4> QED
        BY <4>1, <4>2
    <3>2. CASE a \in 1 .. l
      <4>1. d[a] = c[a] /\ c[a].quantity = Q(i, c[a].rate) /\ item.rate # c[a].rate
            /\ \E x \in 1 .. i : all[x].rate = c[a].rate
        BY <3>2, <2>2, <2>3, <1>5 DEF l
      <4>2. Q(i + 1, c[a].rate) = Q(i, c[a].rate) + 0 /\ Q(i, c[a].rate) \in Nat
        BY <4>1, <1>7
      <4> QED
        BY <4>1, <4>2, <1>2
    <3> QED
      BY <3>1, <3>2, <2>4
  <2>8. \A x \in 1 .. i + 1 : all[x].rate \in Rates(d)
    <3> TAKE x \in 1 .. i + 1
    <3>1. CASE x = i + 1
      <4>1. all[x].rate = d[l + 1].rate /\ l + 1 \in 1 .. Len(d)
        BY <3>1, <2>2, <2>4 DEF item
      <4> QED
        BY <4>1 DEF Rates
    <3>2. CASE x \in 1 .. i
      <4>1. PICK a \in 1 .. l : c[a].rate = all[x].rate
        BY <3>2, <2>4, <1>5 DEF Rates, l
      <4>2. a \in 1 .. Len(d) /\ d[a].rate = all[x].rate
        BY <4>1, <2>2, <2>4
      <4> QED
        BY <4>2 DEF Rates
    <3> QED
      BY <3>1, <3>2, <1>2
  <2>9. Len(d) <= MaxQuantities
    BY <2>2, <2>4, <1>1
  <2> QED
    BY <2>2, <2>5, <2>7, <2>8, <2>9 DEF ChunkOK, Q, d, item
<1> QED
  BY <1>10, <1>12, <1>13

----------------------------------------------------------------------------
(* One chunk of the book, and all of them. *)

Behind(ps, start) == {x \in DOMAIN ps : ps[x].rate > start}
RatesBehind(ps, start) == {ps[x].rate : x \in Behind(ps, start)}

(* The positions of a book. *)
Book(ps) ==
  /\ IsFiniteSet(DOMAIN ps) /\ DOMAIN ps \subseteq Nat
  /\ \A x \in DOMAIN ps : ps[x].rate \in Nat /\ ps[x].mainder \in Nat

(* c has the first rates behind the start, with all that is offered at     *)
(* them.                                                                   *)
BookChunk(c, ps, start) ==
  /\ c \in Seq(Item) /\ Ascending(c)
  /\ \A a \in 1 .. Len(c) : /\ c[a].rate \in RatesBehind(ps, start)
                            /\ c[a].quantity = Offered(ps, DOMAIN ps, c[a].rate)
  /\ \A a \in 1 .. Len(c) : \A r \in RatesBehind(ps, start) : r <= c[a].rate => r \in Rates(c)
  /\ c = <<>> => RatesBehind(ps, start) = {}

LEMMA ChunkOfBook ==
  ASSUME NEW k, Book(positions[k]), NEW start \in Nat
  PROVE  LET page == view_position_book(k, start)
         IN /\ BookChunk(page.positions_quantities, positions[k], start)
            /\ page.is_last_chunk => RatesBehind(positions[k], start) \subseteq Rates(page.positions_quantities)
            /\ page.positions_quantities = <<>> => page.is_last_chunk
<1> DEFINE ps == positions[k]
           S == Behind(ps, start)
           n == Cardinality(S)
           ids == Sorted(ps, S)
           all == RatesAndQuantities(k, start)
           c == FoldLeft(Added, <<>>, all)
           page == view_position_book(k, start)
<1>1. S \subseteq DOMAIN ps /\ IsFiniteSet(S) /\ \A x \in S : x \in Nat /\ ps[x].rate \in Nat /\ ps[x].mainder \in Nat
                                                   /\ ps[x].rate > start
  <2>1. S \subseteq DOMAIN ps /\ \A x \in S : ps[x].rate > start
    BY DEF Behind
  <2> QED
    BY <2>1, FS_Subset DEF Book
<1>2. page.positions_quantities = c
      /\ (page.is_last_chunk <=> c = <<>> \/ c[Len(c)].rate = all[Len(all)].rate)
  BY DEF view_position_book, Last
<1>3. all = [i \in DOMAIN ids |-> [rate |-> ps[ids[i]].rate, quantity |-> ps[ids[i]].mainder]]
  BY DEF RatesAndQuantities, Behind
<1> HIDE DEF all, page
<1>4. Items(all, ids, n, ps, S)
  <2> HIDE DEF ps, S
  <2>1. /\ n \in Nat /\ ids \in [1 .. n -> S]
        /\ \A i, j \in 1 .. n : i < j => ps[ids[i]].rate <= ps[ids[j]].rate
        /\ \A i, j \in 1 .. n : ids[i] = ids[j] => i = j
        /\ \A x \in S : \E i \in 1 .. n : ids[i] = x
    BY <1>1, SortedIs
  <2> HIDE DEF ids, n
  <2>2. DOMAIN ids = 1 .. n
    BY <2>1
  <2> QED
    BY <2>1, <2>2, <1>1, <1>3 DEF Items
<1> HIDE DEF ids, S, ps, n
<1>5. n \in Nat /\ DOMAIN all = 1 .. n /\ Len(all) = n /\ First(ids, n) = S /\ First(ids, 0) = {}
      /\ \A i \in 1 .. n : all[i].rate = ps[ids[i]].rate /\ ids[i] \in S
  <2>1. n \in Nat /\ ids \in [1 .. n -> S] /\ (\A x \in S : \E i \in 1 .. n : ids[i] = x)
        /\ all = [i \in 1 .. n |-> [rate |-> ps[ids[i]].rate, quantity |-> ps[ids[i]].mainder]]
    BY <1>4 DEF Items
  <2>2. First(ids, n) = S /\ First(ids, 0) = {}
    BY <2>1 DEF First
  <2> QED
    BY <2>1, <2>2
<1>6. PICK chunk : /\ chunk[0] = <<>>
                   /\ \A i \in 0 .. n - 1 : chunk[i + 1] = Added(chunk[i], all[i + 1])
                   /\ chunk[n] = c
  BY <1>5, ChunkAfter
<1>7. ChunkOK(c, n, all, ids, ps)
  <2> DEFINE T == {i \in 0 .. n : ~ ChunkOK(chunk[i], i, all, ids, ps)}
  <2>1. T = {}
    <3> SUFFICES ASSUME T # {}
                 PROVE  FALSE
      OBVIOUS
    <3>1. PICK i \in T : \A j \in T : i <= j
      <4>1. T \subseteq Nat /\ T # {}
        OBVIOUS
      <4> HIDE DEF T
      <4> QED
        BY <4>1, LeastNat
    <3>2. i # 0
      BY <3>1, <1>6, ChunkFirst
    <3> DEFINE j == i - 1
    <3>3. j \in 0 .. n - 1 /\ j + 1 = i /\ j \in 0 .. n /\ ~ (i <= j)
      BY <3>1, <3>2, <1>5
    <3>4. ChunkOK(chunk[j], j, all, ids, ps)
      BY <3>1, <3>3
    <3> HIDE DEF j
    <3>5. ChunkOK(Added(chunk[j], all[j + 1]), j + 1, all, ids, ps)
      BY <3>3, <3>4, <1>4, ChunkNext
    <3> QED
      BY <3>1, <3>3, <3>5, <1>6
  <2> QED
    BY <2>1, <1>5, <1>6
<1> HIDE DEF c
<1>8. RatesBehind(ps, start) = {all[i].rate : i \in 1 .. n}
  <2>1. RatesBehind(ps, start) = {ps[x].rate : x \in S}
    BY DEF RatesBehind, S
  <2>2. \A x \in S : \E i \in 1 .. n : ids[i] = x
    BY <1>4 DEF Items
  <2> QED
    BY <2>1, <2>2, <1>5
<1>9. \A r : r > start => OfRate(ps, DOMAIN ps, r) = OfRate(ps, S, r)
  BY DEF OfRate, S, Behind
<1>10. \A i \in 1 .. n : all[i].rate \in Nat /\ all[i].rate > start
  BY <1>1, <1>5
<1>11. /\ c \in Seq(Item) /\ Len(c) \in Nat /\ Ascending(c)
       /\ \A a \in 1 .. Len(c) : /\ \E x \in 1 .. n : all[x].rate = c[a].rate
                                 /\ c[a].quantity = Offered(ps, S, c[a].rate)
       /\ \A x \in 1 .. n : (Len(c) < MaxQuantities \/ all[x].rate <= c[Len(c)].rate)
                              => all[x].rate \in Rates(c)
  BY <1>5, <1>7 DEF ChunkOK
<1>12. \A a \in 1 .. Len(c) : c[a].quantity = Offered(ps, DOMAIN ps, c[a].rate)
                               /\ c[a].rate \in RatesBehind(ps, start) /\ c[a].rate \in Nat
  <2> TAKE a \in 1 .. Len(c)
  <2>1. PICK x \in 1 .. n : all[x].rate = c[a].rate
    BY <1>11
  <2>2. c[a].rate > start /\ c[a].rate \in Nat
    BY <2>1, <1>10
  <2>3. OfRate(ps, DOMAIN ps, c[a].rate) = OfRate(ps, S, c[a].rate)
    BY <2>2, <1>9
  <2>4. Offered(ps, DOMAIN ps, c[a].rate) = Offered(ps, S, c[a].rate)
    BY <2>3 DEF Offered
  <2> QED
    BY <2>1, <2>2, <2>4, <1>8, <1>11
<1>13. ASSUME NEW a \in 1 .. Len(c), NEW r \in RatesBehind(ps, start), r <= c[a].rate
       PROVE  r \in Rates(c)
  <2>1. PICK x \in 1 .. n : all[x].rate = r
    BY <1>8
  <2>2. Len(c) \in 1 .. Len(c) /\ a <= Len(c)
    BY <1>11
  <2>3. c[a].rate <= c[Len(c)].rate
    <3>1. CASE a = Len(c)
      BY <3>1, <1>12
    <3>2. CASE a # Len(c)
      <4>1. a < Len(c)
        BY <2>2, <3>2
      <4> QED
        BY <4>1, <2>2, <1>11, <1>12 DEF Ascending
    <3> QED
      BY <3>1, <3>2
  <2>4. r \in Nat /\ c[a].rate \in Nat /\ c[Len(c)].rate \in Nat
    BY <2>1, <2>2, <1>10, <1>12
  <2>5. all[x].rate <= c[Len(c)].rate
    BY <2>1, <2>3, <2>4, <1>13
  <2> QED
    BY <2>1, <2>5, <1>11
<1>14. c = <<>> => RatesBehind(ps, start) = {}
  <2> SUFFICES ASSUME c = <<>>, NEW x \in 1 .. n
               PROVE  FALSE
    BY <1>8
  <2>1. Len(c) = 0 /\ Rates(c) = {}
    BY DEF Rates
  <2>2. MaxQuantities \in Nat \ {0}
    BY PositionViewsAssumption
  <2> QED
    BY <2>1, <2>2, <1>11
<1>15. BookChunk(c, ps, start)
  BY <1>11, <1>12, <1>13, <1>14 DEF BookChunk
<1>16. page.is_last_chunk => RatesBehind(ps, start) \subseteq Rates(c)
  <2> SUFFICES ASSUME c # <<>>, c[Len(c)].rate = all[Len(all)].rate, NEW x \in 1 .. n
               PROVE  all[x].rate \in Rates(c)
    BY <1>2, <1>8, <1>14
  <2>1. n \in 1 .. n /\ x <= n
    BY <1>5
  <2>2. all[x].rate <= all[n].rate
    <3>1. CASE x = n
      BY <3>1, <1>10
    <3>2. CASE x # n
      <4>1. x < n
        BY <2>1, <3>2
      <4> QED
        BY <4>1, <2>1, <1>4, <1>5 DEF Items
    <3> QED
      BY <3>1, <3>2
  <2>3. all[x].rate <= c[Len(c)].rate
    BY <2>2, <1>5
  <2> QED
    BY <2>3, <1>11
<1> QED
  BY <1>2, <1>15, <1>16 DEF ps, page

(* The starts with at most b rates behind them. *)
StartsWith(ps, b) == {start \in Nat : Cardinality(RatesBehind(ps, start)) <= b}

LEMMA RatesBehindType ==
  ASSUME NEW ps, Book(ps), NEW start
  PROVE  /\ IsFiniteSet(RatesBehind(ps, start)) /\ Cardinality(RatesBehind(ps, start)) \in Nat
         /\ \A r \in RatesBehind(ps, start) : r \in Nat /\ r > start
<1>1. IsFiniteSet(Behind(ps, start))
  <2>1. Behind(ps, start) \subseteq DOMAIN ps
    BY DEF Behind
  <2> QED
    BY <2>1, FS_Subset DEF Book
<1>2. IsFiniteSet(RatesBehind(ps, start))
  <2> DEFINE f == [x \in Behind(ps, start) |-> ps[x].rate]
  <2>1. f \in Surjection(Behind(ps, start), RatesBehind(ps, start))
    BY DEF Surjection, RatesBehind
  <2> QED
    BY <2>1, <1>1, FS_Surjection DEF ExistsSurjection
<1>3. \A r \in RatesBehind(ps, start) : r \in Nat /\ r > start
  BY DEF RatesBehind, Behind, Book
<1> QED
  BY <1>2, <1>3, FS_CardinalityType

(* Behind a chunk come the rates that are not in it. *)
LEMMA NextChunk ==
  ASSUME NEW ps, Book(ps), NEW start \in Nat, NEW c, BookChunk(c, ps, start), c # <<>>
  PROVE  LET last == Last(c).rate
         IN /\ last \in Nat
            /\ Rates(c) \cup RatesBehind(ps, last) = RatesBehind(ps, start)
            /\ \A r \in Rates(c) : r <= last
            /\ Cardinality(RatesBehind(ps, last)) < Cardinality(RatesBehind(ps, start))
<1> DEFINE last == Last(c).rate
<1>1. /\ c \in Seq(Item) /\ Ascending(c) /\ Len(c) \in 1 .. Len(c) /\ last = c[Len(c)].rate
      /\ \A a \in 1 .. Len(c) : c[a].rate \in RatesBehind(ps, start)
      /\ \A a \in 1 .. Len(c) : \A r \in RatesBehind(ps, start) : r <= c[a].rate => r \in Rates(c)
  BY DEF BookChunk, Last
<1> HIDE DEF last
<1>2. last \in RatesBehind(ps, start) /\ last \in Nat /\ last > start
  BY <1>1, RatesBehindType
<1>3. \A r \in Rates(c) : r \in RatesBehind(ps, start) /\ r <= last
  <2>1. ASSUME NEW a \in 1 .. Len(c)
        PROVE  c[a].rate <= last
    <3>1. CASE a = Len(c)
      BY <3>1, <1>1, <1>2
    <3>2. CASE a # Len(c)
      <4>1. a < Len(c)
        BY <1>1, <3>2
      <4>2. c[a].rate < c[Len(c)].rate /\ c[a].rate \in Nat
        BY <4>1, <1>1, RatesBehindType DEF Ascending
      <4> QED
        BY <4>2, <1>1, <1>2
    <3> QED
      BY <3>1, <3>2
  <2> QED
    BY <2>1, <1>1 DEF Rates
<1>4. \A r \in RatesBehind(ps, last) : r \in RatesBehind(ps, start) /\ r # last
  <2>1. \A x \in DOMAIN ps : ps[x].rate \in Nat /\ (ps[x].rate > last => ps[x].rate > start /\ ps[x].rate # last)
    BY <1>2 DEF Book
  <2> QED
    BY <2>1 DEF RatesBehind, Behind
<1>5. \A r \in RatesBehind(ps, start) : r \in Rates(c) \/ r \in RatesBehind(ps, last)
  <2> TAKE r \in RatesBehind(ps, start)
  <2>1. r \in Nat
    BY RatesBehindType
  <2>2. CASE r <= last
    BY <2>2, <1>1
  <2>3. CASE r > last
    BY <2>3 DEF RatesBehind, Behind
  <2> QED
    BY <2>1, <2>2, <2>3, <1>2
<1>6. Rates(c) \cup RatesBehind(ps, last) = RatesBehind(ps, start)
  BY <1>3, <1>4, <1>5
<1>7. Cardinality(RatesBehind(ps, last)) < Cardinality(RatesBehind(ps, start))
  <2>1. RatesBehind(ps, last) \subseteq RatesBehind(ps, start) /\ RatesBehind(ps, last) # RatesBehind(ps, start)
    BY <1>2, <1>4
  <2>2. IsFiniteSet(RatesBehind(ps, start)) /\ Cardinality(RatesBehind(ps, start)) \in Nat
        /\ Cardinality(RatesBehind(ps, last)) \in Nat
    BY RatesBehindType
  <2>3. Cardinality(RatesBehind(ps, last)) <= Cardinality(RatesBehind(ps, start))
        /\ Cardinality(RatesBehind(ps, last)) # Cardinality(RatesBehind(ps, start))
    BY <2>1, <2>2, FS_Subset
  <2> QED
    BY <2>2, <2>3
<1> QED
  BY <1>2, <1>3, <1>6, <1>7 DEF last

(* The function of BookRead, on some of the starts. *)
IsBookRead(f, k, D) ==
  f = [start \in D |->
         LET page == view_position_book(k, start)
         IN page.positions_quantities \o
              IF page.is_last_chunk THEN <<>> ELSE f[Last(page.positions_quantities).rate]]

LEMMA BookReadStep ==
  ASSUME NEW k, Book(positions[k]), NEW b \in Nat, NEW g, IsBookRead(g, k, StartsWith(positions[k], b))
  PROVE  \E h : IsBookRead(h, k, StartsWith(positions[k], b + 1))
<1> DEFINE D == StartsWith(positions[k], b)
           E == StartsWith(positions[k], b + 1)
           Pq(start) == view_position_book(k, start).positions_quantities
           Done(start) == view_position_book(k, start).is_last_chunk
           Next1(start) == Last(Pq(start)).rate
           h == [start \in E |-> IF start \in D THEN g[start]
                                 ELSE Pq(start) \o IF Done(start) THEN <<>> ELSE g[Next1(start)]]
<1>1. D \subseteq E
  BY RatesBehindType DEF StartsWith
<1>2. \A start \in E : ~Done(start) => Next1(start) \in D
  <2> TAKE start \in E
  <2> HAVE ~Done(start)
  <2>1. start \in Nat /\ Cardinality(RatesBehind(positions[k], start)) <= b + 1
    BY DEF StartsWith
  <2>2. BookChunk(Pq(start), positions[k], start) /\ Pq(start) # <<>>
    BY <2>1, ChunkOfBook
  <2> HIDE DEF Pq
  <2>3. Next1(start) \in Nat
        /\ Cardinality(RatesBehind(positions[k], Next1(start))) < Cardinality(RatesBehind(positions[k], start))
    BY <2>1, <2>2, NextChunk
  <2>4. Cardinality(RatesBehind(positions[k], Next1(start))) \in Nat
        /\ Cardinality(RatesBehind(positions[k], start)) \in Nat
    BY RatesBehindType
  <2> QED
    BY <2>1, <2>3, <2>4 DEF StartsWith
<1>3. \A start \in D : g[start] = Pq(start) \o IF Done(start) THEN <<>> ELSE g[Next1(start)]
  BY DEF IsBookRead
<1> HIDE DEF D, E, Pq, Done, Next1
<1>4. \A start \in E : ~Done(start) => h[Next1(start)] = g[Next1(start)]
  BY <1>1, <1>2
<1>5. \A start \in E : h[start] = Pq(start) \o IF Done(start) THEN <<>> ELSE h[Next1(start)]
  <2> TAKE start \in E
  <2>1. CASE start \in D
    <3>1. h[start] = Pq(start) \o IF Done(start) THEN <<>> ELSE g[Next1(start)]
      BY <2>1, <1>3
    <3> QED
      BY <3>1, <1>4
  <2>2. CASE start \notin D
    BY <2>2, <1>4
  <2> QED
    BY <2>1, <2>2
<1>6. h = [start \in E |-> h[start]]
  OBVIOUS
<1> HIDE DEF h
<1>7. IsBookRead(h, k, E)
  BY <1>5, <1>6 DEF IsBookRead, Pq, Done, Next1
<1> QED
  BY <1>7 DEF E

LEMMA BookReadExists ==
  ASSUME NEW k, Book(positions[k])
  PROVE  \E f : IsBookRead(f, k, Nat)
<1> DEFINE ps == positions[k]
           T == {b \in Nat : ~ \E g : IsBookRead(g, k, StartsWith(ps, b))}
           most == Cardinality(RatesBehind(ps, 0))
<1>1. \E g : IsBookRead(g, k, StartsWith(ps, 0))
  <2> DEFINE g == [start \in StartsWith(ps, 0) |-> view_position_book(k, start).positions_quantities \o <<>>]
  <2>1. ASSUME NEW start \in StartsWith(ps, 0)
        PROVE  view_position_book(k, start).is_last_chunk
    <3>1. start \in Nat /\ Cardinality(RatesBehind(ps, start)) <= 0
      BY DEF StartsWith
    <3>2. RatesBehind(ps, start) = {}
      BY <3>1, RatesBehindType, FS_EmptySet
    <3> DEFINE c == view_position_book(k, start).positions_quantities
    <3>3. BookChunk(c, ps, start) /\ (c = <<>> => view_position_book(k, start).is_last_chunk)
      BY <3>1, ChunkOfBook
    <3>4. c = <<>>
      BY <3>2, <3>3 DEF BookChunk
    <3> QED
      BY <3>3, <3>4
  <2>2. IsBookRead(g, k, StartsWith(ps, 0))
    BY <2>1 DEF IsBookRead
  <2> QED
    BY <2>2
<1>2. T = {}
  <2> SUFFICES ASSUME T # {}
               PROVE  FALSE
    OBVIOUS
  <2>1. PICK b \in T : \A c \in T : b <= c
    <3>1. T \subseteq Nat /\ T # {}
      OBVIOUS
    <3> HIDE DEF T
    <3> QED
      BY <3>1, LeastNat
  <2>2. b \in Nat /\ b # 0
    BY <2>1, <1>1
  <2>3. b - 1 \in Nat /\ b - 1 \notin T /\ b - 1 + 1 = b
    BY <2>1, <2>2
  <2>4. PICK g : IsBookRead(g, k, StartsWith(ps, b - 1))
    BY <2>3
  <2>5. \E h : IsBookRead(h, k, StartsWith(ps, b - 1 + 1))
    BY <2>3, <2>4, BookReadStep
  <2> QED
    BY <2>1, <2>3, <2>5
<1>3. most \in Nat
  BY RatesBehindType
<1>4. StartsWith(ps, most) = Nat
  <2> SUFFICES ASSUME NEW start \in Nat
               PROVE  Cardinality(RatesBehind(ps, start)) <= most
    BY DEF StartsWith
  <2>1. \A x \in DOMAIN ps : ps[x].rate > start => ps[x].rate > 0
    BY DEF Book
  <2>2. RatesBehind(ps, start) \subseteq RatesBehind(ps, 0)
    BY <2>1 DEF RatesBehind, Behind
  <2> QED
    BY <2>2, RatesBehindType, FS_Subset
<1> QED
  BY <1>2, <1>3, <1>4

(* s has all the rates behind the start, with all that is offered. *)
BookWhole(s, ps, start) ==
  /\ s \in Seq(Item) /\ Ascending(s)
  /\ Range(s) = {[rate |-> r, quantity |-> Offered(ps, DOMAIN ps, r)] : r \in RatesBehind(ps, start)}

LEMMA ChunkRange ==
  ASSUME NEW ps, NEW start, NEW c, BookChunk(c, ps, start)
  PROVE  Range(c) = {[rate |-> r, quantity |-> Offered(ps, DOMAIN ps, r)] : r \in Rates(c)}
<1>1. c \in Seq(Item) /\ DOMAIN c = 1 .. Len(c)
      /\ \A a \in 1 .. Len(c) : c[a] \in Item /\ c[a].quantity = Offered(ps, DOMAIN ps, c[a].rate)
  BY DEF BookChunk
<1>2. \A a \in 1 .. Len(c) : c[a] = [rate |-> c[a].rate, quantity |-> Offered(ps, DOMAIN ps, c[a].rate)]
  BY <1>1 DEF Item
<1> QED
  BY <1>1, <1>2 DEF Range, Rates

LEMMA BookReadIs ==
  ASSUME NEW k, Book(positions[k])
  PROVE  BookWhole(BookRead(k), positions[k], 0)
<1> DEFINE ps == positions[k]
           f == CHOOSE g : IsBookRead(g, k, Nat)
           Pq(start) == view_position_book(k, start).positions_quantities
           Done(start) == view_position_book(k, start).is_last_chunk
           Next1(start) == Last(Pq(start)).rate
<1>1. IsBookRead(f, k, Nat)
  BY BookReadExists
<1>2. BookRead(k) = f[0]
  BY DEF BookRead, IsBookRead
<1> HIDE DEF f
<1>3. \A start \in Nat : f[start] = Pq(start) \o IF Done(start) THEN <<>> ELSE f[Next1(start)]
  BY <1>1 DEF IsBookRead
<1>4. \A start \in Nat :
        /\ BookChunk(Pq(start), ps, start)
        /\ Done(start) => RatesBehind(ps, start) \subseteq Rates(Pq(start))
        /\ ~Done(start) => Pq(start) # <<>>
  BY ChunkOfBook
<1> HIDE DEF Pq, Done
<1>5. ASSUME NEW start \in Nat, Done(start)
      PROVE  BookWhole(f[start], ps, start)
  <2> DEFINE c == Pq(start)
  <2>1. BookChunk(c, ps, start) /\ RatesBehind(ps, start) \subseteq Rates(c)
    BY <1>4, <1>5
  <2>2. c \in Seq(Item) /\ Ascending(c) /\ Rates(c) \subseteq RatesBehind(ps, start)
    BY <2>1 DEF BookChunk, Rates
  <2>3. f[start] = c
    <3>1. f[start] = c \o <<>>
      BY <1>3, <1>5
    <3> HIDE DEF c
    <3>2. c \o <<>> = c
      BY <2>2
    <3> QED
      BY <3>1, <3>2
  <2>4. Rates(c) = RatesBehind(ps, start)
    BY <2>1, <2>2
  <2> HIDE DEF c
  <2> QED
    BY <2>1, <2>2, <2>3, <2>4, ChunkRange DEF BookWhole
<1>6. ASSUME NEW start \in Nat, ~Done(start), BookWhole(f[Next1(start)], ps, Next1(start))
      PROVE  BookWhole(f[start], ps, start)
  <2> DEFINE c == Pq(start)
             last == Next1(start)
             s == f[last]
             It(r) == [rate |-> r, quantity |-> Offered(ps, DOMAIN ps, r)]
  <2>1. BookChunk(c, ps, start) /\ c # <<>>
    BY <1>4, <1>6
  <2>2. f[start] = c \o s
    BY <1>3, <1>6
  <2> HIDE DEF c
  <2>3. /\ last \in Nat /\ Rates(c) \cup RatesBehind(ps, last) = RatesBehind(ps, start)
        /\ \A r \in Rates(c) : r <= last
    BY <2>1, NextChunk DEF c
  <2>4. s \in Seq(Item) /\ Ascending(s) /\ Range(s) = {It(r) : r \in RatesBehind(ps, last)}
    BY <1>6 DEF BookWhole
  <2>5. c \in Seq(Item) /\ Ascending(c) /\ Range(c) = {It(r) : r \in Rates(c)}
    BY <2>1, ChunkRange DEF BookChunk
  <2>6. \A a \in 1 .. Len(s) : s[a].rate \in Nat /\ s[a].rate > last
    <3> TAKE a \in 1 .. Len(s)
    <3>1. s[a] \in Range(s)
      BY <2>4 DEF Range
    <3>2. PICK r \in RatesBehind(ps, last) : s[a] = It(r)
      BY <3>1, <2>4
    <3> QED
      BY <3>2, RatesBehindType
  <2>7. \A a \in 1 .. Len(c) : c[a].rate \in Nat /\ c[a].rate <= last
    <3> TAKE a \in 1 .. Len(c)
    <3>1. c[a] \in Item /\ c[a].rate \in Rates(c)
      BY <2>5 DEF Rates
    <3> QED
      BY <3>1, <2>3 DEF Item
  <2> HIDE DEF s, last, It
  <2> DEFINE t == c \o s
             m == Len(c)
             l == Len(s)
  <2>8. /\ t \in Seq(Item) /\ m \in Nat /\ l \in Nat /\ Len(t) = m + l
        /\ \A a \in 1 .. m : t[a] = c[a]
        /\ \A a \in 1 .. l : t[m + a] = s[a]
    BY <2>4, <2>5
  <2> HIDE DEF t
  <2>9. Ascending(t)
    <3>1. ASSUME NEW a \in 1 .. m + l, NEW b \in 1 .. m + l, a < b
          PROVE  t[a].rate < t[b].rate
      <4>1. CASE b <= m
        <5>1. a \in 1 .. m /\ b \in 1 .. m
          BY <4>1, <3>1, <2>8
        <5> QED
          BY <5>1, <3>1, <2>5, <2>8 DEF Ascending
      <4>2. CASE a <= m /\ b > m
        <5>1. a \in 1 .. m /\ b - m \in 1 .. l /\ m + (b - m) = b
          BY <4>2, <2>8
        <5>2. t[a] = c[a] /\ t[b] = s[b - m]
          BY <5>1, <2>8
        <5>3. c[a].rate \in Nat /\ c[a].rate <= last /\ s[b - m].rate \in Nat /\ s[b - m].rate > last
          BY <5>1, <2>6, <2>7
        <5> QED
          BY <5>2, <5>3, <2>3
      <4>3. CASE a > m
        <5>1. a - m \in 1 .. l /\ b - m \in 1 .. l /\ m + (b - m) = b /\ m + (a - m) = a /\ a - m < b - m
          BY <4>3, <3>1, <2>8
        <5>2. t[a] = s[a - m] /\ t[b] = s[b - m]
          BY <5>1, <2>8
        <5> QED
          BY <5>1, <5>2, <2>4 DEF Ascending
      <4> QED
        BY <4>1, <4>2, <4>3, <2>8
    <3> QED
      BY <3>1, <2>8 DEF Ascending
  <2>10. Range(t) = Range(c) \cup Range(s)
    <3>1. ASSUME NEW a \in 1 .. m + l
          PROVE  t[a] \in Range(c) \cup Range(s)
      <4>1. CASE a <= m
        BY <4>1, <2>5, <2>8 DEF Range
      <4>2. CASE a > m
        <5>1. a - m \in 1 .. l /\ m + (a - m) = a
          BY <4>2, <2>8
        <5>2. t[a] = s[a - m] /\ a - m \in DOMAIN s
          BY <5>1, <2>4, <2>8
        <5> QED
          BY <5>2 DEF Range
      <4> QED
        BY <4>1, <4>2, <2>8
    <3>2. \A a \in 1 .. m : c[a] \in Range(t)
      <4> TAKE a \in 1 .. m
      <4>1. a \in 1 .. m + l
        BY <2>8
      <4> QED
        BY <4>1, <2>8 DEF Range
    <3>3. \A a \in 1 .. l : s[a] \in Range(t)
      <4> TAKE a \in 1 .. l
      <4>1. m + a \in 1 .. m + l
        BY <2>8
      <4> QED
        BY <4>1, <2>8 DEF Range
    <3>4. DOMAIN t = 1 .. m + l /\ DOMAIN c = 1 .. m /\ DOMAIN s = 1 .. l
      BY <2>4, <2>5, <2>8
    <3> QED
      BY <3>1, <3>2, <3>3, <3>4 DEF Range
  <2>11. Range(t) = {It(r) : r \in RatesBehind(ps, start)}
    BY <2>3, <2>4, <2>5, <2>10
  <2> QED
    BY <2>2, <2>8, <2>9, <2>11 DEF BookWhole, It, t
<1>7. ASSUME NEW start \in Nat, ~Done(start)
      PROVE  Next1(start) \in Nat
             /\ Cardinality(RatesBehind(ps, Next1(start))) < Cardinality(RatesBehind(ps, start))
  BY <1>4, <1>7, NextChunk
<1> HIDE DEF Next1, ps
<1> DEFINE Left(start) == Cardinality(RatesBehind(ps, start))
           Wrong == {start \in Nat : ~BookWhole(f[start], ps, start)}
           T == {Left(start) : start \in Wrong}
<1>8. Wrong = {}
  <2> SUFFICES ASSUME Wrong # {}
               PROVE  FALSE
    OBVIOUS
  <2>1. \A start \in Nat : Left(start) \in Nat
    BY RatesBehindType DEF ps
  <2>2. PICK b \in T : \A d \in T : b <= d
    <3>1. T \subseteq Nat /\ T # {}
      BY <2>1
    <3> HIDE DEF T
    <3> QED
      BY <3>1, LeastNat
  <2>3. PICK start \in Wrong : b = Left(start)
    BY <2>2
  <2>4. start \in Nat /\ ~BookWhole(f[start], ps, start)
    BY <2>3
  <2>5. ~Done(start)
    BY <2>4, <1>5
  <2>6. Next1(start) \in Nat /\ Left(Next1(start)) < Left(start)
    BY <2>4, <2>5, <1>7
  <2>7. Next1(start) \in Wrong
    BY <2>4, <2>5, <2>6, <1>6
  <2>8. Left(start) <= Left(Next1(start))
    BY <2>2, <2>3, <2>7
  <2> QED
    BY <2>1, <2>4, <2>6, <2>8
<1> QED
  BY <1>2, <1>8 DEF ps

(* Who reads chunk behind chunk of the position book sees every rate once, *)
(* in order, with everything that is offered at it (view_position_book_    *)
(* never cuts a rate in two, and tells the last chunk from the others), in *)
(* every reachable state and for every size of the chunks.                 *)
THEOREM BookIsPaged == Spec => []BookPaged
<1>1. MarketInv => BookPaged
  <2> SUFFICES ASSUME ShapeInv, BookInv, NEW k \in Kind
               PROVE  LET ps       == positions[k]
                          mainders == [id \in DOMAIN ps |-> ps[id].mainder]
                          At(r)    == {id \in DOMAIN ps : ps[id].rate = r}
                          read     == BookRead(k)
                      IN /\ \A i, j \in DOMAIN read : i < j => read[i].rate < read[j].rate
                         /\ Range(read) = {[rate |-> r, quantity |-> SumFunctionOnSet(mainders, At(r))] :
                                             r \in {ps[id].rate : id \in DOMAIN ps}}
    BY DEF MarketInv, BookPaged
  <2> DEFINE ps == positions[k]
             read == BookRead(k)
  <2>1. DOMAIN ps \subseteq 0 .. positions_id_counter - 1 /\ ps \in [DOMAIN ps -> PositionType]
        /\ positions_id_counter \in Nat /\ \A x \in DOMAIN ps : ps[x].rate > 0
    BY MarketNumbers DEF ShapeInv, TypeOK, BookInv, PositionOK, SoundPosition
  <2>2. IsFiniteSet(DOMAIN ps) /\ DOMAIN ps \subseteq Nat
    <3>1. IsFiniteSet(0 .. positions_id_counter - 1)
      BY <2>1, FS_Interval
    <3> QED
      BY <2>1, <3>1, FS_Subset
  <2>3. Book(ps)
    BY <2>1, <2>2 DEF Book, PositionType
  <2>4. BookWhole(read, ps, 0)
    BY <2>3, BookReadIs
  <2>5. RatesBehind(ps, 0) = {ps[id].rate : id \in DOMAIN ps}
    BY <2>1 DEF RatesBehind, Behind
  <2> HIDE DEF read, ps
  <2>6. \A i, j \in DOMAIN read : i < j => read[i].rate < read[j].rate
    BY <2>4 DEF BookWhole, Ascending
  <2>7. Range(read) = {[rate |-> r, quantity |-> SumFunctionOnSet([id \in DOMAIN ps |-> ps[id].mainder],
                                                   {id \in DOMAIN ps : ps[id].rate = r})] :
                        r \in {ps[id].rate : id \in DOMAIN ps}}
    BY <2>4, <2>5 DEF BookWhole, Offered, Mainders, OfRate
  <2> QED
    BY <2>6, <2>7 DEF read, ps
<1> QED
  BY <1>1, MarketInvariant, PTL
=============================================================================
