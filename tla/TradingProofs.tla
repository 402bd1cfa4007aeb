--------------------------- MODULE TradingProofs ---------------------------
(***************************************************************************)
(* Lemmas about trades and about the calls of users, for the proofs of     *)
(* Market and of TradeContract.                                            *)
(*                                                                         *)
(* Two loops of the code are recursive functions of the model: the one     *)
(* over the tiers (TierRun) and the one over the matchees (MatchRun).  For *)
(* each there is a lemma that the function exists (a run of n steps        *)
(* extends to one of n + 1), one that a step keeps an invariant of the     *)
(* loop, and one that therefore its result has it, by the first step that  *)
(* would not.                                                              *)
(***************************************************************************)
EXTENDS Calls, Sums, TLAPS, FiniteSetTheorems

----------------------------------------------------------------------------
(* The calls of users and their locks. *)

(* The inductive invariant of the locks of the users' balances. *)
CallsInv ==
  /\ locks \in [Kind -> SUBSET User]
  /\ calls \in [Call -> CallType]
  /\ OneCallPerBalance

(* The users with a call in progress at the ledger of k. *)
Calling(k) == {calls[c].user : c \in {d \in Call : calls[d].op # "none" /\ calls[d].kind = k}}

LEMMA CallFields ==
  ASSUME NEW call \in CallType
  PROVE  /\ call.op = "none" <=> call = NoCall
         /\ call.op # "none" => /\ call.user \in User /\ call.kind \in Kind
                                /\ call \in [op : {"trade", "transfer"}, user : User, kind : Kind,
                                     quantity : Nat, rate : Nat, answer : {"none", "ok", "err"}]
BY DEF CallType, NoCall

(* A call begins and takes the lock of its user. *)
LEMMA TakeLock ==
  ASSUME CallsInv, NEW c \in Call, NEW user \in User, NEW k \in Kind,
         calls[c] = NoCall, user \notin locks[k],
         NEW call \in CallType, call.op # "none", call.user = user, call.kind = k,
         locks' = [locks EXCEPT ![k] = @ \cup {user}], calls' = [calls EXCEPT ![c] = call]
  PROVE  CallsInv'
<1>1. locks' \in [Kind -> SUBSET User] /\ calls' \in [Call -> CallType]
  BY DEF CallsInv
<1>2. calls[c].op = "none"
  BY DEF NoCall
<1>3. calls'[c] = call /\ \A d \in Call : d # c => calls'[d] = calls[d]
  BY DEF CallsInv
<1>4. \A j \in Kind : locks'[j] = IF j = k THEN locks[j] \cup {user} ELSE locks[j]
  BY DEF CallsInv
<1>5. \A j \in Kind : locks[j] = Calling(j)
  BY DEF CallsInv, OneCallPerBalance, Calling
<1>6. \A j \in Kind : locks'[j] = Calling(j)'
  <2> SUFFICES ASSUME NEW j \in Kind
               PROVE  locks'[j] = {calls'[e].user : e \in
                                    {d \in Call : calls'[d].op # "none" /\ calls'[d].kind = j}}
    BY DEF Calling
  <2>1. CASE j = k
    BY <1>2, <1>3, <1>4, <1>5, <2>1 DEF Calling
  <2>2. CASE j # k
    BY <1>2, <1>3, <1>4, <1>5, <2>2 DEF Calling
  <2> QED
    BY <2>1, <2>2
<1>7. \A d \in Call : calls[d].op # "none" /\ calls[d].kind = k => calls[d].user # user
  BY <1>5 DEF Calling
<1>8. \A d, e \in Call :
        /\ calls'[d].op # "none" /\ calls'[e].op # "none"
        /\ calls'[d].kind = calls'[e].kind /\ calls'[d].user = calls'[e].user
        => d = e
  <2> SUFFICES ASSUME NEW d \in Call, NEW e \in Call,
                      calls'[d].op # "none", calls'[e].op # "none",
                      calls'[d].kind = calls'[e].kind, calls'[d].user = calls'[e].user, d # e
               PROVE  FALSE
    OBVIOUS
  <2>1. CASE d # c /\ e # c
    BY <1>3, <2>1 DEF CallsInv, OneCallPerBalance
  <2>2. CASE d = c
    BY <1>3, <1>7, <2>2
  <2>3. CASE e = c
    BY <1>3, <1>7, <2>3
  <2> QED
    BY <2>1, <2>2, <2>3
<1> QED
  BY <1>1, <1>6, <1>8 DEF CallsInv, OneCallPerBalance, Calling

(* A call ends and gives its lock back. *)
LEMMA ReleaseLock ==
  ASSUME CallsInv, NEW c \in Call, calls[c].op # "none", CallEnds(c)
  PROVE  CallsInv'
<1>1. PICK k \in Kind, user \in User : calls[c].kind = k /\ calls[c].user = user
  BY CallFields DEF CallsInv
<1>2. locks' = [locks EXCEPT ![k] = @ \ {user}] /\ calls' = [calls EXCEPT ![c] = NoCall]
  BY <1>1 DEF CallEnds
<1>3. locks' \in [Kind -> SUBSET User] /\ calls' \in [Call -> CallType]
  BY <1>2 DEF CallsInv, CallType
<1>4. calls'[c].op = "none" /\ \A d \in Call : d # c => calls'[d] = calls[d]
  BY <1>2 DEF CallsInv, NoCall
<1>5. \A j \in Kind : locks'[j] = IF j = k THEN locks[j] \ {user} ELSE locks[j]
  BY <1>2 DEF CallsInv
<1>6. \A j \in Kind : locks[j] = Calling(j)
  BY DEF CallsInv, OneCallPerBalance, Calling
<1>7. \A d \in Call : d # c /\ calls[d].op # "none" /\ calls[d].kind = k => calls[d].user # user
  BY <1>1 DEF CallsInv, OneCallPerBalance
<1>8. \A j \in Kind : locks'[j] = Calling(j)'
  <2> SUFFICES ASSUME NEW j \in Kind
               PROVE  locks'[j] = {calls'[e].user : e \in
                                    {d \in Call : calls'[d].op # "none" /\ calls'[d].kind = j}}
    BY DEF Calling
  <2>1. CASE j = k
    <3>1. \A d \in Call : (calls'[d].op # "none" /\ calls'[d].kind = j)
                         <=> (d # c /\ calls[d].op # "none" /\ calls[d].kind = j)
      BY <1>4
    <3>2. \A d \in Call : calls'[d].op # "none" => calls'[d].user = calls[d].user
      BY <1>4
    <3>3. locks'[j] = {calls[e].user : e \in
                         {d \in Call : calls[d].op # "none" /\ calls[d].kind = j}} \ {user}
      BY <1>5, <1>6, <2>1 DEF Calling
    <3>4. \A u : u \in locks'[j] <=> \E e \in Call : calls[e].op # "none" /\ calls[e].kind = j
                                                  /\ calls[e].user = u /\ u # user
      BY <3>3
    <3>5. \A u : u \in locks'[j] <=> \E e \in Call : calls'[e].op # "none" /\ calls'[e].kind = j
                                                  /\ calls'[e].user = u
      <4> TAKE u
      <4>1. ASSUME u \in locks'[j]
            PROVE  \E e \in Call : calls'[e].op # "none" /\ calls'[e].kind = j /\ calls'[e].user = u
        <5>1. PICK e \in Call : calls[e].op # "none" /\ calls[e].kind = j
                               /\ calls[e].user = u /\ u # user
          BY <3>4, <4>1
        <5>2. e # c
          BY <1>1, <5>1
        <5> QED
          BY <3>1, <3>2, <5>1, <5>2
      <4>2. ASSUME NEW e \in Call, calls'[e].op # "none", calls'[e].kind = j, calls'[e].user = u
            PROVE  u \in locks'[j]
        <5>1. calls[e].op # "none" /\ calls[e].kind = j /\ calls[e].user = u /\ e # c
          BY <3>1, <3>2, <4>2
        <5>2. u # user
          BY <1>7, <2>1, <5>1
        <5> QED
          BY <3>4, <5>1, <5>2
      <4> QED
        BY <4>1, <4>2
    <3> DEFINE callers == {calls'[e].user : e \in
                             {d \in Call : calls'[d].op # "none" /\ calls'[d].kind = j}}
    <3>6. \A u : u \in callers <=> u \in locks'[j]
      BY <3>5
    <3> HIDE DEF callers
    <3>7. locks'[j] = locks[j] \ {user}
      BY <1>5, <2>1
    <3>8. locks[j] \ {user} = callers
      <4>1. locks[j] \ {user} \subseteq callers /\ callers \subseteq locks[j] \ {user}
        BY <3>6, <3>7
      <4> QED
        BY <4>1
    <3> QED
      BY <3>7, <3>8 DEF callers
  <2>2. CASE j # k
    <3>1. {d \in Call : calls'[d].op # "none" /\ calls'[d].kind = j}
            = {d \in Call : calls[d].op # "none" /\ calls[d].kind = j}
      BY <1>1, <1>4, <2>2
    <3>2. \A d \in Call : calls'[d].op # "none" => calls'[d].user = calls[d].user
      BY <1>4
    <3>3. locks'[j] = {calls[e].user : e \in
                         {d \in Call : calls[d].op # "none" /\ calls[d].kind = j}}
      BY <1>5, <1>6, <2>2 DEF Calling
    <3> QED
      BY <3>1, <3>2, <3>3
  <2> QED
    BY <2>1, <2>2
<1>9. \A d, e \in Call :
        /\ calls'[d].op # "none" /\ calls'[e].op # "none"
        /\ calls'[d].kind = calls'[e].kind /\ calls'[d].user = calls'[e].user
        => d = e
  BY <1>4 DEF CallsInv, OneCallPerBalance
<1> QED
  BY <1>3, <1>8, <1>9 DEF CallsInv, OneCallPerBalance, Calling

(* A ledger's answer changes neither the user nor the kind of a call. *)
LEMMA AnswerCall ==
  ASSUME CallsInv, NEW c \in Call, calls[c].op # "none", NEW answer \in {"ok", "err"},
         calls' = [calls EXCEPT ![c].answer = answer], UNCHANGED locks
  PROVE  CallsInv'
<1> DEFINE call == [calls[c] EXCEPT !.answer = answer]
<1>1. /\ call \in CallType /\ call.op = calls[c].op
      /\ call.user = calls[c].user /\ call.kind = calls[c].kind
  BY CallFields DEF CallsInv, CallType
<1>2. calls' = [calls EXCEPT ![c] = call]
  OBVIOUS
<1> HIDE DEF call
<1>3. /\ calls' \in [Call -> CallType]
      /\ \A d \in Call : /\ calls'[d].op = calls[d].op /\ calls'[d].user = calls[d].user
                         /\ calls'[d].kind = calls[d].kind
  BY <1>1, <1>2 DEF CallsInv
<1>4. OneCallPerBalance'
  BY <1>3 DEF CallsInv, OneCallPerBalance
<1> QED
  BY <1>3, <1>4 DEF CallsInv

LEMMA SameCalls ==
  ASSUME CallsInv, UNCHANGED <<locks, calls>>
  PROVE  CallsInv'
BY DEF CallsInv, OneCallPerBalance

(* The quantities of calls that the ledger has taken in. *)
PaidCallsIn(cs, k) == {d \in Call : cs[d].op = "trade" /\ cs[d].kind = k /\ cs[d].answer = "ok"}
PaidSum(cs, k) == SumFunction([c \in PaidCallsIn(cs, k) |-> cs[c].quantity])

LEMMA PaidInIs == \A k : PaidIn(k) = PaidSum(calls, k)
BY DEF PaidIn, PaidSum, PaidCallsIn

LEMMA PaidSumType ==
  ASSUME NEW cs \in [Call -> CallType], IsFiniteSet({c \in Call : cs[c].op # "none"}), NEW k \in Kind
  PROVE  /\ PaidSum(cs, k) \in Nat /\ IsFiniteSet(PaidCallsIn(cs, k))
         /\ \A c \in PaidCallsIn(cs, k) : cs[c].quantity \in Nat
<1> DEFINE f == [c \in PaidCallsIn(cs, k) |-> cs[c].quantity]
<1>1. IsFiniteSet(PaidCallsIn(cs, k))
  <2>1. PaidCallsIn(cs, k) \in SUBSET {c \in Call : cs[c].op # "none"}
    BY DEF PaidCallsIn
  <2> QED
    BY <2>1, FS_Subset
<1>2. \A c \in PaidCallsIn(cs, k) : cs[c].quantity \in Nat
  <2> TAKE c \in PaidCallsIn(cs, k)
  <2>1. cs[c] \in CallType /\ cs[c].op # "none"
    BY DEF PaidCallsIn
  <2>2. cs[c] \in [op : {"trade", "transfer"}, user : User, kind : Kind,
                   quantity : Nat, rate : Nat, answer : {"none", "ok", "err"}]
    BY <2>1, CallFields
  <2> QED
    BY <2>2
<1>3. DOMAIN f = PaidCallsIn(cs, k) /\ \A c \in DOMAIN f : f[c] \in Nat /\ f[c] \in Int
  BY <1>2
<1>4. PaidSum(cs, k) = SumFunction(f)
  BY DEF PaidSum
<1> HIDE DEF f
<1>5. SumFunction(f) \in Nat
  BY <1>1, <1>3, SumType
<1> QED
  BY <1>1, <1>2, <1>4, <1>5

(* One call changes. *)
LEMMA PaidSumAt ==
  ASSUME NEW cs \in [Call -> CallType], NEW cs2 \in [Call -> CallType], NEW c \in Call, NEW k \in Kind,
         IsFiniteSet({d \in Call : cs[d].op # "none"}), IsFiniteSet({d \in Call : cs2[d].op # "none"}),
         \A d \in Call : d # c => cs2[d] = cs[d]
  PROVE  PaidSum(cs2, k) = PaidSum(cs, k) - (IF c \in PaidCallsIn(cs, k) THEN cs[c].quantity ELSE 0)
                                          + (IF c \in PaidCallsIn(cs2, k) THEN cs2[c].quantity ELSE 0)
<1> DEFINE f == [d \in PaidCallsIn(cs, k) |-> cs[d].quantity]
           g == [d \in PaidCallsIn(cs2, k) |-> cs2[d].quantity]
<1>1. /\ IsFiniteSet(PaidCallsIn(cs, k)) /\ \A d \in PaidCallsIn(cs, k) : cs[d].quantity \in Nat
  BY PaidSumType
<1>2. \A d \in PaidCallsIn(cs2, k) : cs2[d].quantity \in Nat
  BY PaidSumType
<1>3. PaidCallsIn(cs2, k) \ {c} = PaidCallsIn(cs, k) \ {c}
  BY DEF PaidCallsIn
<1>4. \A d \in PaidCallsIn(cs, k) \ {c} : cs2[d] = cs[d]
  BY DEF PaidCallsIn
<1>5. /\ DOMAIN f = PaidCallsIn(cs, k) /\ DOMAIN g = PaidCallsIn(cs2, k)
      /\ \A d \in DOMAIN f : f[d] \in Int
      /\ \A d \in DOMAIN g : g[d] \in Int
      /\ \A d \in DOMAIN f \ {c} : f[d] = g[d]
      /\ c \in DOMAIN f => f[c] = cs[c].quantity
      /\ c \in DOMAIN g => g[c] = cs2[c].quantity
  BY <1>1, <1>2, <1>3, <1>4
<1>6. PaidSum(cs, k) = SumFunction(f) /\ PaidSum(cs2, k) = SumFunction(g)
  BY DEF PaidSum
<1> HIDE DEF f, g
<1>7. IsFiniteSet(DOMAIN f) /\ DOMAIN g \ {c} = DOMAIN f \ {c}
  BY <1>1, <1>3, <1>5
<1>8. SumFunction(g) = SumFunction(f) - (IF c \in DOMAIN f THEN f[c] ELSE 0)
                                      + (IF c \in DOMAIN g THEN g[c] ELSE 0)
  <2>1. /\ \A d \in DOMAIN f : f[d] \in Int
        /\ \A d \in DOMAIN g : g[d] \in Int
        /\ \A d \in DOMAIN f \ {c} : f[d] = g[d]
    BY <1>5
  <2> QED
    BY <1>7, <2>1, SumAt
<1> QED
  BY <1>5, <1>6, <1>8

----------------------------------------------------------------------------
(* Sets with one element more or less. *)

(* One element comes or goes. *)
LEMMA CardAt ==
  ASSUME NEW S, NEW T, NEW c, IsFiniteSet(S), T \ {c} = S \ {c}
  PROVE  /\ IsFiniteSet(T) /\ Cardinality(S) \in Nat /\ Cardinality(T) \in Nat
         /\ Cardinality(T) = Cardinality(S) - (IF c \in S THEN 1 ELSE 0) + (IF c \in T THEN 1 ELSE 0)
<1> DEFINE R == S \ {c}
<1>1. IsFiniteSet(R) /\ Cardinality(R) = IF c \in S THEN Cardinality(S) - 1 ELSE Cardinality(S)
  BY FS_RemoveElement
<1>2. c \notin R /\ (c \in T => T = R \cup {c}) /\ (c \notin T => T = R)
  OBVIOUS
<1>3. Cardinality(S) \in Nat /\ Cardinality(R) \in Nat
  BY <1>1, FS_CardinalityType
<1> HIDE DEF R
<1>4. IsFiniteSet(R \cup {c}) /\ Cardinality(R \cup {c}) = Cardinality(R) + 1
  BY <1>1, <1>2, FS_AddElement
<1>5. CASE c \in T
  <2>1. IsFiniteSet(T) /\ Cardinality(T) = Cardinality(R) + 1
    BY <1>2, <1>4, <1>5
  <2> QED
    BY <1>1, <1>3, <1>5, <2>1
<1>6. CASE c \notin T
  <2>1. IsFiniteSet(T) /\ Cardinality(T) = Cardinality(R)
    BY <1>1, <1>2, <1>6
  <2> QED
    BY <1>1, <1>3, <1>6, <2>1
<1> QED
  BY <1>5, <1>6

(* The elements F of D move to V. *)
LEMMA CardMoves ==
  ASSUME NEW D, NEW V, NEW F, IsFiniteSet(D), IsFiniteSet(V), F \subseteq D, F \cap V = {}
  PROVE  /\ Cardinality(D) \in Nat /\ Cardinality(V) \in Nat
         /\ Cardinality(D \ F) \in Nat /\ Cardinality(V \cup F) \in Nat
         /\ Cardinality(D \ F) <= Cardinality(D)
         /\ Cardinality(V \cup F) + Cardinality(D \ F) = Cardinality(V) + Cardinality(D)
<1>1. IsFiniteSet(F) /\ D \cap F = F /\ V \cap F = {}
  <2>1. F \in SUBSET D
    OBVIOUS
  <2> QED
    BY <2>1, FS_Subset
<1>2. IsFiniteSet(D \ F) /\ Cardinality(D \ F) = Cardinality(D) - Cardinality(F)
  BY <1>1, FS_Difference
<1>3. IsFiniteSet(V \cup F) /\ Cardinality(V \cup F) = Cardinality(V) + Cardinality(F) - 0
  BY <1>1, FS_Union, FS_EmptySet
<1>4. /\ Cardinality(D) \in Nat /\ Cardinality(V) \in Nat /\ Cardinality(F) \in Nat
      /\ Cardinality(D \ F) \in Nat /\ Cardinality(V \cup F) \in Nat
  BY <1>1, <1>2, <1>3, FS_CardinalityType
<1> QED
  BY <1>2, <1>3, <1>4

(* The maps have both kinds, and the calls in progress are finitely many,  *)
(* with an id left for each trade.                                         *)
Active == {c \in Call : calls[c].op # "none"}
TradeCalls == {d \in Call : calls[d].op = "trade"}
(* Calls in progress at a ledger: each has a lock of its own. *)
CallsAt(k) == {d \in Call : calls[d].op # "none" /\ calls[d].kind = k}

LEMMA CallersHaveLocks ==
  ASSUME CallsInv, IsFiniteSet(Active), NEW k \in Kind, NEW S, S \subseteq CallsAt(k)
  PROVE  Cardinality(locks[k]) \in Nat /\ Cardinality(S) <= Cardinality(locks[k])
<1> DEFINE W == CallsAt(k)
           L == locks[k]
           f == [c \in S |-> calls[c].user]
           g == [c \in W |-> calls[c].user]
<1>1. L = {calls[c].user : c \in W}
  BY DEF CallsInv, OneCallPerBalance, CallsAt
<1>2. IsFiniteSet(W)
  <2>1. W \in SUBSET Active
    BY DEF Active, CallsAt
  <2> HIDE DEF W
  <2> QED
    BY <2>1, FS_Subset
<1>3. \A c, d \in W : calls[c].user = calls[d].user => c = d
  BY DEF CallsInv, OneCallPerBalance, CallsAt
<1>4. g \in Surjection(W, L)
  BY <1>1 DEF Surjection
<1>5. f \in Injection(S, L)
  <2>1. f \in [S -> L]
    BY <1>1
  <2>2. DOMAIN f = S /\ \A c \in S : f[c] = calls[c].user
    OBVIOUS
  <2> HIDE DEF f, W, L
  <2>3. \A c, d \in S : f[c] = f[d] => c = d
    BY <1>3, <2>2 DEF W
  <2> QED
    BY <2>1, <2>2, <2>3 DEF Injection, IsInjective
<1> HIDE DEF W, L, f, g
<1>7. IsFiniteSet(L)
  BY <1>2, <1>4, FS_Surjection
<1>8. Cardinality(S) <= Cardinality(L) /\ Cardinality(L) \in Nat
  BY <1>5, <1>7, FS_Injection, FS_CardinalityType
<1> QED
  BY <1>8 DEF L

----------------------------------------------------------------------------
(* Division *)

LEMMA Quotient ==
  ASSUME NEW m \in Nat, NEW r \in Nat, r > 0
  PROVE  /\ m \div r \in Nat /\ (m \div r) * r <= m /\ m < (m \div r) * r + r
         /\ m < r => m \div r = 0
OBVIOUS

LEMMA LessOf ==
  ASSUME NEW a \in Nat, NEW b \in Nat, NEW c \in Nat, a <= b
  PROVE  a * c <= b * c
OBVIOUS

LEMMA QuotientGoesDown ==
  ASSUME NEW m \in Nat, NEW r \in Nat, NEW s \in Nat, r > 0, r <= s
  PROVE  m \div s <= m \div r
<1> DEFINE a == m \div s
           b == m \div r
<1>1. a \in Nat /\ b \in Nat /\ a * s <= m /\ m < b * r + r
  BY Quotient
<1> HIDE DEF a, b
<1>2. a * r <= a * s
  <2>1. a \in Nat /\ r * a <= s * a /\ a * r = r * a /\ a * s = s * a
    BY <1>1, LessOf
  <2> QED
    BY <2>1
<1>3. ASSUME a > b PROVE FALSE
  <2>1. a >= b + 1
    BY <1>1, <1>3
  <2>2. (b + 1) * r <= a * r
    BY <1>1, <2>1, LessOf
  <2>3. (b + 1) * r = b * r + r
    BY <1>1
  <2>4. a * r \in Nat /\ a * s \in Nat /\ b * r \in Nat
    BY <1>1
  <2> QED
    BY <1>1, <1>2, <2>2, <2>3, <2>4
<1>4. a <= b
  BY <1>1, <1>3
<1> QED
  BY <1>4 DEF a, b

----------------------------------------------------------------------------
(* The trade fee: the loop over the tiers. *)

IsTierRun(f, volume, trade, n) ==
  f = [i \in 0 .. n |-> IF i = 0 THEN [mainder |-> trade, fee |-> 0]
                        ELSE TierStep(volume, trade, Tiers[i], f[i - 1])]

LEMMA TierRunOneMore ==
  ASSUME NEW volume, NEW trade, NEW n \in Nat, NEW f, IsTierRun(f, volume, trade, n)
  PROVE  \E g : IsTierRun(g, volume, trade, n + 1)
<1> DEFINE g == [i \in 0 .. n + 1 |-> IF i = n + 1 THEN TierStep(volume, trade, Tiers[i], f[n])
                                      ELSE f[i]]
<1>1. \A i \in 0 .. n : f[i] = IF i = 0 THEN [mainder |-> trade, fee |-> 0]
                              ELSE TierStep(volume, trade, Tiers[i], f[i - 1])
  BY DEF IsTierRun
<1>2. \A i \in 0 .. n : g[i] = f[i]
  OBVIOUS
<1>3. \A i \in 0 .. n + 1 : g[i] = IF i = 0 THEN [mainder |-> trade, fee |-> 0]
                                  ELSE TierStep(volume, trade, Tiers[i], g[i - 1])
  <2> TAKE i \in 0 .. n + 1
  <2>1. CASE i = n + 1
    <3>1. g[i] = TierStep(volume, trade, Tiers[i], f[n]) /\ i # 0 /\ i - 1 = n
      BY <2>1
    <3>2. g[i - 1] = f[n]
      BY <1>2, <3>1
    <3> QED
      BY <3>1, <3>2
  <2>2. CASE i # n + 1
    <3>1. i \in 0 .. n /\ g[i] = f[i] /\ (i # 0 => i - 1 \in 0 .. n)
      BY <2>2
    <3>2. i # 0 => g[i - 1] = f[i - 1]
      BY <1>2, <3>1
    <3> HIDE DEF g
    <3> QED
      BY <1>1, <3>1, <3>2
  <2> QED
    BY <2>1, <2>2
<1>4. g = [i \in 0 .. n + 1 |-> g[i]]
  OBVIOUS
<1> HIDE DEF g
<1>5. IsTierRun(g, volume, trade, n + 1)
  BY <1>3, <1>4 DEF IsTierRun
<1> QED
  BY <1>5

LEMMA TierRunExists ==
  ASSUME NEW volume, NEW trade
  PROVE  \A n \in Nat : \E f : IsTierRun(f, volume, trade, n)
<1> DEFINE T == {n \in Nat : ~ \E f : IsTierRun(f, volume, trade, n)}
<1>1. 0 \notin T
  <2>1. IsTierRun([i \in {0} |-> [mainder |-> trade, fee |-> 0]], volume, trade, 0)
    BY DEF IsTierRun
  <2> QED
    BY <2>1
<1>2. ASSUME T # {} PROVE FALSE
  <2>1. PICK m \in T : \A n \in T : m <= n
    <3>1. T \subseteq Nat
      OBVIOUS
    <3> HIDE DEF T
    <3> QED
      BY <3>1, <1>2, LeastNat
  <2>2. m - 1 \in Nat /\ m - 1 \notin T /\ (m - 1) + 1 = m
    BY <1>1, <2>1
  <2> QED
    BY <2>1, <2>2, TierRunOneMore
<1> QED
  BY <1>2

LEMMA TierRunIs ==
  ASSUME NEW volume, NEW trade
  PROVE  /\ TierRun(volume, trade)[0] = [mainder |-> trade, fee |-> 0]
         /\ \A i \in 1 .. Len(Tiers) :
              TierRun(volume, trade)[i] =
                TierStep(volume, trade, Tiers[i], TierRun(volume, trade)[i - 1])
<1> DEFINE r == CHOOSE f : IsTierRun(f, volume, trade, Len(Tiers))
<1>1. TierRun(volume, trade) = r
  BY DEF TierRun, IsTierRun
<1>2. Len(Tiers) \in Nat
  BY TradeFeeAssumption
<1>3. IsTierRun(r, volume, trade, Len(Tiers))
  BY <1>2, TierRunExists
<1> HIDE DEF r
<1>4. \A i \in 0 .. Len(Tiers) : r[i] = IF i = 0 THEN [mainder |-> trade, fee |-> 0]
                                       ELSE TierStep(volume, trade, Tiers[i], r[i - 1])
  BY <1>3 DEF IsTierRun
<1> QED
  BY <1>1, <1>2, <1>4

(* What a part of a trade pays is less than that part. *)
LEMMA PartFee ==
  ASSUME NEW part \in Nat, NEW rate \in Nat, rate < TenThousand
  PROVE  LET f == (part \div TenThousand) * rate
         IN f \in Nat /\ f <= part /\ (f > 0 => f < part)
<1> DEFINE q == part \div TenThousand
<1>1. TenThousand \in Nat /\ TenThousand > 0
  BY TradeFeeAssumption
<1>2. q \in Nat /\ q * TenThousand <= part
  BY <1>1, Quotient
<1> HIDE DEF q
<1>3. q * rate \in Nat /\ q * rate <= q * TenThousand /\ (q > 0 => q * rate < q * TenThousand)
  <2>1. TenThousand = rate + (TenThousand - rate) /\ TenThousand - rate \in Nat
        /\ TenThousand - rate >= 1
    BY <1>1
  <2>2. q * TenThousand = q * rate + q * (TenThousand - rate)
    BY <1>1, <1>2
  <2>3. q * (TenThousand - rate) \in Nat /\ q * (TenThousand - rate) >= q
    BY <1>2, <2>1
  <2> QED
    BY <1>1, <1>2, <2>2, <2>3
<1>4. q * rate > 0 => q > 0
  BY <1>2
<1> QED
  BY <1>1, <1>2, <1>3, <1>4 DEF q

(* The fee so far and what is left of the trade. *)
FeeSound(trade, st) ==
  /\ st \in [mainder : Nat, fee : Nat] /\ st.fee + st.mainder <= trade
  /\ st.fee > 0 => st.fee + st.mainder < trade

LEMMA TierStepIs ==
  ASSUME NEW volume \in Nat, NEW trade \in Nat, NEW i \in 1 .. Len(Tiers), NEW st,
         FeeSound(trade, st)
  PROVE  FeeSound(trade, TierStep(volume, trade, Tiers[i], st))
<1> DEFINE tier == Tiers[i]
           traded == volume + trade - st.mainder
           part == LesserOf(st.mainder, tier.volume_cycles - traded)
           f == (part \div TenThousand) * tier.rate
           new == TierStep(volume, trade, tier, st)
<1>1. tier.volume_cycles \in Nat /\ tier.rate \in Nat /\ tier.rate < TenThousand
  <2> DEFINE R == [volume_cycles : Nat, rate : Nat]
  <2>1. Tiers \in Seq(R)
    BY TradeFeeAssumption
  <2> HIDE DEF R
  <2>2. tier \in R
    BY <2>1
  <2> QED
    BY <2>2, TradeFeeAssumption DEF R
<1>2. /\ st.mainder \in Nat /\ st.fee \in Nat /\ traded \in Nat
      /\ st.fee + st.mainder <= trade /\ (st.fee > 0 => st.fee + st.mainder < trade)
  BY DEF FeeSound
<1>3. CASE st.mainder = 0 \/ traded + 1 > tier.volume_cycles
  <2>1. new = st
    BY <1>3 DEF TierStep
  <2> QED
    BY <2>1
<1>4. CASE ~(st.mainder = 0 \/ traded + 1 > tier.volume_cycles)
  <2>1. new = [mainder |-> st.mainder - part, fee |-> st.fee + f]
    BY <1>4 DEF TierStep
  <2>2. part \in Nat /\ part <= st.mainder
    <3> DEFINE v == tier.volume_cycles
               t == traded
    <3>1. v \in Nat /\ t \in Nat /\ t + 1 <= v /\ part = LesserOf(st.mainder, v - t)
      BY <1>1, <1>2, <1>4
    <3> HIDE DEF v, t, part
    <3> QED
      BY <1>2, <3>1 DEF LesserOf
  <2> HIDE DEF part, tier
  <2>3. f \in Nat /\ f <= part /\ (f > 0 => f < part)
    BY <1>1, <2>2, PartFee
  <2> HIDE DEF f, new
  <2>4. FeeSound(trade, new)
    <3> DEFINE m == st.mainder
               e == st.fee
    <3>1. new.mainder = m - part /\ new.fee = e + f
      BY <2>1
    <3>2. m \in Nat /\ e \in Nat /\ e + m <= trade /\ (e > 0 => e + m < trade)
      BY <1>2
    <3> HIDE DEF m, e
    <3>3. /\ m - part \in Nat /\ e + f \in Nat
          /\ (e + f) + (m - part) <= trade
          /\ (e + f > 0 => (e + f) + (m - part) < trade)
      <4>1. m - part \in Nat /\ part <= m
        BY <2>2, <3>2 DEF m
      <4> QED
        BY <2>2, <2>3, <3>2, <4>1
    <3>4. new \in [mainder : Nat, fee : Nat]
      BY <2>1, <3>3 DEF m, e
    <3> QED
      BY <3>1, <3>3, <3>4 DEF FeeSound
  <2> QED
    BY <2>4 DEF new, tier
<1> QED
  BY <1>3, <1>4

(* A fee is never as much as the trade. *)
LEMMA FeeIs ==
  ASSUME NEW volume \in Nat, NEW trade \in Nat
  PROVE  /\ calculate_trade_fee(volume, trade) \in Nat
         /\ trade > 0 => calculate_trade_fee(volume, trade) < trade
<1> DEFINE r == TierRun(volume, trade)
           T == {n \in 0 .. Len(Tiers) : ~FeeSound(trade, r[n])}
<1>1. Len(Tiers) \in Nat
  BY TradeFeeAssumption
<1>2. FeeSound(trade, r[0])
  <2>1. r[0] = [mainder |-> trade, fee |-> 0]
    BY TierRunIs
  <2> HIDE DEF r
  <2> QED
    BY <2>1 DEF FeeSound
<1>3. ASSUME T # {} PROVE FALSE
  <2>1. PICK m \in T : \A n \in T : m <= n
    <3>1. T \subseteq Nat
      BY <1>1
    <3> HIDE DEF T
    <3> QED
      BY <3>1, <1>3, LeastNat
  <2>2. m \in 0 .. Len(Tiers) /\ m # 0 /\ ~FeeSound(trade, r[m])
    BY <1>2, <2>1
  <2>3. m - 1 \in 0 .. Len(Tiers) /\ m - 1 \notin T /\ m \in 1 .. Len(Tiers)
    BY <1>1, <2>1, <2>2
  <2>4. FeeSound(trade, r[m - 1])
    BY <2>3
  <2>5. r[m] = TierStep(volume, trade, Tiers[m], r[m - 1])
    BY <2>3, TierRunIs
  <2> HIDE DEF r, T
  <2>6. FeeSound(trade, r[m])
    BY <2>3, <2>4, <2>5, TierStepIs
  <2> QED
    BY <2>2, <2>6
<1>4. FeeSound(trade, r[Len(Tiers)])
  <2>1. Len(Tiers) \in 0 .. Len(Tiers) /\ Len(Tiers) \notin T
    BY <1>1, <1>3
  <2> QED
    BY <2>1
<1>5. calculate_trade_fee(volume, trade) = r[Len(Tiers)].fee
  BY DEF calculate_trade_fee
<1> HIDE DEF r
<1> QED
  BY <1>4, <1>5 DEF FeeSound

----------------------------------------------------------------------------
(* Sequences of the logs of trades. *)

LEMMA LogsAreLogs ==
  ASSUME NEW logs \in Seq(MatchLogType)
  PROVE  /\ Len(logs) \in Nat /\ \A i \in 1 .. Len(logs) : logs[i] \in MatchLogType
         /\ IsFiniteSet(1 .. Len(logs))
BY FS_Interval

LEMMA AppendLog ==
  ASSUME NEW logs \in Seq(MatchLogType), NEW log \in MatchLogType
  PROVE  /\ Append(logs, log) \in Seq(MatchLogType) /\ Len(Append(logs, log)) = Len(logs) + 1
         /\ \A i \in 1 .. Len(logs) : Append(logs, log)[i] = logs[i]
         /\ Append(logs, log)[Len(logs) + 1] = log
         /\ 1 .. Len(logs) + 1 = (1 .. Len(logs)) \cup {Len(logs) + 1}
         /\ Len(logs) + 1 \notin 1 .. Len(logs)
<1> DEFINE L == MatchLogType
<1>1. logs \in Seq(L) /\ log \in L
  OBVIOUS
<1> HIDE DEF L
<1>2. /\ Append(logs, log) \in Seq(L) /\ Len(Append(logs, log)) = Len(logs) + 1
      /\ \A i \in 1 .. Len(logs) : Append(logs, log)[i] = logs[i]
      /\ Append(logs, log)[Len(logs) + 1] = log
  BY <1>1
<1>3. Len(logs) \in Nat
  BY <1>1
<1>4. /\ 1 .. Len(logs) + 1 = (1 .. Len(logs)) \cup {Len(logs) + 1}
      /\ Len(logs) + 1 \notin 1 .. Len(logs)
  BY <1>3
<1> QED
  BY <1>2, <1>4 DEF L

LEMMA ConcatAppend ==
  ASSUME NEW L, NEW s \in Seq(L), NEW t \in Seq(L), NEW x \in L
  PROVE  /\ s \o t \in Seq(L) /\ s \o Append(t, x) = Append(s \o t, x) /\ s \o <<>> = s
         /\ Len(s \o t) = Len(s) + Len(t)
<1>1. s \o t \in Seq(L) /\ Append(t, x) \in Seq(L) /\ Len(s \o t) = Len(s) + Len(t)
  OBVIOUS
<1>2. s \o Append(t, x) = Append(s \o t, x)
  <2>1. s \o Append(t, x) \in Seq(L) /\ Append(s \o t, x) \in Seq(L)
    BY <1>1
  <2>2. Len(s \o Append(t, x)) = Len(Append(s \o t, x))
    BY <1>1
  <2>3. \A i \in 1 .. Len(s \o Append(t, x)) : (s \o Append(t, x))[i] = Append(s \o t, x)[i]
    BY <1>1
  <2> QED
    BY <2>1, <2>2, <2>3
<1>3. s \o <<>> = s
  OBVIOUS
<1> QED
  BY <1>1, <1>2, <1>3

----------------------------------------------------------------------------
(* The loop of match_trades: it goes over all the matchees. *)

LEMMA Ordered ==
  ASSUME NEW S \in SUBSET Nat, IsFiniteSet(S)
  PROVE  /\ Cardinality(S) \in Nat /\ Len(InOrder(S)) = Cardinality(S)
         /\ \A i \in 1 .. Cardinality(S) : InOrder(S)[i] \in S
         /\ \A x \in S : \E i \in 1 .. Cardinality(S) : InOrder(S)[i] = x
         /\ \A i, j \in 1 .. Cardinality(S) : InOrder(S)[i] = InOrder(S)[j] => i = j
<1> DEFINE Below(x) == {y \in S : y < x}
           n == Cardinality(S)
           rank == [x \in S |-> Cardinality(Below(x))]
<1>1. n \in Nat
  BY FS_CardinalityType
<1>2. \A x : IsFiniteSet(Below(x)) /\ Cardinality(Below(x)) \in Nat
  <2> TAKE x
  <2>1. Below(x) \in SUBSET S
    OBVIOUS
  <2> HIDE DEF Below
  <2> QED
    BY <2>1, FS_Subset, FS_CardinalityType
<1>3. ASSUME NEW x \in S
      PROVE  rank[x] \in 0 .. n - 1
  <2>1. Below(x) \in SUBSET (S \ {x})
    OBVIOUS
  <2>2. IsFiniteSet(S \ {x}) /\ Cardinality(S \ {x}) = n - 1
    BY FS_RemoveElement
  <2>3. rank[x] = Cardinality(Below(x))
    OBVIOUS
  <2> HIDE DEF Below, n, rank
  <2>4. Cardinality(Below(x)) <= n - 1
    BY <2>1, <2>2, FS_Subset
  <2> QED
    BY <1>1, <1>2, <2>3, <2>4
<1>4. ASSUME NEW x \in S, NEW y \in S, x < y
      PROVE  rank[x] < rank[y]
  <2>1. Below(x) \cup {x} \in SUBSET Below(y) /\ x \notin Below(x)
    <3>1. \A z \in S : z \in Nat /\ (z < x => z < y)
      BY <1>4
    <3>2. ~(x < x)
      BY <3>1
    <3> QED
      BY <1>4, <3>1, <3>2
  <2>2. rank[x] = Cardinality(Below(x)) /\ rank[y] = Cardinality(Below(y))
    OBVIOUS
  <2> HIDE DEF Below, rank
  <2>3. Cardinality(Below(x) \cup {x}) = Cardinality(Below(x)) + 1
    BY <1>2, <2>1, FS_AddElement
  <2>4. Cardinality(Below(x) \cup {x}) <= Cardinality(Below(y))
    BY <1>2, <2>1, FS_Subset
  <2> QED
    BY <1>2, <2>2, <2>3, <2>4
<1>5. \A x, y \in S : rank[x] = rank[y] => x = y
  <2> SUFFICES ASSUME NEW x \in S, NEW y \in S, rank[x] = rank[y], x # y
               PROVE  FALSE
    OBVIOUS
  <2>1. rank[x] \in Nat /\ rank[y] \in Nat
    BY <1>1, <1>3
  <2>2. x < y \/ y < x
    OBVIOUS
  <2> HIDE DEF rank
  <2> QED
    BY <1>4, <2>1, <2>2
<1>6. \A i \in 0 .. n - 1 : \E x \in S : rank[x] = i
  <2>1. rank \in [S -> 0 .. n - 1]
    BY <1>3
  <2> HIDE DEF rank, n
  <2>2. rank \in Injection(S, 0 .. n - 1)
    BY <1>5, <2>1 DEF Injection, IsInjective
  <2>3. IsFiniteSet(0 .. n - 1) /\ Cardinality(0 .. n - 1) = n
    BY <1>1, FS_Interval
  <2>4. rank \in Surjection(S, 0 .. n - 1)
    BY <2>2, <2>3, FS_Injection DEF n
  <2> QED
    BY <2>4 DEF Surjection
<1>7. ASSUME NEW i \in 1 .. n
      PROVE  InOrder(S)[i] \in S /\ rank[InOrder(S)[i]] = i - 1
  <2>1. i - 1 \in 0 .. n - 1
    BY <1>1
  <2>2. \E x \in S : Cardinality(Below(x)) = i - 1
    BY <1>6, <2>1
  <2>3. InOrder(S)[i] = CHOOSE x \in S : Cardinality(Below(x)) = i - 1
    BY DEF InOrder
  <2>4. InOrder(S)[i] \in S /\ Cardinality(Below(InOrder(S)[i])) = i - 1
    <3> HIDE DEF Below
    <3> QED
      BY <2>2, <2>3
  <2> QED
    BY <2>4
<1>8. ASSUME NEW x \in S
      PROVE  \E i \in 1 .. n : InOrder(S)[i] = x
  <2>1. rank[x] + 1 \in 1 .. n
    BY <1>1, <1>3
  <2>2. rank[InOrder(S)[rank[x] + 1]] = rank[x] /\ InOrder(S)[rank[x] + 1] \in S
    <3> HIDE DEF rank
    <3>1. rank[x] \in Int
      BY <1>1, <1>3
    <3> QED
      BY <1>7, <2>1, <3>1
  <2> HIDE DEF rank
  <2> QED
    BY <1>5, <2>1, <2>2
<1>9. Len(InOrder(S)) = n
  BY <1>1 DEF InOrder
<1>10. \A i, j \in 1 .. n : InOrder(S)[i] = InOrder(S)[j] => i = j
  <2> TAKE i \in 1 .. n, j \in 1 .. n
  <2> HAVE InOrder(S)[i] = InOrder(S)[j]
  <2>1. i - 1 = j - 1
    <3> HIDE DEF rank
    <3> QED
      BY <1>7
  <2> QED
    BY <1>1, <2>1
<1> QED
  BY <1>1, <1>7, <1>8, <1>9, <1>10

IsMatchRun(f, first, k, id, queue, limit, ids, n) ==
  f = [i \in 0 .. n |-> IF i = 0 THEN first ELSE MatchStep(k, id, queue, limit, f[i - 1], ids[i])]

LEMMA MatchRunOneMore ==
  ASSUME NEW first, NEW k, NEW id, NEW queue, NEW limit, NEW ids, NEW n \in Nat, NEW f,
         IsMatchRun(f, first, k, id, queue, limit, ids, n)
  PROVE  \E g : IsMatchRun(g, first, k, id, queue, limit, ids, n + 1)
<1> DEFINE g == [i \in 0 .. n + 1 |-> IF i = n + 1 THEN MatchStep(k, id, queue, limit, f[n], ids[i])
                                      ELSE f[i]]
<1>1. \A i \in 0 .. n : f[i] = IF i = 0 THEN first ELSE MatchStep(k, id, queue, limit, f[i - 1], ids[i])
  BY DEF IsMatchRun
<1>2. \A i \in 0 .. n : g[i] = f[i]
  OBVIOUS
<1>3. \A i \in 0 .. n + 1 :
        g[i] = IF i = 0 THEN first ELSE MatchStep(k, id, queue, limit, g[i - 1], ids[i])
  <2> TAKE i \in 0 .. n + 1
  <2>1. CASE i = n + 1
    <3>1. g[i] = MatchStep(k, id, queue, limit, f[n], ids[i]) /\ i # 0 /\ i - 1 = n
      BY <2>1
    <3>2. g[i - 1] = f[n]
      BY <1>2, <3>1
    <3> QED
      BY <3>1, <3>2
  <2>2. CASE i # n + 1
    <3>1. i \in 0 .. n /\ g[i] = f[i] /\ (i # 0 => i - 1 \in 0 .. n)
      BY <2>2
    <3>2. i # 0 => g[i - 1] = f[i - 1]
      BY <1>2, <3>1
    <3> HIDE DEF g
    <3> QED
      BY <1>1, <3>1, <3>2
  <2> QED
    BY <2>1, <2>2
<1>4. g = [i \in 0 .. n + 1 |-> g[i]]
  OBVIOUS
<1> HIDE DEF g
<1>5. IsMatchRun(g, first, k, id, queue, limit, ids, n + 1)
  BY <1>3, <1>4 DEF IsMatchRun
<1> QED
  BY <1>5

LEMMA MatchRunExists ==
  ASSUME NEW first, NEW k, NEW id, NEW queue, NEW limit, NEW ids
  PROVE  \A n \in Nat : \E f : IsMatchRun(f, first, k, id, queue, limit, ids, n)
<1> DEFINE T == {n \in Nat : ~ \E f : IsMatchRun(f, first, k, id, queue, limit, ids, n)}
<1>1. 0 \notin T
  <2>1. IsMatchRun([i \in {0} |-> first], first, k, id, queue, limit, ids, 0)
    BY DEF IsMatchRun
  <2> QED
    BY <2>1
<1>2. ASSUME T # {} PROVE FALSE
  <2>1. PICK m \in T : \A n \in T : m <= n
    <3>1. T \subseteq Nat
      OBVIOUS
    <3> HIDE DEF T
    <3> QED
      BY <3>1, <1>2, LeastNat
  <2>2. m - 1 \in Nat /\ m - 1 \notin T /\ (m - 1) + 1 = m
    BY <1>1, <2>1
  <2> QED
    BY <2>1, <2>2, MatchRunOneMore
<1> QED
  BY <1>2

FirstState(matcher, matchees) ==
  [matcher |-> matcher, matchees |-> matchees, logs |-> <<>>, filled |-> {},
   stopped |-> FALSE, matcher_filled |-> FALSE, cut |-> FALSE]

LEMMA MatchRunIs ==
  ASSUME NEW k, NEW id, NEW matcher, NEW matchees, NEW queue, NEW limit,
         DOMAIN matchees \in SUBSET Nat, IsFiniteSet(DOMAIN matchees)
  PROVE  LET D   == DOMAIN matchees
             run == MatchRun(k, id, matcher, matchees, queue, limit)
         IN /\ run[0] = FirstState(matcher, matchees)
            /\ \A i \in 1 .. Cardinality(D) :
                 run[i] = MatchStep(k, id, queue, limit, run[i - 1], InOrder(D)[i])
<1> DEFINE D == DOMAIN matchees
           ids == InOrder(D)
           n == Cardinality(D)
           r == CHOOSE f : IsMatchRun(f, FirstState(matcher, matchees), k, id, queue, limit, ids, n)
<1>1. n \in Nat /\ Len(ids) = n
  BY Ordered
<1>2. MatchRun(k, id, matcher, matchees, queue, limit) = r
  <2>1. MatchRun(k, id, matcher, matchees, queue, limit) =
          CHOOSE f : IsMatchRun(f, FirstState(matcher, matchees), k, id, queue, limit, ids, Len(ids))
    BY DEF MatchRun, IsMatchRun, FirstState
  <2> HIDE DEF n, ids
  <2> QED
    BY <1>1, <2>1
<1> HIDE DEF n, ids
<1>3. IsMatchRun(r, FirstState(matcher, matchees), k, id, queue, limit, ids, n)
  BY <1>1, MatchRunExists
<1> HIDE DEF r
<1>4. \A i \in 0 .. n : r[i] = IF i = 0 THEN FirstState(matcher, matchees)
                              ELSE MatchStep(k, id, queue, limit, r[i - 1], ids[i])
  BY <1>3 DEF IsMatchRun
<1> QED
  BY <1>1, <1>2, <1>4 DEF n, ids

----------------------------------------------------------------------------
(* One match. *)

(* What a trade takes of a position of kind k. *)
Amount(k, tokens, rate) == IF k = "Cycles" THEN tokens * rate ELSE tokens

SoundPosition(p) == p \in PositionType /\ p.rate > 0 /\ p.mainder <= p.quantity

(* It has enough for a match at its own rate. *)
Worth(k, p) == current_position_tokens(k, p, p.rate) >= minimum_match("Token")

(* Position p is q after a trade. *)
Took(k, p, q, tokens, rate) ==
  /\ SoundPosition(q)
  /\ q.positor = p.positor /\ q.quantity = p.quantity /\ q.rate = p.rate
  /\ p.mainder = q.mainder + Amount(k, tokens, rate)
  /\ q.rates_sum = p.rates_sum + rate * Amount(k, tokens, rate)
  /\ q.fill = IF k = "Cycles" THEN p.fill + tokens ELSE p.fill
  /\ q.fees = p.fees + FeeAt(k, FeeCycles(k, p, tokens, rate), rate)

LEMMA Kinds == /\ \A k \in Kind : Opposite(k) \in Kind /\ Opposite(k) # k /\ Opposite(Opposite(k)) = k
               /\ \A k, j \in Kind : j = k \/ j = Opposite(k)
BY DEF Kind, Opposite

LEMMA MinimumMatch == ASSUME NEW k \in Kind PROVE minimum_match(k) \in Nat /\ minimum_match(k) > 0
BY TradeFeeAssumption, MatchingAssumption DEF minimum_match

LEMMA FeeOfPosition ==
  ASSUME NEW k \in Kind, NEW p, SoundPosition(p), NEW tokens \in Nat, NEW rate \in Nat, rate > 0
  PROVE  LET fee == FeeCycles(k, p, tokens, rate)
         IN /\ fee \in Nat /\ FeeAt(k, fee, rate) \in Nat
            /\ tokens > 0 => /\ fee < tokens * rate
                             /\ FeeAt(k, fee, rate) < Amount(Opposite(k), tokens, rate)
<1> DEFINE fee == FeeCycles(k, p, tokens, rate)
           volume == IF k = "Cycles" THEN p.quantity - p.mainder ELSE p.rates_sum
<1>1. volume \in Nat /\ tokens * rate \in Nat /\ (tokens > 0 => tokens * rate > 0)
  BY DEF SoundPosition, PositionType
<1>2. fee = calculate_trade_fee(volume, tokens * rate)
  BY DEF FeeCycles
<1> HIDE DEF volume, fee
<1>3. fee \in Nat /\ (tokens > 0 => fee < tokens * rate)
  BY <1>1, <1>2, FeeIs
<1>4. fee \div rate \in Nat /\ (fee \div rate) * rate <= fee
  BY <1>3, Quotient
<1>5. ASSUME tokens > 0 PROVE fee \div rate < tokens
  <2> DEFINE q == fee \div rate
  <2>1. q \in Nat /\ q * rate <= fee /\ fee < tokens * rate
    BY <1>3, <1>4, <1>5
  <2> HIDE DEF q
  <2>2. ASSUME q >= tokens PROVE FALSE
    <3>1. tokens * rate <= q * rate
      BY <2>1, <2>2, LessOf
    <3>2. tokens * rate \in Nat /\ q * rate \in Nat
      BY <2>1
    <3> QED
      BY <1>3, <2>1, <3>1, <3>2
  <2>3. q < tokens
    BY <2>1, <2>2
  <2> QED
    BY <2>3 DEF q
<1> QED
  BY <1>3, <1>4, <1>5 DEF fee, FeeAt, Amount, Opposite, Kind

LEMMA Subtracted ==
  ASSUME NEW k \in Kind, NEW p, SoundPosition(p), NEW tokens \in Nat, NEW rate \in Nat, rate > 0,
         Amount(k, tokens, rate) <= p.mainder
  PROVE  Took(k, p, SubtractTokens(k, p, tokens, rate), tokens, rate)
<1> DEFINE q == SubtractTokens(k, p, tokens, rate)
           sub == Amount(k, tokens, rate)
           fee == FeeAt(k, FeeCycles(k, p, tokens, rate), rate)
<1>1. p \in PositionType /\ p.rate > 0 /\ p.mainder <= p.quantity
  BY DEF SoundPosition
<1>2. q = [p EXCEPT !.mainder = IF @ >= sub THEN @ - sub ELSE 0, !.rates_sum = @ + rate * sub,
                    !.fill = IF k = "Cycles" THEN @ + tokens ELSE @, !.fees = @ + fee]
  BY DEF SubtractTokens, Amount, FeeAt
<1>3. sub \in Nat /\ rate * sub \in Nat
  BY DEF Amount
<1>4. fee \in Nat
  BY FeeOfPosition
<1> HIDE DEF q, sub, fee
<1>5. sub <= p.mainder
  BY DEF sub
<1>6. /\ q \in PositionType /\ q.positor = p.positor /\ q.quantity = p.quantity /\ q.rate = p.rate
      /\ q.mainder = p.mainder - sub /\ q.rates_sum = p.rates_sum + rate * sub
      /\ q.fill = (IF k = "Cycles" THEN p.fill + tokens ELSE p.fill) /\ q.fees = p.fees + fee
  <2> DEFINE a == p.mainder - sub
             b == p.rates_sum + rate * sub
             c == IF k = "Cycles" THEN p.fill + tokens ELSE p.fill
             d == p.fees + fee
  <2>1. p.mainder \in Nat /\ p.rates_sum \in Nat /\ p.fill \in Nat /\ p.fees \in Nat
    BY <1>1 DEF PositionType
  <2>2. a \in Nat /\ b \in Nat /\ c \in Nat /\ d \in Nat
    BY <1>3, <1>4, <1>5, <2>1
  <2>3. q = [p EXCEPT !.mainder = a, !.rates_sum = b, !.fill = c, !.fees = d]
    BY <1>2, <1>3, <1>5, <2>1
  <2> HIDE DEF a, b, c, d
  <2>4. /\ q \in PositionType /\ q.positor = p.positor /\ q.quantity = p.quantity /\ q.rate = p.rate
        /\ q.mainder = a /\ q.rates_sum = b /\ q.fill = c /\ q.fees = d
    BY <1>1, <2>2, <2>3 DEF PositionType
  <2> QED
    BY <2>4 DEF a, b, c, d
<1>7. p.mainder = q.mainder + sub /\ q.mainder <= q.quantity
  BY <1>1, <1>3, <1>6 DEF PositionType
<1>8. SoundPosition(q)
  BY <1>1, <1>6, <1>7 DEF SoundPosition
<1> QED
  BY <1>6, <1>7, <1>8 DEF Took, q, sub, fee

(* The rate of a trade is within the limits of both positions. *)
WithinLimit(k, p, rate) == IF k = "Cycles" THEN rate <= p.rate ELSE rate >= p.rate

LEMMA MatchRate ==
  ASSUME NEW k \in Kind, NEW p, NEW m, SoundPosition(p), SoundPosition(m),
         Compatible(Opposite(k), m, p.rate)
  PROVE  LET rate == TradeRate(Opposite(k), m, p.rate)
         IN /\ rate \in Nat /\ rate > 0
            /\ WithinLimit(k, p, rate) /\ WithinLimit(Opposite(k), m, rate)
<1> DEFINE a == p.rate
           b == m.rate
<1>1. a \in Nat /\ b \in Nat /\ a > 0 /\ b > 0
  BY DEF SoundPosition, PositionType
<1>2. \A x, y \in Nat : x >= y => (x - y) \div 2 \in Nat /\ (x - y) \div 2 <= x - y
  OBVIOUS
<1>3. CASE k = "Cycles"
  <2>1. b <= a /\ TradeRate(Opposite(k), m, a) = b + (a - b) \div 2
    BY <1>3 DEF Opposite, Compatible, TradeRate
  <2> HIDE DEF a, b
  <2>2. /\ b + (a - b) \div 2 \in Nat /\ b + (a - b) \div 2 <= a /\ b + (a - b) \div 2 >= b
        /\ b + (a - b) \div 2 > 0
    BY <1>1, <1>2, <2>1
  <2> QED
    BY <1>3, <2>1, <2>2 DEF WithinLimit, Opposite, a, b
<1>4. CASE k = "Token"
  <2>1. b >= a /\ TradeRate(Opposite(k), m, a) = b - (b - a) \div 2
    BY <1>4 DEF Opposite, Compatible, TradeRate
  <2> HIDE DEF a, b
  <2>2. /\ b - (b - a) \div 2 \in Nat /\ b - (b - a) \div 2 >= a /\ b - (b - a) \div 2 <= b
        /\ b - (b - a) \div 2 > 0
    BY <1>1, <1>2, <2>1
  <2> QED
    BY <1>4, <2>1, <2>2 DEF WithinLimit, Opposite, a, b
<1> QED
  BY <1>3, <1>4 DEF Kind

(* What a position can trade at a rate within its limit. *)
LEMMA TokensOf ==
  ASSUME NEW k \in Kind, NEW p, SoundPosition(p), NEW rate \in Nat, rate > 0,
         WithinLimit(k, p, rate)
  PROVE  LET t == current_position_tokens(k, p, rate)
         IN /\ t \in Nat /\ Amount(k, t, rate) <= p.mainder
            /\ Worth(k, p) => t > 0
            /\ \A n \in Nat : n <= t => Amount(k, n, rate) <= p.mainder
            /\ \A q : Took(k, p, q, t, rate) => BelowMinimum(k, q)
<1> DEFINE t == current_position_tokens(k, p, rate)
<1>1. p.mainder \in Nat /\ p.rate \in Nat /\ p.rate > 0
  BY DEF SoundPosition, PositionType
<1>2. minimum_match("Token") \in Nat /\ minimum_match("Token") > 0
  BY MinimumMatch DEF Kind
<1>3. CASE k = "Token"
  <2>1. t = p.mainder
    BY <1>3 DEF current_position_tokens
  <2>2. ASSUME NEW q, Took(k, p, q, t, rate) PROVE BelowMinimum(k, q)
    <3>1. q.mainder \in Nat /\ p.mainder = q.mainder + t
      BY <1>3, <2>2 DEF Took, SoundPosition, PositionType, Amount
    <3>2. q.mainder = 0
      BY <1>1, <2>1, <3>1
    <3> QED
      BY <1>2, <1>3, <3>2 DEF BelowMinimum, current_position_tokens
  <2> QED
    BY <1>1, <1>2, <1>3, <2>1, <2>2 DEF Amount, Worth, current_position_tokens
<1>4. CASE k = "Cycles"
  <2>1. t = p.mainder \div rate /\ rate <= p.rate
    BY <1>4 DEF current_position_tokens, WithinLimit
  <2>2. t \in Nat /\ t * rate <= p.mainder /\ p.mainder < t * rate + rate
    BY <1>1, <2>1, Quotient
  <2>3. Worth(k, p) => t > 0
    <3>1. Worth(k, p) <=> p.mainder \div p.rate >= minimum_match("Token")
      BY <1>4 DEF Worth, current_position_tokens
    <3>2. p.mainder \div p.rate <= p.mainder \div rate /\ p.mainder \div p.rate \in Nat
      BY <1>1, <2>1, QuotientGoesDown, Quotient
    <3> HIDE DEF t
    <3> QED
      BY <1>2, <2>1, <2>2, <3>1, <3>2
  <2>4. \A n \in Nat : n <= t => n * rate <= p.mainder
    <3> TAKE n \in Nat
    <3> HAVE n <= t
    <3> HIDE DEF t
    <3>1. n * rate <= t * rate /\ n * rate \in Nat /\ t * rate \in Nat
      BY <2>2, LessOf
    <3> QED
      BY <1>1, <2>2, <3>1
  <2>5. ASSUME NEW q, Took(k, p, q, t, rate) PROVE BelowMinimum(k, q)
    <3>1. q.mainder \in Nat /\ p.mainder = q.mainder + t * rate /\ q.rate = p.rate
      BY <1>4, <2>5 DEF Took, SoundPosition, PositionType, Amount
    <3>2. q.mainder < q.rate
      <4> HIDE DEF t
      <4>1. t * rate \in Nat
        BY <2>2
      <4> QED
        BY <1>1, <2>1, <2>2, <3>1, <4>1
    <3>3. q.mainder \div q.rate = 0
      BY <1>1, <3>1, <3>2, Quotient
    <3> QED
      BY <1>2, <1>4, <3>3 DEF BelowMinimum, current_position_tokens
  <2> QED
    BY <1>4, <2>2, <2>3, <2>4, <2>5 DEF Amount
<1> QED
  BY <1>3, <1>4 DEF Kind

(* The state of the loop, with matchees D. *)
MatchState(D) ==
  [matcher : PositionType, matchees : [D -> PositionType], logs : Seq(MatchLogType),
   filled : SUBSET D, stopped : BOOLEAN, matcher_filled : BOOLEAN, cut : BOOLEAN]

(* The log of a trade of tokens between matcher p and matchee m. *)
IsLog(log, k, id, mid, p, m, tokens, rate) ==
  /\ log \in MatchLogType
  /\ log.matcher = id /\ log.matchee = mid /\ log.matchee_kind = Opposite(k) /\ log.rate = rate
  /\ \A j \in Kind : log.mount[j] = Amount(j, tokens, rate)
  /\ \A j \in Kind : log.cts_fee[Opposite(j)] =
                       FeeAt(j, FeeCycles(j, IF j = k THEN p ELSE m, tokens, rate), rate)

(* A match is possible, and done: st becomes new. *)
IsMatch(k, id, mid, queue, st, new, tokens, rate, log) ==
  LET p == st.matcher
      m == st.matchees[mid]
      a == new.matcher
      b == new.matchees[mid]
  IN /\ ~st.stopped
     /\ queue + Len(st.logs) < MaxTradeLogs
     /\ tokens > 0 /\ rate > 0
     /\ WithinLimit(k, p, rate) /\ WithinLimit(Opposite(k), m, rate)
     /\ Took(k, p, a, tokens, rate) /\ Took(Opposite(k), m, b, tokens, rate)
     /\ IsLog(log, k, id, mid, p, m, tokens, rate)
     /\ BelowMinimum(k, a) \/ BelowMinimum(Opposite(k), b)
     /\ new.matchees = [st.matchees EXCEPT ![mid] = b]
     /\ new.logs = Append(st.logs, log)
     /\ new.filled = IF BelowMinimum(Opposite(k), b) THEN st.filled \cup {mid} ELSE st.filled
     /\ new.stopped = BelowMinimum(k, a) /\ new.matcher_filled = BelowMinimum(k, a)
     /\ new.cut = st.cut

LEMMA StateUpdate ==
  ASSUME NEW P, NEW M, NEW S, NEW F, NEW B, NEW a \in P, NEW b \in M, NEW c \in S, NEW f \in F,
         NEW x \in B,
         NEW st \in [matcher : P, matchees : M, logs : S, filled : F,
                    stopped : B, matcher_filled : B, cut : B],
         NEW new, new = [st EXCEPT !.matcher = a, !.matchees = b, !.logs = c, !.filled = f,
                                   !.stopped = x, !.matcher_filled = x]
  PROVE  /\ new \in [matcher : P, matchees : M, logs : S, filled : F,
                    stopped : B, matcher_filled : B, cut : B]
         /\ new.matcher = a /\ new.matchees = b /\ new.logs = c /\ new.filled = f
         /\ new.stopped = x /\ new.matcher_filled = x /\ new.cut = st.cut
OBVIOUS

(* A match as it is written in the loop. *)
IsUpdate(new, st, mid, a, b, log, filled, below) ==
  new = [st EXCEPT !.matcher = a, !.matchees[mid] = b, !.logs = Append(@, log),
                   !.filled = filled, !.stopped = below, !.matcher_filled = below]

IsUpdated(D, new, st, mid, a, b, log, filled, below) ==
  /\ new \in MatchState(D)
  /\ new.matcher = a /\ new.matchees = [st.matchees EXCEPT ![mid] = b]
  /\ new.logs = Append(st.logs, log) /\ new.filled = filled /\ new.stopped = below
  /\ new.matcher_filled = below /\ new.cut = st.cut

LEMMA StepFields ==
  ASSUME NEW D, NEW st \in MatchState(D), NEW mid \in D, NEW a \in PositionType, NEW b \in PositionType,
         NEW log \in MatchLogType, NEW below \in BOOLEAN, NEW filled \in SUBSET D,
         NEW new, IsUpdate(new, st, mid, a, b, log, filled, below)
  PROVE  IsUpdated(D, new, st, mid, a, b, log, filled, below)
<1>1. /\ st.matchees \in [D -> PositionType] /\ st.logs \in Seq(MatchLogType)
      /\ st.cut \in BOOLEAN
  BY DEF MatchState
<1> DEFINE logs == Append(st.logs, log)
           matchees == [st.matchees EXCEPT ![mid] = b]
           S == Seq(MatchLogType)
           M == [D -> PositionType]
           F == SUBSET D
<1>2. logs \in S /\ matchees \in M /\ filled \in F
  BY <1>1
<1>3. new = [st EXCEPT !.matcher = a, !.matchees = matchees, !.logs = logs,
                       !.filled = filled, !.stopped = below, !.matcher_filled = below]
  BY DEF MatchState, IsUpdate
<1> HIDE DEF logs, matchees, S, M, F
<1>4. MatchState(D) = [matcher : PositionType, matchees : M, logs : S, filled : F,
                       stopped : BOOLEAN, matcher_filled : BOOLEAN, cut : BOOLEAN]
  BY DEF MatchState, S, M, F
<1>5. /\ new \in MatchState(D)
      /\ new.matcher = a /\ new.matchees = matchees
      /\ new.logs = logs /\ new.filled = filled /\ new.stopped = below
      /\ new.matcher_filled = below /\ new.cut = st.cut
  <2> DEFINE B == BOOLEAN
  <2>1. below \in B /\ st \in [matcher : PositionType, matchees : M, logs : S, filled : F,
                              stopped : B, matcher_filled : B, cut : B]
    BY <1>4
  <2> HIDE DEF B
  <2>2. /\ new \in [matcher : PositionType, matchees : M, logs : S, filled : F,
                    stopped : B, matcher_filled : B, cut : B]
        /\ new.matcher = a /\ new.matchees = matchees /\ new.logs = logs /\ new.filled = filled
        /\ new.stopped = below /\ new.matcher_filled = below /\ new.cut = st.cut
    BY <1>2, <1>3, <2>1, StateUpdate
  <2> QED
    BY <1>4, <2>2 DEF B
<1> QED
  BY <1>5 DEF matchees, logs, IsUpdated

(* The loop goes on, but stops here by a limit. *)
IsCut(st, new) ==
  /\ ~st.stopped /\ new.stopped /\ new.cut
  /\ new.matcher = st.matcher /\ new.matchees = st.matchees /\ new.logs = st.logs
  /\ new.filled = st.filled /\ new.matcher_filled = st.matcher_filled

LEMMA CutIs ==
  ASSUME NEW D, NEW st \in MatchState(D), ~st.stopped,
         NEW new, new = [st EXCEPT !.stopped = TRUE, !.cut = TRUE]
  PROVE  new \in MatchState(D) /\ IsCut(st, new)
<1> DEFINE S == Seq(MatchLogType)
           M == [D -> PositionType]
           F == SUBSET D
           B == BOOLEAN
           x == TRUE
<1>1. /\ x \in B /\ new = [st EXCEPT !.stopped = x, !.cut = x]
      /\ st \in [matcher : PositionType, matchees : M, logs : S, filled : F,
                 stopped : B, matcher_filled : B, cut : B]
  BY DEF MatchState
<1> HIDE DEF S, M, F, B, x
<1>2. /\ new \in [matcher : PositionType, matchees : M, logs : S, filled : F,
                  stopped : B, matcher_filled : B, cut : B]
      /\ new.matcher = st.matcher /\ new.matchees = st.matchees /\ new.logs = st.logs
      /\ new.filled = st.filled /\ new.matcher_filled = st.matcher_filled
      /\ new.stopped = x /\ new.cut = x
  BY <1>1
<1>3. IsCut(st, new)
  BY <1>2, Zenon DEF IsCut, x
<1> QED
  BY <1>2, <1>3 DEF MatchState, S, M, F, B

(* One iteration: nothing, the end by a limit, or a match. *)
LEMMA StepIs ==
  ASSUME NEW k \in Kind, NEW D \in SUBSET Nat, NEW id \in Nat, NEW mid \in D, NEW limit \in Nat,
         NEW st \in MatchState(D), NEW queue \in Int,
         SoundPosition(st.matcher), SoundPosition(st.matchees[mid]),
         ~st.stopped => Worth(k, st.matcher), Worth(Opposite(k), st.matchees[mid]),
         NEW new, new = MatchStep(k, id, queue, limit, st, mid)
  PROVE  /\ new \in MatchState(D)
         /\ \/ new = st /\ (st.stopped \/ ~Compatible(Opposite(k), st.matchees[mid], st.matcher.rate))
            \/ IsCut(st, new)
            \/ \E tokens \in Nat, rate \in Nat, log \in MatchLogType :
                 IsMatch(k, id, mid, queue, st, new, tokens, rate, log)
<1> DEFINE o == Opposite(k)
           p == st.matcher
           m == st.matchees[mid]
           rate == TradeRate(o, m, p.rate)
           t == current_position_tokens(k, p, rate)
           u == current_position_tokens(o, m, rate)
           tokens == LesserOf(t, u)
           a == SubtractTokens(k, p, tokens, rate)
           b == SubtractTokens(o, m, tokens, rate)
           fee == [j \in Kind |-> FeeCycles(j, IF j = k THEN p ELSE m, tokens, rate)]
           log == [matcher |-> id, matchee |-> mid, matchee_kind |-> o, rate |-> rate,
                   mount |-> [Cycles |-> tokens * rate, Token |-> tokens],
                   cts_fee |-> [Cycles |-> fee["Token"], Token |-> fee["Cycles"] \div rate]]
<1>0. o \in Kind /\ o # k
  BY Kinds
<1>1. CASE st.stopped \/ ~Compatible(o, m, p.rate)
  BY <1>1 DEF MatchStep
<1>2. CASE /\ ~(st.stopped \/ ~Compatible(o, m, p.rate))
           /\ queue + Len(st.logs) >= MaxTradeLogs \/ Len(st.logs) >= limit
  <2>1. new = [st EXCEPT !.stopped = TRUE, !.cut = TRUE]
    BY <1>2 DEF MatchStep
  <2> QED
    BY <1>2, <2>1, CutIs
<1>3. CASE /\ ~(st.stopped \/ ~Compatible(o, m, p.rate))
           /\ ~(queue + Len(st.logs) >= MaxTradeLogs \/ Len(st.logs) >= limit)
  <2>1. new = [st EXCEPT !.matcher = a, !.matchees[mid] = b, !.logs = Append(@, log),
                     !.filled = IF BelowMinimum(o, b) THEN @ \cup {mid} ELSE @,
                     !.stopped = BelowMinimum(k, a), !.matcher_filled = BelowMinimum(k, a)]
    BY <1>3 DEF MatchStep
  <2>2. /\ rate \in Nat /\ rate > 0 /\ WithinLimit(k, p, rate) /\ WithinLimit(o, m, rate)
    BY <1>3, MatchRate
  <2> HIDE DEF rate
  <2>3. /\ t \in Nat /\ t > 0 /\ Amount(k, t, rate) <= p.mainder
        /\ \A n \in Nat : n <= t => Amount(k, n, rate) <= p.mainder
        /\ \A q : Took(k, p, q, t, rate) => BelowMinimum(k, q)
    BY <1>3, <2>2, TokensOf
  <2>4. /\ u \in Nat /\ u > 0 /\ Amount(o, u, rate) <= m.mainder
        /\ \A n \in Nat : n <= u => Amount(o, n, rate) <= m.mainder
        /\ \A q : Took(o, m, q, u, rate) => BelowMinimum(o, q)
    BY <1>0, <1>3, <2>2, TokensOf
  <2> HIDE DEF t, u, p, m, o
  <2>5. tokens \in Nat /\ tokens > 0 /\ tokens <= t /\ tokens <= u /\ (tokens = t \/ tokens = u)
    BY <2>3, <2>4 DEF LesserOf
  <2> HIDE DEF tokens
  <2>6. Amount(k, tokens, rate) <= p.mainder /\ Amount(o, tokens, rate) <= m.mainder
    BY <2>3, <2>4, <2>5
  <2>7. SoundPosition(p) /\ SoundPosition(m)
    BY DEF p, m
  <2>8. Took(k, p, a, tokens, rate)
    BY <2>2, <2>5, <2>6, <2>7, Subtracted
  <2>9. Took(o, m, b, tokens, rate)
    BY <1>0, <2>2, <2>5, <2>6, <2>7, Subtracted
  <2>10. BelowMinimum(k, a) \/ BelowMinimum(o, b)
    <3> HIDE DEF a, b
    <3> QED
      BY <2>3, <2>4, <2>5, <2>8, <2>9
  <2>11. IsLog(log, k, id, mid, p, m, tokens, rate)
    <3>1. \A j \in Kind : fee[j] \in Nat /\ fee[j] \div rate \in Nat
      <4> TAKE j \in Kind
      <4>1. fee[j] \in Nat
        <5> DEFINE x == IF j = k THEN p ELSE m
        <5>1. SoundPosition(x)
          BY <2>7
        <5> HIDE DEF x
        <5>2. FeeCycles(j, x, tokens, rate) \in Nat
          BY <2>2, <2>5, <5>1, FeeOfPosition
        <5> QED
          BY <5>2 DEF x
      <4> HIDE DEF fee
      <4> QED
        BY <2>2, <4>1, Quotient
    <3>2. \A j \in Kind : fee[j] = FeeCycles(j, IF j = k THEN p ELSE m, tokens, rate)
      OBVIOUS
    <3> DEFINE mount == [Cycles |-> tokens * rate, Token |-> tokens]
               cts == [Cycles |-> fee["Token"], Token |-> fee["Cycles"] \div rate]
    <3>3. "Cycles" \in Kind /\ "Token" \in Kind
      BY DEF Kind
    <3> HIDE DEF fee
    <3>4. mount \in [Kind -> Nat] /\ \A j \in Kind : mount[j] = Amount(j, tokens, rate)
      <4>1. tokens * rate \in Nat
        BY <2>2, <2>5
      <4> QED
        BY <2>2, <2>5, <4>1 DEF Kind, Amount
    <3>5. cts \in [Kind -> Nat] /\ \A j \in Kind : cts[Opposite(j)] = FeeAt(j, fee[j], rate)
      <4>1. fee["Token"] \in Nat /\ fee["Cycles"] \div rate \in Nat
        BY <3>1, <3>3
      <4> QED
        BY <4>1 DEF Kind, Opposite, FeeAt
    <3> HIDE DEF mount, cts
    <3>6. log = [matcher |-> id, matchee |-> mid, matchee_kind |-> o, rate |-> rate,
                 mount |-> mount, cts_fee |-> cts]
      BY DEF mount, cts
    <3> HIDE DEF log
    <3>7. log \in MatchLogType
      BY <1>0, <2>2, <3>4, <3>5, <3>6 DEF MatchLogType
    <3>8. /\ log.matcher = id /\ log.matchee = mid /\ log.matchee_kind = o /\ log.rate = rate
          /\ log.mount = mount /\ log.cts_fee = cts
      BY <3>6
    <3> QED
      BY <3>2, <3>4, <3>5, <3>7, <3>8 DEF IsLog, o
  <2> HIDE DEF a, b, log
  <2>12. log \in MatchLogType /\ a \in PositionType /\ b \in PositionType
    BY <2>8, <2>9, <2>11 DEF IsLog, Took, SoundPosition
  <2> DEFINE below == BelowMinimum(k, a)
             filled == IF BelowMinimum(o, b) THEN st.filled \cup {mid} ELSE st.filled
  <2>13. below \in BOOLEAN
    BY DEF BelowMinimum
  <2>14. filled \in SUBSET D
    BY DEF MatchState
  <2>15. IsUpdate(new, st, mid, a, b, log, filled, below)
    BY <2>1 DEF IsUpdate
  <2> HIDE DEF below, filled
  <2>16. /\ new \in MatchState(D)
         /\ new.matcher = a /\ new.matchees = [st.matchees EXCEPT ![mid] = b]
         /\ new.logs = Append(st.logs, log) /\ new.filled = filled /\ new.stopped = below
         /\ new.matcher_filled = below /\ new.cut = st.cut
    <3>1. IsUpdated(D, new, st, mid, a, b, log, filled, below)
      BY <2>12, <2>13, <2>14, <2>15, StepFields
    <3> QED
      BY <3>1 DEF IsUpdated
  <2>17. new.matchees[mid] = b
    BY <2>16 DEF MatchState
  <2>18. queue + Len(st.logs) < MaxTradeLogs
    <3>1. Len(st.logs) \in Nat /\ MaxTradeLogs \in Nat
      BY MatchingAssumption DEF MatchState
    <3> QED
      BY <1>3, <3>1
  <2>19. IsMatch(k, id, mid, queue, st, new, tokens, rate, log)
    BY <1>3, <2>2, <2>5, <2>8, <2>9, <2>10, <2>11, <2>16, <2>17, <2>18
       DEF IsMatch, below, filled, p, m, o
  <2> QED
    BY <2>2, <2>5, <2>12, <2>16, <2>19
<1> QED
  BY <1>1, <1>2, <1>3

----------------------------------------------------------------------------
(* What is left of positions. *)

SamePosition(p, q) == p.positor = q.positor /\ p.quantity = q.quantity /\ p.rate = q.rate

Mainder(book) == SumFunction([x \in DOMAIN book |-> book[x].mainder])

(* The sum of what is left of positions changes at one of them. *)
LEMMA MainderUpdate ==
  ASSUME NEW f, NEW g, NEW x \in DOMAIN f, IsFiniteSet(DOMAIN f), DOMAIN g = DOMAIN f,
         \A y \in DOMAIN f : f[y].mainder \in Nat /\ g[y].mainder \in Nat,
         \A y \in DOMAIN f : y # x => g[y] = f[y]
  PROVE  /\ Mainder(g) = Mainder(f) - f[x].mainder + g[x].mainder
         /\ Mainder(f) \in Nat /\ f[x].mainder <= Mainder(f)
<1> DEFINE u == [y \in DOMAIN f |-> f[y].mainder]
           v == [y \in DOMAIN g |-> g[y].mainder]
<1>1. /\ DOMAIN u = DOMAIN f /\ DOMAIN v = DOMAIN u /\ x \in DOMAIN u
      /\ \A y \in DOMAIN u : u[y] \in Int /\ v[y] \in Int /\ u[y] \in Nat
      /\ \A y \in DOMAIN u \ {x} : u[y] = v[y]
      /\ u[x] = f[x].mainder /\ v[x] = g[x].mainder
  OBVIOUS
<1>2. Mainder(f) = SumFunction(u) /\ Mainder(g) = SumFunction(v)
  BY DEF Mainder
<1> HIDE DEF u, v
<1>3. SumFunction(v) = SumFunction(u) - u[x] + v[x]
  BY <1>1, SumUpdate
<1>4. SumFunction(u) \in Nat /\ u[x] <= SumFunction(u)
  BY <1>1, SumType, SumAtLeast
<1> QED
  BY <1>1, <1>2, <1>3, <1>4

LEMMA MainderType ==
  ASSUME NEW f, IsFiniteSet(DOMAIN f), \A x \in DOMAIN f : f[x].mainder \in Nat
  PROVE  Mainder(f) \in Nat
<1> DEFINE u == [y \in DOMAIN f |-> f[y].mainder]
<1>1. DOMAIN u = DOMAIN f /\ \A y \in DOMAIN u : u[y] \in Nat /\ u[y] \in Int
  OBVIOUS
<1>2. Mainder(f) = SumFunction(u)
  BY DEF Mainder
<1> HIDE DEF u
<1> QED
  BY <1>1, <1>2, SumType

(* One more position. *)
LEMMA MainderPut ==
  ASSUME NEW f, NEW g, NEW x, IsFiniteSet(DOMAIN f), x \notin DOMAIN f, DOMAIN g = DOMAIN f \cup {x},
         \A y \in DOMAIN g : g[y].mainder \in Nat, \A y \in DOMAIN f : g[y] = f[y]
  PROVE  Mainder(g) = Mainder(f) + g[x].mainder
<1> DEFINE u == [y \in DOMAIN f |-> f[y].mainder]
           v == [y \in DOMAIN g |-> g[y].mainder]
<1>1. /\ DOMAIN u = DOMAIN f /\ DOMAIN v = DOMAIN u \cup {x} /\ x \notin DOMAIN u
      /\ \A y \in DOMAIN v : v[y] \in Int
      /\ \A y \in DOMAIN u : u[y] = v[y]
      /\ v[x] = g[x].mainder
  OBVIOUS
<1>2. Mainder(f) = SumFunction(u) /\ Mainder(g) = SumFunction(v)
  BY DEF Mainder
<1> HIDE DEF u, v
<1> QED
  BY <1>1, <1>2, SumPut

(* Some arguments of f move to v. *)
Moves(f, v, g, w, F) ==
  /\ IsFiniteSet(DOMAIN f) /\ IsFiniteSet(DOMAIN v)
  /\ F \subseteq DOMAIN f /\ F \cap DOMAIN v = {}
  /\ \A x \in DOMAIN f : f[x] \in Nat
  /\ \A x \in DOMAIN v : v[x] \in Nat
  /\ DOMAIN g = DOMAIN f \ F
  /\ \A x \in DOMAIN g : g[x] = f[x]
  /\ DOMAIN w = DOMAIN v \cup F
  /\ \A x \in DOMAIN v : w[x] = v[x]
  /\ \A x \in F : w[x] = f[x]

LEMMA MoveSum ==
  ASSUME NEW f, NEW v, NEW g, NEW w, NEW F, Moves(f, v, g, w, F)
  PROVE  /\ SumFunction(g) + SumFunction(w) = SumFunction(f) + SumFunction(v)
         /\ SumFunction(g) \in Nat /\ SumFunction(w) \in Nat /\ SumFunction(f) \in Nat
         /\ SumFunction(v) \in Nat
<1> USE DEF Moves
<1> DEFINE S(h, X) == SumFunctionOnSet(h, X)
           D == DOMAIN f
           V == DOMAIN v
           G == D \ F
<1>1. IsFiniteSet(F) /\ IsFiniteSet(G) /\ G \cup F = D /\ G \cap F = {} /\ F \cap V = {}
      /\ IsFiniteSet(V) /\ V \cap F = {}
  <2>1. F \in SUBSET D /\ G \in SUBSET D
    OBVIOUS
  <2> HIDE DEF G, D
  <2>2. IsFiniteSet(F) /\ IsFiniteSet(G)
    BY <2>1, FS_Subset DEF D
  <2> QED
    BY <2>1, <2>2 DEF G, D
<1>2. /\ \A x \in G \cup F : f[x] \in Int /\ f[x] \in Nat
      /\ \A x \in G : g[x] = f[x]
      /\ \A x \in V \cup F : w[x] \in Int /\ w[x] \in Nat
      /\ \A x \in V : w[x] = v[x] /\ v[x] \in Nat
      /\ \A x \in F : w[x] = f[x] /\ w[x] \in Nat
      /\ DOMAIN g = G /\ DOMAIN w = V \cup F /\ DOMAIN f = G \cup F /\ DOMAIN v = V
  OBVIOUS
<1> HIDE DEF D, V, G
<1>3. SumFunctionOnSet(f, G \cup F) = SumFunctionOnSet(f, G) + SumFunctionOnSet(f, F)
  BY <1>1, <1>2, SumUnion
<1>4. SumFunctionOnSet(w, V \cup F) = SumFunctionOnSet(w, V) + SumFunctionOnSet(w, F)
  BY <1>1, <1>2, SumUnion
<1>5. SumFunctionOnSet(g, G) = SumFunctionOnSet(f, G)
  BY <1>1, <1>2, SumSame
<1>6. SumFunctionOnSet(w, V) = SumFunctionOnSet(v, V) /\ SumFunctionOnSet(w, F) = SumFunctionOnSet(f, F)
  BY <1>1, <1>2, SumSame
<1>7. /\ SumFunctionOnSet(f, G) \in Nat /\ SumFunctionOnSet(f, F) \in Nat /\ SumFunctionOnSet(v, V) \in Nat
  BY <1>1, <1>2, SumNat
<1>8. /\ SumFunction(f) = SumFunctionOnSet(f, G \cup F) /\ SumFunction(g) = SumFunctionOnSet(g, G)
      /\ SumFunction(w) = SumFunctionOnSet(w, V \cup F) /\ SumFunction(v) = SumFunctionOnSet(v, V)
  BY <1>2 DEF SumFunction
<1> QED
  BY <1>3, <1>4, <1>5, <1>6, <1>7, <1>8

(* The loop of a trade that was paid for begins as it should. *)
LEMMA QuestWorth ==
  ASSUME NEW k \in Kind, NEW user \in User, NEW quantity \in Nat, NEW rate \in Nat, rate # 0,
         ~BelowMinimumQuest(k, quantity, rate)
  PROVE  Worth(k, NewPosition(user, quantity, rate))
<1> DEFINE p == NewPosition(user, quantity, rate)
<1>1. p.mainder = quantity /\ p.rate = rate
  BY DEF NewPosition
<1>2. minimum_match("Token") \in Nat /\ minimum_match("Token") > 0
  BY MinimumMatch DEF Kind
<1>3. CASE k = "Token"
  BY <1>1, <1>2, <1>3 DEF Worth, BelowMinimumQuest, current_position_tokens
<1>4. CASE k = "Cycles"
  <2>1. quantity \div rate \in Nat
    BY Quotient
  <2>2. ~(quantity \div rate < minimum_match("Token"))
    BY <1>4 DEF BelowMinimumQuest, Opposite
  <2>3. Worth(k, p) <=> quantity \div rate >= minimum_match("Token")
    BY <1>1, <1>4 DEF Worth, current_position_tokens
  <2> QED
    BY <1>2, <2>1, <2>2, <2>3
<1> QED
  BY <1>3, <1>4 DEF Kind

----------------------------------------------------------------------------
(* What the loop of match_trades leaves behind. *)

(* What the trades took of the positions on side j. *)
Mounted(logs, j) == SumFunction([i \in 1 .. Len(logs) |-> logs[i].mount[j]])

LEMMA MountedType ==
  ASSUME NEW logs \in Seq(MatchLogType), NEW j \in Kind
  PROVE  /\ Mounted(logs, j) \in Nat /\ \A i \in 1 .. Len(logs) : logs[i].mount[j] \in Nat
         /\ Mounted(<<>>, j) = 0
<1> DEFINE f == [i \in 1 .. Len(logs) |-> logs[i].mount[j]]
<1>1. IsFiniteSet(DOMAIN f) /\ \A i \in DOMAIN f : f[i] \in Nat /\ f[i] = logs[i].mount[j]
  <2>1. IsFiniteSet(1 .. Len(logs)) /\ \A i \in 1 .. Len(logs) : logs[i] \in MatchLogType
    BY LogsAreLogs
  <2>2. \A log \in MatchLogType : log.mount[j] \in Nat
    BY DEF MatchLogType
  <2> QED
    BY <2>1, <2>2
<1>2. SumFunction(f) \in Nat
  <2> HIDE DEF f
  <2> QED
    BY <1>1, SumNat DEF SumFunction
<1>3. Mounted(<<>>, j) = 0
  <2>1. \A g : DOMAIN g = {} => SumFunction(g) = 0
    BY SumEmpty DEF SumFunction
  <2>2. DOMAIN [i \in 1 .. Len(<<>>) |-> <<>>[i].mount[j]] = {}
    OBVIOUS
  <2> QED
    BY <2>1, <2>2 DEF Mounted
<1> QED
  BY <1>1, <1>2, <1>3 DEF Mounted

LEMMA MountedAppend ==
  ASSUME NEW logs \in Seq(MatchLogType), NEW log \in MatchLogType, NEW j \in Kind
  PROVE  Mounted(Append(logs, log), j) = Mounted(logs, j) + log.mount[j]
<1> DEFINE all == Append(logs, log)
           f == [i \in 1 .. Len(logs) |-> logs[i].mount[j]]
           g == [i \in 1 .. Len(all) |-> all[i].mount[j]]
           n == Len(logs) + 1
<1>1. /\ all \in Seq(MatchLogType) /\ Len(all) = n
      /\ \A i \in 1 .. Len(logs) : all[i] = logs[i]
      /\ all[n] = log /\ 1 .. n = (1 .. Len(logs)) \cup {n} /\ n \notin 1 .. Len(logs)
      /\ IsFiniteSet(1 .. Len(logs))
  BY AppendLog, LogsAreLogs
<1> HIDE DEF all, n
<1>2. \A i \in 1 .. Len(all) : all[i].mount[j] \in Nat
  BY <1>1, MountedType
<1>3. /\ IsFiniteSet(DOMAIN f) /\ n \notin DOMAIN f /\ DOMAIN g = DOMAIN f \cup {n}
      /\ \A i \in DOMAIN g : g[i] \in Int
      /\ \A i \in DOMAIN f : f[i] = g[i]
      /\ g[n] = log.mount[j]
  BY <1>1, <1>2
<1> HIDE DEF f, g
<1>4. SumFunction(g) = SumFunction(f) + g[n]
  BY <1>3, SumPut
<1> QED
  BY <1>3, <1>4 DEF Mounted, f, g, all

(* The positions: nobody's becomes another's, those on the book have enough *)
(* for a match, and what is taken of them is what the logs say.             *)
LoopPositions(k, p0, ms, st) ==
  LET o == Opposite(k)
  IN /\ st \in MatchState(DOMAIN ms)
     /\ SoundPosition(st.matcher) /\ SamePosition(st.matcher, p0)
     /\ \A x \in DOMAIN ms : SoundPosition(st.matchees[x]) /\ SamePosition(st.matchees[x], ms[x])
     /\ \A x \in DOMAIN ms \ st.filled : Worth(o, st.matchees[x])
     /\ ~st.matcher_filled => Worth(k, st.matcher)
     /\ ~st.stopped => ~st.matcher_filled

LoopSums(k, p0, ms, st) ==
  /\ p0.mainder = st.matcher.mainder + Mounted(st.logs, k)
  /\ Mainder(ms) = Mainder(st.matchees) + Mounted(st.logs, Opposite(k))

(* Every trade fills one of its positions. *)
LoopCounts(queue, st) ==
  /\ queue + Len(st.logs) <= MaxTradeLogs
  /\ \/ Len(st.logs) = Cardinality(st.filled)
     \/ st.matcher_filled /\ Len(st.logs) = Cardinality(st.filled) + 1
  /\ st.matcher_filled => st.logs # <<>>

FeesBelow(logs) ==
  \A i \in 1 .. Len(logs), j \in Kind : logs[i].cts_fee[j] < logs[i].mount[j]

Untouched(ms, st, n) ==
  /\ Len(st.logs) <= n
  /\ \A i \in n + 1 .. Cardinality(DOMAIN ms) : InOrder(DOMAIN ms)[i] \notin st.filled

(* The loop after n of the matchees. *)
LoopSound(k, p0, ms, queue, st, n) ==
  /\ LoopPositions(k, p0, ms, st) /\ LoopSums(k, p0, ms, st) /\ LoopCounts(queue, st)
  /\ FeesBelow(st.logs) /\ Untouched(ms, st, n)

(* A matcher and matchees that may be matched. *)
Matchable(k, p0, ms, queue) ==
  /\ k \in Kind /\ queue \in Nat /\ queue <= MaxTradeLogs
  /\ DOMAIN ms \in SUBSET Nat /\ IsFiniteSet(DOMAIN ms) /\ ms \in [DOMAIN ms -> PositionType]
  /\ SoundPosition(p0) /\ Worth(k, p0)
  /\ \A x \in DOMAIN ms : SoundPosition(ms[x]) /\ Worth(Opposite(k), ms[x])

LEMMA FirstSound ==
  ASSUME NEW k, NEW p0, NEW ms, NEW queue, Matchable(k, p0, ms, queue)
  PROVE  LoopSound(k, p0, ms, queue, FirstState(p0, ms), 0)
<1> DEFINE st == FirstState(p0, ms)
<1>1. /\ st.matcher = p0 /\ st.matchees = ms /\ st.logs = <<>> /\ st.filled = {}
      /\ st.stopped = FALSE /\ st.matcher_filled = FALSE /\ st.cut = FALSE
      /\ <<>> \in Seq(MatchLogType) /\ Len(<<>>) = 0
  BY DEF FirstState
<1>2. st \in MatchState(DOMAIN ms)
  <2>1. p0 \in PositionType /\ ms \in [DOMAIN ms -> PositionType] /\ <<>> \in Seq(MatchLogType)
        /\ {} \in SUBSET DOMAIN ms /\ FALSE \in BOOLEAN
    BY DEF Matchable, SoundPosition
  <2> DEFINE S == Seq(MatchLogType)
             F == SUBSET DOMAIN ms
             B == BOOLEAN
             X == [DOMAIN ms -> PositionType]
  <2> HIDE DEF S, F, B, X
  <2>2. st \in [matcher : PositionType, matchees : X, logs : S, filled : F,
                stopped : B, matcher_filled : B, cut : B]
    BY <2>1 DEF FirstState, S, F, B, X
  <2> QED
    BY <2>2 DEF MatchState, S, F, B, X
<1> HIDE DEF st
<1>3. LoopPositions(k, p0, ms, st)
  BY <1>1, <1>2 DEF Matchable, LoopPositions, SamePosition
<1>4. LoopSums(k, p0, ms, st)
  <2>1. k \in Kind /\ Opposite(k) \in Kind
    BY Kinds DEF Matchable
  <2>2. Mounted(<<>>, k) = 0 /\ Mounted(<<>>, Opposite(k)) = 0
    BY <1>1, <2>1, MountedType
  <2>3. p0.mainder \in Nat /\ IsFiniteSet(DOMAIN ms) /\ \A x \in DOMAIN ms : ms[x].mainder \in Nat
    BY DEF Matchable, SoundPosition, PositionType
  <2>4. Mainder(ms) \in Nat
    BY <2>3, MainderType
  <2> QED
    BY <1>1, <2>2, <2>3, <2>4 DEF LoopSums
<1>5. LoopCounts(queue, st)
  <2>1. Cardinality(st.filled) = 0
    BY <1>1, FS_EmptySet
  <2> QED
    BY <1>1, <2>1 DEF LoopCounts, Matchable
<1> QED
  BY <1>1, <1>3, <1>4, <1>5 DEF LoopSound, FeesBelow, Untouched, st

(* One match keeps all of it. *)
LEMMA MatchKeepsPositions ==
  ASSUME NEW k \in Kind, NEW p0, NEW ms, NEW id, NEW mid \in DOMAIN ms, NEW queue, NEW st, NEW new,
         NEW tokens, NEW rate, NEW log, new \in MatchState(DOMAIN ms),
         LoopPositions(k, p0, ms, st), IsMatch(k, id, mid, queue, st, new, tokens, rate, log)
  PROVE  LoopPositions(k, p0, ms, new)
<1> DEFINE D == DOMAIN ms
           o == Opposite(k)
           a == new.matcher
           b == new.matchees[mid]
<1>1. /\ st \in MatchState(D) /\ SoundPosition(st.matcher) /\ SamePosition(st.matcher, p0)
      /\ \A x \in D : SoundPosition(st.matchees[x]) /\ SamePosition(st.matchees[x], ms[x])
      /\ \A x \in D \ st.filled : Worth(o, st.matchees[x])
  BY DEF LoopPositions
<1>2. /\ SoundPosition(a) /\ SamePosition(a, st.matcher)
      /\ SoundPosition(b) /\ SamePosition(b, st.matchees[mid])
  BY DEF IsMatch, Took, SamePosition
<1>3. /\ new.matchees = [st.matchees EXCEPT ![mid] = b] /\ st.matchees \in [D -> PositionType]
      /\ new.filled = IF BelowMinimum(o, b) THEN st.filled \cup {mid} ELSE st.filled
      /\ new.stopped = BelowMinimum(k, a) /\ new.matcher_filled = BelowMinimum(k, a)
  BY <1>1 DEF IsMatch, MatchState
<1>4. \A x \in D : x # mid => new.matchees[x] = st.matchees[x]
  BY <1>3
<1>5. \A j \in Kind : \A p : ~BelowMinimum(j, p) /\ SoundPosition(p) => Worth(j, p)
  <2> TAKE j \in Kind
  <2> TAKE p
  <2> HAVE ~BelowMinimum(j, p) /\ SoundPosition(p)
  <2>1. current_position_tokens(j, p, p.rate) \in Nat
    BY Quotient DEF current_position_tokens, SoundPosition, PositionType
  <2>2. minimum_match("Token") \in Nat
    BY MinimumMatch DEF Kind
  <2> QED
    BY <2>1, <2>2 DEF BelowMinimum, Worth
<1>6. o \in Kind
  BY Kinds
<1> HIDE DEF D, o
<1>7. ASSUME NEW x \in D
      PROVE  /\ SoundPosition(new.matchees[x]) /\ SamePosition(new.matchees[x], ms[x])
             /\ x \notin new.filled => Worth(o, new.matchees[x])
  <2>1. CASE x = mid
    BY <1>1, <1>2, <1>3, <1>5, <1>6, <2>1 DEF SamePosition
  <2>2. CASE x # mid
    BY <1>1, <1>3, <1>4, <2>2
  <2> QED
    BY <2>1, <2>2
<1>8. SamePosition(a, p0)
  BY <1>1, <1>2 DEF SamePosition
<1>9. /\ ~new.matcher_filled => Worth(k, a)
      /\ ~new.stopped => ~new.matcher_filled
  BY <1>2, <1>3, <1>5
<1> HIDE DEF a, b
<1> QED
  BY <1>2, <1>7, <1>8, <1>9 DEF LoopPositions, D, o, a

LEMMA MatchKeepsSums ==
  ASSUME NEW k \in Kind, NEW p0, NEW ms, NEW id, NEW mid \in DOMAIN ms, NEW queue, NEW st, NEW new,
         NEW tokens \in Nat, NEW rate \in Nat, NEW log \in MatchLogType,
         IsFiniteSet(DOMAIN ms), p0.mainder \in Nat, Mainder(ms) \in Nat,
         LoopPositions(k, p0, ms, st), LoopPositions(k, p0, ms, new), LoopSums(k, p0, ms, st),
         IsMatch(k, id, mid, queue, st, new, tokens, rate, log)
  PROVE  LoopSums(k, p0, ms, new)
<1> DEFINE D == DOMAIN ms
           o == Opposite(k)
           a == new.matcher
           b == new.matchees[mid]
           m == st.matchees[mid]
<1>1. /\ new.matchees = [st.matchees EXCEPT ![mid] = b] /\ new.logs = Append(st.logs, log)
      /\ st.matcher.mainder = a.mainder + log.mount[k]
      /\ m.mainder = b.mainder + log.mount[o]
  BY Kinds DEF IsMatch, Took, IsLog
<1>2. /\ st \in MatchState(D) /\ \A x \in D : SoundPosition(st.matchees[x]) /\ SoundPosition(new.matchees[x])
      /\ SoundPosition(st.matcher) /\ SoundPosition(a) /\ o \in Kind
  BY Kinds DEF LoopPositions
<1>3. /\ st.matchees \in [D -> PositionType] /\ st.logs \in Seq(MatchLogType)
      /\ \A x \in D : st.matchees[x].mainder \in Nat /\ new.matchees[x].mainder \in Nat
      /\ a.mainder \in Nat /\ st.matcher.mainder \in Nat
  BY <1>2 DEF MatchState, SoundPosition, PositionType
<1>4. /\ Mounted(new.logs, k) = Mounted(st.logs, k) + log.mount[k]
      /\ Mounted(new.logs, o) = Mounted(st.logs, o) + log.mount[o]
      /\ Mounted(st.logs, k) \in Nat /\ Mounted(st.logs, o) \in Nat
      /\ log.mount[k] \in Nat /\ log.mount[o] \in Nat
  <2>1. log.mount[k] \in Nat /\ log.mount[o] \in Nat
    BY <1>2 DEF MatchLogType
  <2>2. \A j \in Kind : Mounted(Append(st.logs, log), j) = Mounted(st.logs, j) + log.mount[j]
    BY <1>3, MountedAppend
  <2>3. \A j \in Kind : Mounted(st.logs, j) \in Nat
    BY <1>3, MountedType
  <2>4. k \in Kind /\ o \in Kind /\ new.logs = Append(st.logs, log)
    BY <1>1, <1>2
  <2> QED
    BY <2>1, <2>2, <2>3, <2>4
<1>5. Mainder(new.matchees) = Mainder(st.matchees) - m.mainder + b.mainder /\ Mainder(st.matchees) \in Nat
  <2>1. /\ mid \in DOMAIN st.matchees /\ DOMAIN st.matchees = D /\ DOMAIN new.matchees = D
        /\ \A x \in D : x # mid => new.matchees[x] = st.matchees[x]
    BY <1>1, <1>3
  <2> HIDE DEF D
  <2> QED
    BY <1>3, <2>1, MainderUpdate DEF D
<1>6. m.mainder \in Nat /\ b.mainder \in Nat
  BY <1>3
<1>7. /\ p0.mainder = st.matcher.mainder + Mounted(st.logs, k)
      /\ Mainder(ms) = Mainder(st.matchees) + Mounted(st.logs, o)
  BY DEF LoopSums
<1> HIDE DEF a, b, m, o, D
<1>8. p0.mainder = a.mainder + Mounted(new.logs, k)
  <2> DEFINE before == st.matcher.mainder
             after == a.mainder
             traded == log.mount[k]
             sold == Mounted(st.logs, k)
             sold2 == Mounted(new.logs, k)
             sum == p0.mainder
  <2>1. before = after + traded
    BY <1>1
  <2>2. /\ sold2 = sold + traded /\ sum = before + sold
        /\ after \in Nat /\ traded \in Nat /\ sold \in Nat
    BY <1>3, <1>4, <1>7
  <2>3. sum = after + sold2
    <3> HIDE DEF before, after, traded, sold, sold2, sum
    <3> QED
      BY <2>1, <2>2
  <2> QED
    BY <2>3, Zenon
<1>9. Mainder(ms) = Mainder(new.matchees) + Mounted(new.logs, o)
  <2> DEFINE new_book == Mainder(new.matchees)
             old_book == Mainder(st.matchees)
             before == m.mainder
             after == b.mainder
             traded == log.mount[o]
             sold == Mounted(st.logs, o)
             sold2 == Mounted(new.logs, o)
             sum == Mainder(ms)
  <2>1. before = after + traded
    BY <1>1
  <2>2. /\ new_book = old_book - before + after /\ sold2 = sold + traded /\ sum = old_book + sold
        /\ old_book \in Nat /\ before \in Nat /\ after \in Nat /\ traded \in Nat /\ sold \in Nat
    BY <1>4, <1>5, <1>6, <1>7
  <2>3. sum = new_book + sold2
    <3> HIDE DEF new_book, old_book, before, after, traded, sold, sold2, sum
    <3> QED
      BY <2>1, <2>2
  <2> QED
    BY <2>3, Zenon
<1> QED
  BY <1>8, <1>9 DEF LoopSums, a, o

LEMMA MatchKeepsCounts ==
  ASSUME NEW k \in Kind, NEW ms, NEW id, NEW mid \in DOMAIN ms, NEW queue \in Nat, NEW st, NEW new,
         NEW tokens \in Nat, NEW rate \in Nat, NEW log \in MatchLogType, NEW n \in Nat,
         IsFiniteSet(DOMAIN ms), st \in MatchState(DOMAIN ms), mid \notin st.filled,
         SoundPosition(st.matcher), SoundPosition(st.matchees[mid]),
         ~st.stopped => ~st.matcher_filled,
         LoopCounts(queue, st), FeesBelow(st.logs), Len(st.logs) <= n,
         IsMatch(k, id, mid, queue, st, new, tokens, rate, log)
  PROVE  LoopCounts(queue, new) /\ FeesBelow(new.logs) /\ Len(new.logs) <= n + 1
<1> DEFINE o == Opposite(k)
           below == BelowMinimum(o, new.matchees[mid])
<1>1. /\ new.logs = Append(st.logs, log) /\ ~st.stopped /\ queue + Len(st.logs) < MaxTradeLogs
      /\ new.filled = IF below THEN st.filled \cup {mid} ELSE st.filled
      /\ new.matcher_filled = BelowMinimum(k, new.matcher)
      /\ BelowMinimum(k, new.matcher) \/ below
      /\ tokens > 0 /\ rate > 0
  BY DEF IsMatch
<1>2. IsFiniteSet(st.filled) /\ Cardinality(st.filled) \in Nat
  <2>1. st.filled \in SUBSET DOMAIN ms
    BY DEF MatchState
  <2> QED
    BY <2>1, FS_Subset, FS_CardinalityType
<1>3. Cardinality(st.filled \cup {mid}) = Cardinality(st.filled) + 1
  BY <1>2, FS_AddElement
<1>4. st.logs \in Seq(MatchLogType)
  BY DEF MatchState
<1>5. /\ Len(new.logs) = Len(st.logs) + 1 /\ Len(st.logs) \in Nat
      /\ \A i \in 1 .. Len(st.logs) : new.logs[i] = st.logs[i]
      /\ new.logs[Len(st.logs) + 1] = log
      /\ 1 .. Len(st.logs) + 1 = (1 .. Len(st.logs)) \cup {Len(st.logs) + 1}
  BY <1>1, <1>4, AppendLog, LogsAreLogs
<1>6. \A j \in Kind : log.cts_fee[j] < log.mount[j]
  <2> TAKE h \in Kind
  <2>1. PICK j \in Kind : h = Opposite(j)
    BY Kinds
  <2> DEFINE p == IF j = k THEN st.matcher ELSE st.matchees[mid]
  <2>2. SoundPosition(p)
    OBVIOUS
  <2>3. log.mount[h] = Amount(h, tokens, rate) /\ log.cts_fee[h] = FeeAt(j, FeeCycles(j, p, tokens, rate), rate)
    BY <2>1 DEF IsMatch, IsLog
  <2> HIDE DEF p
  <2>4. FeeAt(j, FeeCycles(j, p, tokens, rate), rate) < Amount(Opposite(j), tokens, rate)
    BY <1>1, <2>2, FeeOfPosition
  <2> QED
    BY <2>1, <2>3, <2>4
<1>7. FeesBelow(new.logs)
  <2> SUFFICES ASSUME NEW i \in 1 .. Len(new.logs), NEW j \in Kind
               PROVE  new.logs[i].cts_fee[j] < new.logs[i].mount[j]
    BY DEF FeesBelow
  <2>1. CASE i \in 1 .. Len(st.logs)
    BY <1>5, <2>1 DEF FeesBelow
  <2>2. CASE i = Len(st.logs) + 1
    BY <1>5, <1>6, <2>2
  <2> QED
    BY <1>5, <2>1, <2>2
<1> HIDE DEF below
<1>8. LoopCounts(queue, new)
  <2>1. Len(st.logs) = Cardinality(st.filled)
    BY <1>1 DEF LoopCounts
  <2>2. queue + Len(new.logs) <= MaxTradeLogs /\ MaxTradeLogs \in Nat
    BY <1>1, <1>5, MatchingAssumption
  <2>3. new.logs # <<>>
    BY <1>5
  <2>4. CASE below
    BY <1>1, <1>3, <1>5, <2>1, <2>2, <2>3, <2>4 DEF LoopCounts
  <2>5. CASE ~below
    BY <1>1, <1>5, <2>1, <2>2, <2>3, <2>5 DEF LoopCounts
  <2> QED
    BY <2>4, <2>5
<1> QED
  BY <1>5, <1>7, <1>8

LEMMA SoundStep ==
  ASSUME NEW k, NEW p0, NEW ms, NEW id \in Nat, NEW queue, NEW limit \in Nat, NEW n \in Nat,
         n < Cardinality(DOMAIN ms), Matchable(k, p0, ms, queue),
         NEW st, LoopSound(k, p0, ms, queue, st, n),
         NEW new, new = MatchStep(k, id, queue, limit, st, InOrder(DOMAIN ms)[n + 1])
  PROVE  LoopSound(k, p0, ms, queue, new, n + 1)
<1> DEFINE D == DOMAIN ms
           c == Cardinality(D)
           mid == InOrder(D)[n + 1]
           o == Opposite(k)
<1>1. /\ k \in Kind /\ queue \in Nat /\ D \in SUBSET Nat /\ IsFiniteSet(D)
      /\ p0.mainder \in Nat /\ \A x \in D : ms[x].mainder \in Nat
  BY DEF Matchable, SoundPosition, PositionType
<1>2. /\ LoopPositions(k, p0, ms, st) /\ LoopSums(k, p0, ms, st) /\ LoopCounts(queue, st)
      /\ FeesBelow(st.logs) /\ Len(st.logs) <= n
      /\ \A i \in n + 1 .. c : InOrder(D)[i] \notin st.filled
  BY DEF LoopSound, Untouched
<1>3. /\ c \in Nat /\ n + 1 \in 1 .. c /\ n + 1 \in n + 1 .. c /\ mid \in D
      /\ \A i \in n + 1 + 1 .. c : i \in n + 1 .. c /\ InOrder(D)[i] # mid
  <2>1. c \in Nat /\ \A i \in 1 .. c : InOrder(D)[i] \in D
    BY <1>1, Ordered
  <2>2. \A i, j \in 1 .. c : InOrder(D)[i] = InOrder(D)[j] => i = j
    BY <1>1, Ordered
  <2> HIDE DEF D, c
  <2>3. n < c /\ n + 1 \in 1 .. c /\ n + 1 \in n + 1 .. c
    BY <2>1 DEF D, c
  <2>4. \A i \in n + 1 + 1 .. c : i \in n + 1 .. c /\ i \in 1 .. c /\ i # n + 1
    BY <2>1
  <2> QED
    BY <2>1, <2>2, <2>3, <2>4
<1>4. /\ st \in MatchState(D) /\ SoundPosition(st.matcher) /\ SoundPosition(st.matchees[mid])
      /\ mid \notin st.filled /\ Worth(o, st.matchees[mid])
      /\ ~st.stopped => Worth(k, st.matcher)
      /\ ~st.stopped => ~st.matcher_filled
  BY <1>2, <1>3 DEF LoopPositions
<1>5. Mainder(ms) \in Nat
  BY <1>1, MainderType
<1>6. queue \in Int
  BY <1>1
<1> HIDE DEF D, c, mid, o
<1>7. /\ new \in MatchState(D)
      /\ \/ new = st
         \/ IsCut(st, new)
         \/ \E tokens \in Nat, rate \in Nat, log \in MatchLogType :
              IsMatch(k, id, mid, queue, st, new, tokens, rate, log)
  <2>1. new = MatchStep(k, id, queue, limit, st, mid) /\ limit \in Nat /\ id \in Nat
    BY DEF mid, D
  <2> QED
    BY ONLY <1>1, <1>3, <1>4, <1>6, <2>1, StepIs DEF o
<1>8. ASSUME new.filled = st.filled \/ new.filled = st.filled \cup {mid}
      PROVE  \A i \in n + 1 + 1 .. c : InOrder(D)[i] \notin new.filled
  BY <1>2, <1>3, <1>8
<1>9. CASE new = st \/ IsCut(st, new)
  <2>1. /\ new.matcher = st.matcher /\ new.matchees = st.matchees /\ new.logs = st.logs
        /\ new.filled = st.filled /\ new.matcher_filled = st.matcher_filled
        /\ ~new.stopped => ~st.stopped
    BY <1>9 DEF IsCut
  <2>2. LoopPositions(k, p0, ms, new) /\ LoopSums(k, p0, ms, new) /\ LoopCounts(queue, new)
    BY <1>2, <1>7, <2>1 DEF LoopPositions, LoopSums, LoopCounts, D
  <2>3. Len(new.logs) <= n + 1
    <3>1. Len(st.logs) \in Nat
      BY <1>4, LogsAreLogs DEF MatchState
    <3> QED
      BY <1>2, <2>1, <3>1
  <2> QED
    BY <1>2, <1>8, <2>1, <2>2, <2>3 DEF LoopSound, Untouched, D, c
<1>10. ASSUME NEW tokens \in Nat, NEW rate \in Nat, NEW log \in MatchLogType,
              IsMatch(k, id, mid, queue, st, new, tokens, rate, log)
       PROVE  LoopSound(k, p0, ms, queue, new, n + 1)
  <2>1. LoopPositions(k, p0, ms, new)
    BY <1>1, <1>2, <1>3, <1>7, <1>10, MatchKeepsPositions DEF D
  <2>2. LoopSums(k, p0, ms, new)
    BY <1>1, <1>2, <1>3, <1>5, <1>10, <2>1, MatchKeepsSums DEF D
  <2>3. LoopCounts(queue, new) /\ FeesBelow(new.logs) /\ Len(new.logs) <= n + 1
    <3>1. n \in Nat /\ tokens \in Nat /\ rate \in Nat /\ log \in MatchLogType
      OBVIOUS
    <3> QED
      BY ONLY <1>1, <1>2, <1>3, <1>4, <1>10, <3>1, MatchKeepsCounts, Zenon DEF D
  <2>4. new.filled = st.filled \/ new.filled = st.filled \cup {mid}
    BY <1>10 DEF IsMatch
  <2> QED
    BY <1>8, <2>1, <2>2, <2>3, <2>4 DEF LoopSound, Untouched, D, c
<1> QED
  BY <1>7, <1>9, <1>10

(* What match_trades returns, by the first step of its loop that would not *)
(* keep it.                                                                *)
LEMMA MatchedSound ==
  ASSUME NEW k, NEW p0, NEW ms, NEW id \in Nat, NEW queue, NEW limit \in Nat,
         Matchable(k, p0, ms, queue)
  PROVE  LoopSound(k, p0, ms, queue, Matched(k, id, p0, ms, queue, limit), Cardinality(DOMAIN ms))
<1> DEFINE D == DOMAIN ms
           c == Cardinality(D)
           run == MatchRun(k, id, p0, ms, queue, limit)
           T == {n \in 0 .. c : ~LoopSound(k, p0, ms, queue, run[n], n)}
<1>1. D \in SUBSET Nat /\ IsFiniteSet(D) /\ c \in Nat
  BY FS_CardinalityType DEF Matchable
<1>2. /\ run[0] = FirstState(p0, ms)
      /\ \A n \in 1 .. c : run[n] = MatchStep(k, id, queue, limit, run[n - 1], InOrder(D)[n])
  <2> HIDE DEF c, run
  <2> QED
    BY <1>1, MatchRunIs DEF c, run
<1> HIDE DEF run
<1>3. ASSUME T # {} PROVE FALSE
  <2>1. PICK m \in T : \A n \in T : m <= n
    <3>1. T \subseteq Nat
      BY <1>1
    <3> HIDE DEF T
    <3> QED
      BY <3>1, <1>3, LeastNat
  <2>2. m \in 0 .. c /\ ~LoopSound(k, p0, ms, queue, run[m], m)
    OBVIOUS
  <2>3. m # 0
    BY <1>2, <2>2, FirstSound
  <2>4. m - 1 \in Nat /\ m - 1 \in 0 .. c /\ m - 1 < c /\ m \in 1 .. c /\ (m - 1) + 1 = m
    BY <1>1, <2>2, <2>3
  <2>5. LoopSound(k, p0, ms, queue, run[m - 1], m - 1)
    <3>1. m - 1 \notin T
      BY <2>1, <2>4
    <3> QED
      BY <2>4, <3>1
  <2> HIDE DEF T
  <2>6. run[m] = MatchStep(k, id, queue, limit, run[m - 1], InOrder(D)[(m - 1) + 1])
    BY <1>2, <2>4
  <2>7. LoopSound(k, p0, ms, queue, run[m], (m - 1) + 1)
    BY <2>4, <2>5, <2>6, SoundStep DEF D, c
  <2> QED
    BY <2>2, <2>4, <2>7
<1>4. LoopSound(k, p0, ms, queue, run[c], c)
  <2>1. c \in 0 .. c /\ c \notin T
    BY <1>1, <1>3
  <2> QED
    BY <2>1
<1> QED
  BY <1>4 DEF Matched, run
=============================================================================
