-------------------------------- MODULE Sums --------------------------------
(***************************************************************************)
(* Lemmas about SumFunction and SumFunctionOnSet of the community module   *)
(* Functions, which are recursive functions on the subsets of a finite     *)
(* set.  The library's theorems of induction take an operator, so these    *)
(* proofs are by a minimal counterexample: if a claim fails for a subset,  *)
(* it fails for a minimal one (MinimalSubset, from WFMin), and that one    *)
(* without one of its elements is no counterexample.  LeastNat is the same *)
(* for numbers, and serves for the loops of other modules.                 *)
(***************************************************************************)
EXTENDS Functions, FiniteSets, Integers, FiniteSetTheorems, WellFoundedInduction, TLAPS

(* A set of subsets of a finite set has a minimal one. *)
LEMMA MinimalSubset ==
  ASSUME NEW S, IsFiniteSet(S), NEW C, C \subseteq SUBSET S, C # {}
  PROVE  \E X \in C : \A Y \in C : Y \subseteq X => Y = X
<1>1. IsWellFoundedOn(StrictSubsetOrdering(S), SUBSET S)
  BY FS_StrictSubsetOrderingWellFounded, FS_FiniteSubsetsOfFinite
<1>2. \E X \in C : \A Y \in C : <<Y, X>> \notin StrictSubsetOrdering(S)
  BY <1>1, WFMin
<1> QED
  BY <1>2 DEF StrictSubsetOrdering

(* A set of naturals has a least one. *)
LEMMA LeastNat ==
  ASSUME NEW T, T \subseteq Nat, T # {}
  PROVE  \E m \in T : \A n \in T : m <= n
<1>1. PICK max \in T : TRUE
  OBVIOUS
<1> DEFINE C == {0 .. n - 1 : n \in {k \in T : k <= max}}
<1> DEFINE B == 0 .. max - 1
<1>2. IsFiniteSet(B)
  BY <1>1, FS_Interval
<1>3. C \subseteq SUBSET B /\ C # {}
  BY <1>1
<1>4. PICK X \in C : \A Y \in C : Y \subseteq X => Y = X
  <2> HIDE DEF C, B
  <2> QED
    BY <1>2, <1>3, MinimalSubset
<1>5. PICK m \in T : m <= max /\ X = 0 .. m - 1
  OBVIOUS
<1>6. ASSUME NEW n \in T, ~(m <= n)
      PROVE  FALSE
  <2>1. n \in Nat /\ m \in Nat /\ n < m /\ n <= max
    BY <1>5, <1>6, <1>1
  <2>2. 0 .. n - 1 \in C /\ 0 .. n - 1 \subseteq X
    BY <1>5, <2>1
  <2>4. 0 .. n - 1 = 0 .. m - 1
    BY <1>4, <1>5, <2>2
  <2>3. n \in 0 .. m - 1
    BY <2>1
  <2> QED
    BY <2>1, <2>4, <2>3
<1> QED
  BY <1>6

----------------------------------------------------------------------------
(* The sum over a set exists as a recursive function, and is unique. *)

(* The element that a fold takes first. *)
Some(s) == CHOOSE x \in s : TRUE
(* g has the sum of f over each set of D. *)
IsSum(g, f, D) ==
  g = [s \in D |-> IF s = {} THEN 0 ELSE f[Some(s)] + g[s \ {Some(s)}]]

LEMMA SomeIn == ASSUME NEW s, s # {} PROVE Some(s) \in s
  BY DEF Some

(* The definition of the community module, unfolded. *)
LEMMA SumFunctionIs ==
  ASSUME NEW f, NEW S
  PROVE  SumFunctionOnSet(f, S) = (CHOOSE g : IsSum(g, f, SUBSET S))[S]
  BY DEF SumFunctionOnSet, FoldFunctionOnSet, MapThenFoldSet, IsSum, Some

(* The subsets of S with at most n elements. *)
UpTo(n, S) == {s \in SUBSET S : Cardinality(s) <= n}

(* A sum over the sets with n elements extends to those with one more. *)
LEMMA IsSumStep ==
  ASSUME NEW f, NEW S, IsFiniteSet(S), NEW n \in Nat, NEW g, IsSum(g, f, UpTo(n, S))
  PROVE  \E h : IsSum(h, f, UpTo(n + 1, S))
<1> DEFINE D == UpTo(n, S)
           E == UpTo(n + 1, S)
           h == [s \in E |-> IF s = {} THEN 0
                             ELSE IF s \in D THEN g[s]
                             ELSE f[Some(s)] + g[s \ {Some(s)}]]
<1>1. \A s \in E : s # {} => s \ {Some(s)} \in D
  <2> TAKE s \in E
  <2> HAVE s # {}
  <2>1. IsFiniteSet(s) /\ Some(s) \in s /\ s \subseteq S
    BY FS_Subset, SomeIn DEF UpTo
  <2>2. Cardinality(s \ {Some(s)}) = Cardinality(s) - 1 /\ Cardinality(s) \in Nat
    BY <2>1, FS_RemoveElement, FS_CardinalityType
  <2> QED
    BY <2>1, <2>2 DEF UpTo
<1>2. D \subseteq E
  BY FS_Subset, FS_CardinalityType DEF UpTo
<1>3. \A s \in D : g[s] = IF s = {} THEN 0 ELSE f[Some(s)] + g[s \ {Some(s)}]
  BY DEF IsSum
<1>4. \A s \in E : s # {} => h[s \ {Some(s)}] = g[s \ {Some(s)}]
  <2> TAKE s \in E
  <2> HAVE s # {}
  <2> DEFINE r == s \ {Some(s)}
  <2>1. r \in D /\ r \in E
    BY <1>1, <1>2
  <2> HIDE DEF r
  <2>2. h[r] = g[r]
    BY <2>1, <1>3 DEF D, E
  <2> QED
    BY <2>2 DEF r
<1>5. \A s \in E : h[s] = IF s = {} THEN 0 ELSE f[Some(s)] + h[s \ {Some(s)}]
  <2> TAKE s \in E
  <2> HIDE DEF D, E
  <2>1. CASE s = {}
    BY <2>1
  <2>2. CASE s # {} /\ s \in D
    BY <2>2, <1>3, <1>4
  <2>3. CASE s # {} /\ s \notin D
    BY <2>3, <1>4
  <2> QED
    BY <2>1, <2>2, <2>3
<1>6. IsSum(h, f, E)
  <2> HIDE DEF D, E
  <2>1. h = [s \in E |-> h[s]]
    OBVIOUS
  <2> QED
    BY <2>1, <1>5 DEF IsSum
<1> QED
  BY <1>6

(* Hence there is one for every size. *)
LEMMA IsSumUpTo ==
  ASSUME NEW f, NEW S, IsFiniteSet(S)
  PROVE  \A n \in Nat : \E g : IsSum(g, f, UpTo(n, S))
<1> DEFINE T == {n \in Nat : ~ \E g : IsSum(g, f, UpTo(n, S))}
<1>1. \E g : IsSum(g, f, UpTo(0, S))
  <2>1. UpTo(0, S) = {{}}
    <3>1. \A s \in SUBSET S : IsFiniteSet(s) /\ Cardinality(s) \in Nat
      BY FS_Subset, FS_CardinalityType
    <3> QED
      BY <3>1, FS_EmptySet DEF UpTo
  <2>2. IsSum([s \in {{}} |-> 0], f, {{}})
    BY DEF IsSum
  <2> QED
    BY <2>1, <2>2
<1>2. ASSUME T # {} PROVE FALSE
  <2>1. PICK m \in T : \A n \in T : m <= n
    <3> HIDE DEF T
    <3>1. T \subseteq Nat
      BY DEF T
    <3> QED
      BY <3>1, <1>2, LeastNat
  <2>2. m - 1 \in Nat /\ m - 1 \notin T
    BY <2>1, <1>1
  <2>3. PICK g : IsSum(g, f, UpTo(m - 1, S))
    BY <2>2
  <2>4. (m - 1) + 1 = m
    BY <2>1
  <2>5. \E h : IsSum(h, f, UpTo(m, S))
    BY <2>2, <2>3, <2>4, IsSumStep
  <2> QED
    BY <2>1, <2>5
<1> QED
  BY <1>2

(* What the definition chooses is a sum over all subsets. *)
LEMMA SumExists ==
  ASSUME NEW f, NEW S, IsFiniteSet(S)
  PROVE  IsSum(CHOOSE g : IsSum(g, f, SUBSET S), f, SUBSET S)
<1>1. UpTo(Cardinality(S), S) = SUBSET S
  BY FS_Subset DEF UpTo
<1>2. Cardinality(S) \in Nat
  BY FS_CardinalityType
<1>3. \E g : IsSum(g, f, UpTo(Cardinality(S), S))
  BY <1>2, IsSumUpTo
<1> QED
  BY <1>1, <1>3

(* Two sums of a function agree on the sets that both have.                *)
LEMMA SumUnique ==
  ASSUME NEW f, NEW S, IsFiniteSet(S), NEW R \in SUBSET S, NEW g, NEW h,
         IsSum(g, f, SUBSET S), IsSum(h, f, SUBSET R)
  PROVE  g[R] = h[R]
<1> DEFINE C == {s \in SUBSET R : g[s] # h[s]}
<1>1. ASSUME C # {} PROVE FALSE
  <2>1. PICK X \in C : \A Y \in C : Y \subseteq X => Y = X
    <3> HIDE DEF C
    <3>1. C \subseteq SUBSET R /\ IsFiniteSet(R)
      BY FS_Subset DEF C
    <3> QED
      BY <3>1, <1>1, MinimalSubset
  <2> DEFINE Y == X \ {Some(X)}
  <2>2. CASE X = {}
    BY <2>2, <2>1 DEF IsSum
  <2>3. CASE X # {}
    <3>1. Y \subseteq X /\ Y # X /\ Y \in SUBSET R
      BY <2>1, <2>3, SomeIn
    <3>2. g[Y] = h[Y]
      <4> HIDE DEF Y
      <4> QED
        BY <3>1, <2>1
    <3>3. g[X] = f[Some(X)] + g[Y] /\ h[X] = f[Some(X)] + h[Y]
      BY <2>1, <2>3 DEF IsSum
    <3> QED
      BY <3>2, <3>3, <2>1
  <2> QED
    BY <2>2, <2>3
<1> QED
  BY <1>1

----------------------------------------------------------------------------
(* The sum over a set. *)

LEMMA SumEmpty == ASSUME NEW f PROVE SumFunctionOnSet(f, {}) = 0
<1>1. IsSum(CHOOSE g : IsSum(g, f, SUBSET {}), f, SUBSET {})
  BY SumExists, FS_EmptySet
<1> QED
  BY <1>1, SumFunctionIs DEF IsSum

(* The step of the recursion. *)
LEMMA SumOfSome ==
  ASSUME NEW f, NEW S, IsFiniteSet(S), S # {}
  PROVE  SumFunctionOnSet(f, S) = f[Some(S)] + SumFunctionOnSet(f, S \ {Some(S)})
<1> DEFINE R == S \ {Some(S)}
           G(D) == CHOOSE g : IsSum(g, f, SUBSET D)
<1>1. IsFiniteSet(R) /\ R \in SUBSET S
  BY FS_Subset
<1>2. IsSum(G(S), f, SUBSET S) /\ IsSum(G(R), f, SUBSET R)
  BY <1>1, SumExists
<1>3. G(S)[S] = f[Some(S)] + G(S)[R]
  BY <1>2 DEF IsSum
<1>4. G(S)[R] = G(R)[R]
  <2> HIDE DEF R, G
  <2> QED
    BY <1>1, <1>2, SumUnique
<1> QED
  BY <1>3, <1>4, SumFunctionIs

(* A sum of integers is an integer. *)
LEMMA SumInt ==
  ASSUME NEW f, NEW S, IsFiniteSet(S), \A x \in S : f[x] \in Int
  PROVE  SumFunctionOnSet(f, S) \in Int
<1> DEFINE C == {s \in SUBSET S : SumFunctionOnSet(f, s) \notin Int}
<1>1. ASSUME C # {} PROVE FALSE
  <2>1. PICK X \in C : \A Y \in C : Y \subseteq X => Y = X
    <3> HIDE DEF C
    <3>1. C \subseteq SUBSET S
      BY DEF C
    <3> QED
      BY <3>1, <1>1, MinimalSubset
  <2>2. X # {}
    <3>1. SumFunctionOnSet(f, {}) \in Int
      BY SumEmpty
    <3> QED
      BY <3>1, <2>1
  <2> DEFINE Y == X \ {Some(X)}
  <2>3. Y \subseteq X /\ Y # X /\ Y \in SUBSET S /\ Some(X) \in S /\ IsFiniteSet(X)
    BY <2>1, <2>2, SomeIn, FS_Subset
  <2>4. SumFunctionOnSet(f, X) = f[Some(X)] + SumFunctionOnSet(f, Y)
    BY <2>2, <2>3, SumOfSome
  <2>5. SumFunctionOnSet(f, Y) \in Int
    <3> HIDE DEF Y
    <3> QED
      BY <2>1, <2>3
  <2> QED
    BY <2>1, <2>3, <2>4, <2>5
<1> QED
  BY <1>1

(* Any element can be taken out of a sum, not only the chosen one.         *)
LEMMA SumRemove ==
  ASSUME NEW f, NEW S, IsFiniteSet(S), \A x \in S : f[x] \in Int, NEW x \in S
  PROVE  SumFunctionOnSet(f, S) = f[x] + SumFunctionOnSet(f, S \ {x})
<1> DEFINE Sm(s) == SumFunctionOnSet(f, s)
           Bad(s) == \E y \in s : Sm(s) # f[y] + Sm(s \ {y})
           C == {s \in SUBSET S : Bad(s)}
<1>1. ASSUME C # {} PROVE FALSE
  <2>1. PICK X \in C : \A Y \in C : Y \subseteq X => Y = X
    <3> HIDE DEF C
    <3>1. C \subseteq SUBSET S
      BY DEF C
    <3> QED
      BY <3>1, <1>1, MinimalSubset
  <2>2. PICK y \in X : Sm(X) # f[y] + Sm(X \ {y})
    BY <2>1
  <2> DEFINE c == Some(X)
             A == X \ {c}
             B == X \ {y}
             D == X \ {c, y}
  <2>3. X \in SUBSET S /\ IsFiniteSet(X) /\ c \in X /\ IsFiniteSet(A) /\ IsFiniteSet(B) /\ IsFiniteSet(D)
    BY <2>1, <2>2, SomeIn, FS_Subset
  <2>4. Sm(X) = f[c] + Sm(A)
    BY <2>2, <2>3, SumOfSome
  <2>5. c # y
    BY <2>2, <2>4
  <2>6. Sm(A) = f[y] + Sm(A \ {y})
    <3>1. A \notin C /\ A \in SUBSET S
      <4> HIDE DEF C
      <4> QED
        BY <2>1, <2>3
    <3> QED
      BY <3>1, <2>2, <2>5
  <2>7. Sm(B) = f[c] + Sm(B \ {c})
    <3>1. B \notin C /\ B \in SUBSET S
      <4> HIDE DEF C
      <4> QED
        BY <2>1, <2>2, <2>3
    <3>2. c \in B
      BY <2>3, <2>5
    <3> QED
      BY <3>1, <3>2
  <2>8. A \ {y} = D /\ B \ {c} = D
    OBVIOUS
  <2>9. Sm(D) \in Int /\ f[c] \in Int /\ f[y] \in Int
    <3>1. \A z \in D : f[z] \in Int
      BY <2>3
    <3> HIDE DEF D
    <3> QED
      BY <3>1, <2>2, <2>3, SumInt
  <2>10. Sm(X) # f[y] + Sm(B)
    BY <2>2
  <2>11. Sm(A) = f[y] + Sm(D) /\ Sm(B) = f[c] + Sm(D)
    BY <2>6, <2>7, <2>8
  <2> HIDE DEF D, A, B, Sm, C
  <2> QED
    BY <2>10, <2>4, <2>11, <2>9
<1> QED
  BY <1>1

(* Equal terms have equal sums. *)
LEMMA SumSame ==
  ASSUME NEW f, NEW g, NEW S, IsFiniteSet(S), \A x \in S : f[x] = g[x]
  PROVE  SumFunctionOnSet(f, S) = SumFunctionOnSet(g, S)
<1> DEFINE C == {s \in SUBSET S : SumFunctionOnSet(f, s) # SumFunctionOnSet(g, s)}
<1>1. ASSUME C # {} PROVE FALSE
  <2>1. PICK X \in C : \A Y \in C : Y \subseteq X => Y = X
    <3> HIDE DEF C
    <3>1. C \subseteq SUBSET S
      BY DEF C
    <3> QED
      BY <3>1, <1>1, MinimalSubset
  <2>2. X # {}
    <3>1. SumFunctionOnSet(f, {}) = SumFunctionOnSet(g, {})
      BY SumEmpty
    <3> QED
      BY <3>1, <2>1
  <2> DEFINE Y == X \ {Some(X)}
  <2>3. Y \subseteq X /\ Y # X /\ Y \in SUBSET S /\ Some(X) \in S /\ IsFiniteSet(X)
    BY <2>1, <2>2, SomeIn, FS_Subset
  <2>4. /\ SumFunctionOnSet(f, X) = f[Some(X)] + SumFunctionOnSet(f, Y)
        /\ SumFunctionOnSet(g, X) = g[Some(X)] + SumFunctionOnSet(g, Y)
    BY <2>2, <2>3, SumOfSome
  <2>5. SumFunctionOnSet(f, Y) = SumFunctionOnSet(g, Y)
    <3> HIDE DEF Y
    <3> QED
      BY <2>1, <2>3
  <2> QED
    BY <2>1, <2>3, <2>4, <2>5
<1> QED
  BY <1>1

(* A sum of naturals is a natural. *)
LEMMA SumNat ==
  ASSUME NEW f, NEW S, IsFiniteSet(S), \A x \in S : f[x] \in Nat
  PROVE  SumFunctionOnSet(f, S) \in Nat
<1> DEFINE C == {s \in SUBSET S : SumFunctionOnSet(f, s) \notin Nat}
<1>1. ASSUME C # {} PROVE FALSE
  <2>1. PICK X \in C : \A Y \in C : Y \subseteq X => Y = X
    <3> HIDE DEF C
    <3>1. C \subseteq SUBSET S
      BY DEF C
    <3> QED
      BY <3>1, <1>1, MinimalSubset
  <2>2. X # {}
    <3>1. SumFunctionOnSet(f, {}) \in Nat
      BY SumEmpty
    <3> QED
      BY <3>1, <2>1
  <2> DEFINE Y == X \ {Some(X)}
  <2>3. Y \subseteq X /\ Y # X /\ Y \in SUBSET S /\ Some(X) \in S /\ IsFiniteSet(X)
    BY <2>1, <2>2, SomeIn, FS_Subset
  <2>4. SumFunctionOnSet(f, X) = f[Some(X)] + SumFunctionOnSet(f, Y)
    BY <2>2, <2>3, SumOfSome
  <2>5. SumFunctionOnSet(f, Y) \in Nat
    <3> HIDE DEF Y
    <3> QED
      BY <2>1, <2>3
  <2> QED
    BY <2>1, <2>3, <2>4, <2>5
<1> QED
  BY <1>1

(* One more element. *)
LEMMA SumAdd ==
  ASSUME NEW f, NEW S, IsFiniteSet(S), NEW x, x \notin S,
         \A y \in S \cup {x} : f[y] \in Int
  PROVE  SumFunctionOnSet(f, S \cup {x}) = SumFunctionOnSet(f, S) + f[x]
<1> DEFINE T == S \cup {x}
<1>1. IsFiniteSet(T) /\ x \in T /\ T \ {x} = S
  BY FS_AddElement
<1>2. SumFunctionOnSet(f, T) = f[x] + SumFunctionOnSet(f, S)
  <2> HIDE DEF T
  <2>1. \A y \in T : f[y] \in Int
    BY DEF T
  <2> QED
    BY <1>1, <2>1, SumRemove
<1>3. SumFunctionOnSet(f, S) \in Int /\ f[x] \in Int
  BY SumInt
<1> QED
  BY <1>2, <1>3

(* A single element. *)
LEMMA SumOne ==
  ASSUME NEW f, NEW x, f[x] \in Int
  PROVE  SumFunctionOnSet(f, {x}) = f[x]
<1>1. SumFunctionOnSet(f, {x}) = f[x] + SumFunctionOnSet(f, {x} \ {x})
  BY SumRemove, FS_Singleton
<1>2. {x} \ {x} = {}
  OBVIOUS
<1> QED
  BY <1>1, <1>2, SumEmpty

(* One term changes. *)
LEMMA SumChange ==
  ASSUME NEW f, NEW g, NEW S, IsFiniteSet(S), NEW x \in S,
         \A y \in S : f[y] \in Int /\ g[y] \in Int,
         \A y \in S \ {x} : f[y] = g[y]
  PROVE  SumFunctionOnSet(g, S) = SumFunctionOnSet(f, S) - f[x] + g[x]
<1>1. SumFunctionOnSet(f, S) = f[x] + SumFunctionOnSet(f, S \ {x})
  BY SumRemove
<1>2. SumFunctionOnSet(g, S) = g[x] + SumFunctionOnSet(g, S \ {x})
  BY SumRemove
<1>3. SumFunctionOnSet(f, S \ {x}) = SumFunctionOnSet(g, S \ {x})
  BY SumSame, FS_Subset
<1>4. SumFunctionOnSet(f, S \ {x}) \in Int
  BY SumInt, FS_Subset
<1> QED
  BY <1>1, <1>2, <1>3, <1>4

(* Two sums of disjoint sets add up. *)
LEMMA SumUnion ==
  ASSUME NEW f, NEW S, IsFiniteSet(S), NEW T, IsFiniteSet(T), S \cap T = {},
         \A y \in S \cup T : f[y] \in Int
  PROVE  SumFunctionOnSet(f, S \cup T) = SumFunctionOnSet(f, S) + SumFunctionOnSet(f, T)
<1> DEFINE Sm(s) == SumFunctionOnSet(f, s)
           C == {s \in SUBSET T : Sm(S \cup s) # Sm(S) + Sm(s)}
<1>1. ASSUME C # {} PROVE FALSE
  <2>1. PICK X \in C : \A Y \in C : Y \subseteq X => Y = X
    <3> HIDE DEF C
    <3>1. C \subseteq SUBSET T
      BY DEF C
    <3> QED
      BY <3>1, <1>1, MinimalSubset
  <2>2. Sm(S) \in Int
    BY SumInt
  <2>3. X # {}
    <3>1. Sm(S \cup {}) = Sm(S) + Sm({})
      <4>1. S \cup {} = S
        OBVIOUS
      <4> QED
        BY <4>1, <2>2, SumEmpty
    <3> QED
      BY <3>1, <2>1
  <2> DEFINE c == Some(X)
             Y == X \ {c}
  <2>4. Y \subseteq X /\ Y # X /\ Y \in SUBSET T /\ c \in T /\ c \notin Y
    BY <2>1, <2>3, SomeIn
  <2>5. IsFiniteSet(X) /\ IsFiniteSet(Y)
    BY <2>1, FS_Subset
  <2>6. IsFiniteSet(S \cup Y)
    <3> HIDE DEF Y
    <3> QED
      BY <2>5, FS_Union
  <2>7. S \cup X = (S \cup Y) \cup {c} /\ X = Y \cup {c}
    BY <2>3, SomeIn
  <2>8. Sm((S \cup Y) \cup {c}) = Sm(S \cup Y) + f[c] /\ Sm(Y \cup {c}) = Sm(Y) + f[c]
    <3>1. c \notin S \cup Y /\ \A y \in (S \cup Y) \cup {c} : f[y] \in Int
      BY <2>4
    <3> HIDE DEF Y, c
    <3> QED
      BY <3>1, <2>5, <2>6, SumAdd
  <2>9. Sm(S \cup Y) = Sm(S) + Sm(Y)
    <3> HIDE DEF Y
    <3> QED
      BY <2>1, <2>4
  <2>10. Sm(Y) \in Int /\ f[c] \in Int
    <3>1. \A y \in Y : f[y] \in Int
      BY <2>4
    <3> HIDE DEF Y, c
    <3> QED
      BY <3>1, <2>4, <2>5, SumInt
  <2>11. Sm(S \cup X) # Sm(S) + Sm(X)
    BY <2>1
  <2> HIDE DEF Y, c, Sm
  <2>12. Sm(S \cup X) = Sm(S) + Sm(Y) + f[c] /\ Sm(X) = Sm(Y) + f[c]
    BY <2>7, <2>8, <2>9
  <2> QED
    BY <2>2, <2>10, <2>11, <2>12
<1>2. T \notin C
  BY <1>1
<1> QED
  BY <1>2

----------------------------------------------------------------------------
(* The same for whole functions: an argument is added, dropped or changed. *)
LEMMA SumPut ==
  ASSUME NEW f, NEW g, NEW x, IsFiniteSet(DOMAIN f), x \notin DOMAIN f,
         DOMAIN g = DOMAIN f \cup {x}, \A y \in DOMAIN g : g[y] \in Int,
         \A y \in DOMAIN f : f[y] = g[y]
  PROVE  SumFunction(g) = SumFunction(f) + g[x]
<1>1. SumFunctionOnSet(g, DOMAIN f) = SumFunctionOnSet(f, DOMAIN f)
  BY SumSame
<1>2. SumFunctionOnSet(g, DOMAIN f \cup {x}) = SumFunctionOnSet(g, DOMAIN f) + g[x]
  BY SumAdd
<1> QED
  BY <1>1, <1>2 DEF SumFunction

LEMMA SumDrop ==
  ASSUME NEW f, NEW g, NEW x, IsFiniteSet(DOMAIN f), x \in DOMAIN f,
         DOMAIN g = DOMAIN f \ {x}, \A y \in DOMAIN f : f[y] \in Int,
         \A y \in DOMAIN g : f[y] = g[y]
  PROVE  SumFunction(f) = SumFunction(g) + f[x]
<1>1. IsFiniteSet(DOMAIN g) /\ DOMAIN f = DOMAIN g \cup {x} /\ x \notin DOMAIN g
  BY FS_Subset
<1> QED
  BY <1>1, SumPut

LEMMA SumUpdate ==
  ASSUME NEW f, NEW g, NEW x, IsFiniteSet(DOMAIN f), x \in DOMAIN f, DOMAIN g = DOMAIN f,
         \A y \in DOMAIN f : f[y] \in Int /\ g[y] \in Int,
         \A y \in DOMAIN f \ {x} : f[y] = g[y]
  PROVE  SumFunction(g) = SumFunction(f) - f[x] + g[x]
BY SumChange DEF SumFunction

LEMMA SumKeep ==
  ASSUME NEW f, NEW g, IsFiniteSet(DOMAIN f), DOMAIN g = DOMAIN f,
         \A y \in DOMAIN f : f[y] = g[y]
  PROVE  SumFunction(g) = SumFunction(f)
BY SumSame DEF SumFunction

LEMMA SumType ==
  ASSUME NEW f, IsFiniteSet(DOMAIN f), \A x \in DOMAIN f : f[x] \in Int
  PROVE  /\ SumFunction(f) \in Int
         /\ (\A x \in DOMAIN f : f[x] \in Nat) => SumFunction(f) \in Nat
BY SumInt, SumNat DEF SumFunction

(* At most one argument comes, goes or changes. *)
LEMMA SumAt ==
  ASSUME NEW f, NEW g, NEW x, IsFiniteSet(DOMAIN f), DOMAIN g \ {x} = DOMAIN f \ {x},
         \A y \in DOMAIN f : f[y] \in Int, \A y \in DOMAIN g : g[y] \in Int,
         \A y \in DOMAIN f \ {x} : f[y] = g[y]
  PROVE  SumFunction(g) = SumFunction(f) - (IF x \in DOMAIN f THEN f[x] ELSE 0)
                                         + (IF x \in DOMAIN g THEN g[x] ELSE 0)
<1>1. SumFunction(f) \in Int
  BY SumType
<1>2. CASE x \in DOMAIN f /\ x \in DOMAIN g
  <2>1. DOMAIN g = DOMAIN f
    BY <1>2
  <2>2. SumFunction(g) = SumFunction(f) - f[x] + g[x]
    BY <1>2, <2>1, SumUpdate
  <2> QED
    BY <1>2, <2>2
<1>3. CASE x \in DOMAIN f /\ x \notin DOMAIN g
  <2>1. DOMAIN g = DOMAIN f \ {x} /\ DOMAIN g \in SUBSET DOMAIN f
    BY <1>3
  <2>3. IsFiniteSet(DOMAIN g)
    BY <2>1, FS_Subset
  <2>2. SumFunction(f) = SumFunction(g) + f[x] /\ SumFunction(g) \in Int /\ f[x] \in Int
    BY <1>3, <2>1, <2>3, SumDrop, SumType
  <2> QED
    BY <1>3, <2>2
<1>4. CASE x \notin DOMAIN f /\ x \in DOMAIN g
  <2>1. DOMAIN g = DOMAIN f \cup {x}
    BY <1>4
  <2>2. SumFunction(g) = SumFunction(f) + g[x]
    BY <1>4, <2>1, SumPut
  <2> QED
    BY <1>1, <1>4, <2>2
<1>5. CASE x \notin DOMAIN f /\ x \notin DOMAIN g
  <2>1. DOMAIN g = DOMAIN f
    BY <1>5
  <2>2. SumFunction(g) = SumFunction(f)
    BY <1>5, <2>1, SumKeep
  <2> QED
    BY <1>1, <1>5, <2>2
<1> QED
  BY <1>2, <1>3, <1>4, <1>5

(* A sum of naturals is at least each of its terms. *)
LEMMA SumAtLeast ==
  ASSUME NEW f, IsFiniteSet(DOMAIN f), \A y \in DOMAIN f : f[y] \in Nat, NEW x \in DOMAIN f
  PROVE  f[x] <= SumFunction(f)
<1>1. SumFunctionOnSet(f, DOMAIN f) = f[x] + SumFunctionOnSet(f, DOMAIN f \ {x})
  BY SumRemove
<1>2. SumFunctionOnSet(f, DOMAIN f \ {x}) \in Nat
  BY SumNat, FS_Subset
<1> QED
  BY <1>1, <1>2 DEF SumFunction

(* No argument, and only zeros. *)
LEMMA SumNothing ==
  ASSUME NEW f, DOMAIN f = {}
  PROVE  SumFunction(f) = 0
BY SumEmpty DEF SumFunction

LEMMA SumZero ==
  ASSUME NEW f, IsFiniteSet(DOMAIN f), \A x \in DOMAIN f : f[x] = 0
  PROVE  SumFunction(f) = 0
<1> DEFINE C == {s \in SUBSET DOMAIN f : SumFunctionOnSet(f, s) # 0}
<1>1. ASSUME C # {} PROVE FALSE
  <2>1. PICK X \in C : \A Y \in C : Y \subseteq X => Y = X
    <3> HIDE DEF C
    <3>1. C \subseteq SUBSET DOMAIN f
      BY DEF C
    <3> QED
      BY <3>1, <1>1, MinimalSubset
  <2>2. X # {}
    <3>1. SumFunctionOnSet(f, {}) = 0
      BY SumEmpty
    <3> QED
      BY <3>1, <2>1
  <2> DEFINE Y == X \ {Some(X)}
  <2>3. Y \subseteq X /\ Y # X /\ Y \in SUBSET DOMAIN f /\ Some(X) \in DOMAIN f /\ IsFiniteSet(X)
    BY <2>1, <2>2, SomeIn, FS_Subset
  <2>4. SumFunctionOnSet(f, X) = f[Some(X)] + SumFunctionOnSet(f, Y)
    BY <2>2, <2>3, SumOfSome
  <2>5. SumFunctionOnSet(f, Y) = 0
    <3> HIDE DEF Y
    <3> QED
      BY <2>1, <2>3
  <2> QED
    BY <2>1, <2>3, <2>4, <2>5
<1> QED
  BY <1>1 DEF SumFunction

(* What holds for two terms and a third, holds for their sums. *)
LEMMA SumTogether ==
  ASSUME NEW f, NEW g, NEW h, NEW S, IsFiniteSet(S),
         \A x \in S : f[x] \in Nat /\ g[x] \in Nat /\ h[x] \in Nat /\ f[x] + g[x] <= h[x]
  PROVE  SumFunctionOnSet(f, S) + SumFunctionOnSet(g, S) <= SumFunctionOnSet(h, S)
<1> DEFINE Low(s) == SumFunctionOnSet(f, s) + SumFunctionOnSet(g, s) <= SumFunctionOnSet(h, s)
           C == {s \in SUBSET S : ~Low(s)}
<1>1. ASSUME C # {} PROVE FALSE
  <2>1. PICK X \in C : \A Y \in C : Y \subseteq X => Y = X
    <3> HIDE DEF C
    <3>1. C \subseteq SUBSET S
      BY DEF C
    <3> QED
      BY <3>1, <1>1, MinimalSubset
  <2>2. X # {}
    <3>1. Low({})
      BY SumEmpty
    <3> HIDE DEF Low
    <3> QED
      BY <3>1, <2>1
  <2> DEFINE Y == X \ {Some(X)}
  <2>3. Y \subseteq X /\ Y # X /\ Y \in SUBSET S /\ Some(X) \in S /\ IsFiniteSet(X) /\ IsFiniteSet(Y)
    BY <2>1, <2>2, SomeIn, FS_Subset
  <2> DEFINE a == f[Some(X)]
             b == g[Some(X)]
             c == h[Some(X)]
             F == SumFunctionOnSet(f, Y)
             G == SumFunctionOnSet(g, Y)
             H == SumFunctionOnSet(h, Y)
  <2>4. /\ SumFunctionOnSet(f, X) = a + F
        /\ SumFunctionOnSet(g, X) = b + G
        /\ SumFunctionOnSet(h, X) = c + H
    BY <2>2, <2>3, SumOfSome
  <2>5. Low(Y)
    <3> HIDE DEF Y
    <3> QED
      BY <2>1, <2>3
  <2>6. F \in Nat /\ G \in Nat /\ H \in Nat
    BY <2>3, SumNat
  <2>7. a \in Nat /\ b \in Nat /\ c \in Nat /\ a + b <= c /\ F + G <= H
    BY <2>3, <2>5
  <2> HIDE DEF a, b, c, F, G, H
  <2>8. (a + F) + (b + G) <= c + H
    BY <2>6, <2>7
  <2>9. Low(X)
    BY <2>4, <2>8
  <2> QED
    BY <2>1, <2>9
<1>2. S \notin C
  BY <1>1
<1> QED
  BY <1>2

(* A sum of fewer and smaller arguments is no greater. *)
LEMMA SumInto ==
  ASSUME NEW f, NEW g, NEW h, IsFiniteSet(DOMAIN f), IsFiniteSet(DOMAIN g),
         \A x \in DOMAIN f : f[x] \in Nat,
         \A x \in DOMAIN g : h[x] \in DOMAIN f /\ g[x] \in Nat /\ g[x] <= f[h[x]],
         \A x, y \in DOMAIN g : h[x] = h[y] => x = y
  PROVE  /\ SumFunction(g) \in Nat /\ SumFunction(f) \in Nat
         /\ SumFunction(g) <= SumFunction(f)
<1> DEFINE F == DOMAIN f
           G == DOMAIN g
           H(R) == {h[x] : x \in R}
           S(R) == SumFunctionOnSet(g, R)
           T(R) == SumFunctionOnSet(f, R)
           C == {R \in SUBSET G : ~(S(R) <= T(H(R)))}
<1>1. ASSUME NEW R \in SUBSET G
      PROVE  /\ IsFiniteSet(R) /\ H(R) \in SUBSET F /\ IsFiniteSet(H(R))
             /\ S(R) \in Nat /\ T(H(R)) \in Nat
  <2>1. IsFiniteSet(R) /\ H(R) \in SUBSET F
    BY FS_Subset
  <2>2. IsFiniteSet(H(R))
    BY <2>1, FS_Subset
  <2> QED
    BY <2>1, <2>2, SumNat
<1>2. C = {}
  <2> SUFFICES ASSUME C # {} PROVE FALSE
    OBVIOUS
  <2>1. PICK R \in C : \A Q \in C : Q \subseteq R => Q = R
    <3>1. C \subseteq SUBSET G
      OBVIOUS
    <3> HIDE DEF C
    <3> QED
      BY <3>1, MinimalSubset DEF G
  <2>2. R # {}
    <3>1. H({}) = {} /\ ~(S(R) <= T(H(R)))
      BY <2>1
    <3>2. S({}) = 0 /\ T({}) = 0
      BY SumEmpty
    <3> HIDE DEF H, S, T
    <3> QED
      BY <3>1, <3>2
  <2>3. PICK x \in R : TRUE
    BY <2>2
  <2> DEFINE Q == R \ {x}
  <2>4. Q \in SUBSET G /\ Q \subseteq R /\ Q # R
    BY <2>3
  <2>5. S(Q) <= T(H(Q))
    BY <2>1, <2>4
  <2>6. S(R) = g[x] + S(Q)
    <3>1. IsFiniteSet(R) /\ \A y \in R : g[y] \in Int
      BY <1>1
    <3> QED
      BY <2>3, <3>1, SumRemove
  <2>7. T(H(R)) = T(H(Q)) + f[h[x]]
    <3>1. H(R) = H(Q) \cup {h[x]} /\ h[x] \notin H(Q)
      BY <2>3
    <3>2. IsFiniteSet(H(Q)) /\ H(Q) \in SUBSET F
      <4> HIDE DEF H, Q
      <4> QED
        BY <1>1, <2>4
    <3>3. \A y \in H(Q) \cup {h[x]} : f[y] \in Int
      BY <3>2, <2>3
    <3> HIDE DEF H, Q
    <3> QED
      BY <3>1, <3>2, <3>3, SumAdd
  <2>8. g[x] \in Nat /\ f[h[x]] \in Nat /\ g[x] <= f[h[x]]
    BY <2>3
  <2>9. S(Q) \in Nat /\ T(H(Q)) \in Nat
    BY <1>1, <2>4
  <2>10. ~(S(R) <= T(H(R)))
    BY <2>1
  <2> HIDE DEF S, T, H, Q
  <2> QED
    BY <2>5, <2>6, <2>7, <2>8, <2>9, <2>10
<1>3. S(G) <= T(H(G))
  BY <1>2
<1>4. T(F) = T(H(G)) + T(F \ H(G)) /\ T(F \ H(G)) \in Nat /\ T(F) \in Nat
  <2>1. /\ H(G) \in SUBSET F /\ IsFiniteSet(H(G)) /\ IsFiniteSet(F \ H(G))
        /\ F = H(G) \cup (F \ H(G)) /\ H(G) \cap (F \ H(G)) = {}
    BY <1>1, FS_Subset, FS_Difference
  <2>2. \A y \in H(G) \cup (F \ H(G)) : f[y] \in Int /\ f[y] \in Nat
    BY <2>1
  <2> HIDE DEF H, G, F
  <2>3. T(H(G) \cup (F \ H(G))) = T(H(G)) + T(F \ H(G))
    BY <2>1, <2>2, SumUnion
  <2>4. T(F \ H(G)) \in Nat
    BY <2>1, <2>2, SumNat
  <2>5. T(F) \in Nat
    BY SumNat DEF F
  <2> QED
    BY <2>1, <2>3, <2>4, <2>5
<1>5. S(G) \in Nat /\ T(H(G)) \in Nat
  BY <1>1
<1>6. SumFunction(g) = S(G) /\ SumFunction(f) = T(F)
  BY DEF SumFunction
<1> HIDE DEF S, T, H, G, F
<1> QED
  BY <1>3, <1>4, <1>5, <1>6
=============================================================================
