----------------------------- MODULE NumberLemmas -----------------------------
(***************************************************************************)
(* Induction for the proofs of the components.  The library states it for  *)
(* an operator, which the provers here cannot instantiate; for a set they  *)
(* can, so it is derived once more from the least element of a set.        *)
(***************************************************************************)
EXTENDS Integers, FiniteSets, FiniteSetsExt, Functions, WellFoundedInduction, FiniteSetTheorems,
        TLAPS

(* A set of numbers that is not empty has a least one.                     *)
LEMMA LeastOf ==
  ASSUME NEW T \in SUBSET Nat, T # {}
  PROVE  \E x \in T : \A y \in T : x <= y
<1> DEFINE R == {p \in Nat \X Nat : p[1] < p[2]}
<1>1. R = OpToRel(<, Nat)
  BY Zenon DEF OpToRel
<1>2. IsWellFoundedOn(R, Nat)
  BY <1>1, NatLessThanWellFounded, Zenon
<1>3. PICK x \in T : \A y \in T : <<y, x>> \notin R
  BY <1>2, WFMin, Zenon
<1>4. \A y \in T : y < x => <<y, x>> \in R
  OBVIOUS
<1>5. \A y \in T : ~(y < x)
  BY <1>3, <1>4
<1>6. QED
  BY <1>5

(* The community modules' Min finds it.                                    *)
LEMMA MinIsLeast ==
  ASSUME NEW T \in SUBSET Nat, T # {}
  PROVE  Min(T) \in T /\ \A y \in T : Min(T) <= y
BY LeastOf DEF Min

(* What holds of 0, and with n of n + 1, holds of every number.            *)
LEMMA NumbersByInduction ==
  ASSUME NEW S, 0 \in S, \A n \in Nat : n \in S => n + 1 \in S
  PROVE  Nat \subseteq S
<1> SUFFICES ASSUME Nat \ S # {} PROVE FALSE
  OBVIOUS
<1>1. PICK x \in Nat \ S : \A y \in Nat \ S : x <= y
  BY LeastOf
<1>2. x - 1 \in Nat /\ x - 1 \in S
  BY <1>1
<1>3. QED
  BY <1>1, <1>2

-----------------------------------------------------------------------------
(* Sums.  The community modules add the values of a function in an order   *)
(* they do not say, by a recursive function on the subsets of its domain.  *)

AnyOf(t) == CHOOSE x \in t : TRUE

Sums(h, f, S) ==
    h = [t \in SUBSET S |-> IF t = {} THEN 0 ELSE f[AnyOf(t)] + h[t \ {AnyOf(t)}]]

(* One element less.                                                       *)
LEMMA Smaller ==
  ASSUME NEW S, IsFiniteSet(S), NEW t \in SUBSET S, t # {}, NEW n \in Nat,
         Cardinality(t) <= n + 1, NEW x \in t
  PROVE  /\ t \ {x} \in SUBSET S /\ Cardinality(t \ {x}) \in Nat
         /\ Cardinality(t \ {x}) <= n
<1>1. IsFiniteSet(t) /\ IsFiniteSet(t \ {x}) /\ Cardinality(t \ {x}) = Cardinality(t) - 1
  BY FS_Subset, FS_RemoveElement
<1>2. Cardinality(t) \in Nat /\ Cardinality(t \ {x}) \in Nat
  BY <1>1, FS_CardinalityType
<1>3. QED
  BY <1>1, <1>2

LEMMA AnyOfIsIn ==
  ASSUME NEW t, t # {}
  PROVE  AnyOf(t) \in t
BY DEF AnyOf

LEMMA SumsExist ==
  ASSUME NEW f, NEW S, IsFiniteSet(S)
  PROVE  \E h : Sums(h, f, S)
<1> DEFINE Small(n) == {t \in SUBSET S : Cardinality(t) <= n}
           To(h, n) == h = [t \in Small(n) |->
                              IF t = {} THEN 0 ELSE f[AnyOf(t)] + h[t \ {AnyOf(t)}]]
           P == {n \in Nat : \E h : To(h, n)}
<1>1. 0 \in P
  <2>1. \A t \in Small(0) : t = {}
    <3>1. \A t \in SUBSET S : IsFiniteSet(t) /\ Cardinality(t) \in Nat
      BY FS_Subset, FS_CardinalityType
    <3>2. QED
      BY <3>1, FS_EmptySet
  <2>2. To([t \in Small(0) |-> 0], 0)
    BY <2>1
  <2>3. QED
    BY <2>2
<1>2. ASSUME NEW n \in Nat, n \in P PROVE n + 1 \in P
  <2>1. PICK h : To(h, n)
    BY <1>2
  <2> DEFINE g == [t \in Small(n + 1) |->
                     IF Cardinality(t) <= n THEN h[t]
                     ELSE IF t = {} THEN 0 ELSE f[AnyOf(t)] + h[t \ {AnyOf(t)}]]
  <2>2. ASSUME NEW t \in Small(n + 1)
        PROVE  g[t] = IF t = {} THEN 0 ELSE f[AnyOf(t)] + g[t \ {AnyOf(t)}]
    <3>1. Cardinality(t) <= n => h[t] = IF t = {} THEN 0 ELSE f[AnyOf(t)] + h[t \ {AnyOf(t)}]
      BY <2>1
    <3>2. g[t] = IF t = {} THEN 0 ELSE f[AnyOf(t)] + h[t \ {AnyOf(t)}]
      BY <3>1
    <3>3. t # {} => g[t \ {AnyOf(t)}] = h[t \ {AnyOf(t)}]
      <4> SUFFICES ASSUME t # {} PROVE g[t \ {AnyOf(t)}] = h[t \ {AnyOf(t)}]
        OBVIOUS
      <4>1. AnyOf(t) \in t
        BY AnyOfIsIn
      <4> DEFINE rest == t \ {AnyOf(t)}
      <4>2. rest \in SUBSET S /\ Cardinality(rest) \in Nat /\ Cardinality(rest) <= n
        BY <4>1, Smaller
      <4> HIDE DEF rest
      <4>3. rest \in Small(n + 1)
        BY <4>2
      <4>4. g[rest] = h[rest]
        BY <4>2, <4>3
      <4>5. QED
        BY <4>4 DEF rest
    <3> HIDE DEF g
    <3>4. QED
      BY <3>2, <3>3
  <2>3. g = [t \in Small(n + 1) |-> g[t]]
    OBVIOUS
  <2> HIDE DEF g
  <2>4. To(g, n + 1)
    BY <2>2, <2>3
  <2>5. n + 1 \in Nat
    OBVIOUS
  <2> HIDE DEF To
  <2>6. QED
    BY <2>4, <2>5, Zenon
<1>3. Nat \subseteq P
  <2> HIDE DEF P
  <2>1. QED
    BY <1>1, <1>2, NumbersByInduction
<1>4. Cardinality(S) \in Nat /\ Small(Cardinality(S)) = SUBSET S
  BY FS_CardinalityType, FS_Subset
<1>5. PICK h : To(h, Cardinality(S))
  BY <1>3, <1>4
<1>6. QED
  BY <1>4, <1>5 DEF Sums

(* The sum the community modules mean.                                     *)
LEMMA SumIs ==
  ASSUME NEW f, NEW S, IsFiniteSet(S)
  PROVE  \E h : Sums(h, f, S) /\ SumFunctionOnSet(f, S) = h[S]
<1>1. SumFunctionOnSet(f, S) = (CHOOSE h : Sums(h, f, S))[S]
  BY DEF SumFunctionOnSet, FoldFunctionOnSet, MapThenFoldSet, Sums, AnyOf
<1>2. QED
  BY <1>1, SumsExist

(* It looks only at the values it adds.                                    *)
LEMMA SumsAgree ==
  ASSUME NEW f, NEW S, NEW h, Sums(h, f, S),
         NEW e, NEW T, NEW g, Sums(g, e, T),
         NEW U, IsFiniteSet(U), U \subseteq S, U \subseteq T,
         \A x \in U : f[x] \in Nat /\ e[x] = f[x]
  PROVE  h[U] = g[U] /\ h[U] \in Nat
<1> DEFINE P == {n \in Nat : \A u \in SUBSET U :
                    Cardinality(u) <= n => h[u] = g[u] /\ h[u] \in Nat}
<1>1. ASSUME NEW u \in SUBSET U
      PROVE  /\ u = {} => h[u] = 0 /\ g[u] = 0
             /\ u # {} => /\ AnyOf(u) \in u
                          /\ h[u] = f[AnyOf(u)] + h[u \ {AnyOf(u)}]
                          /\ g[u] = e[AnyOf(u)] + g[u \ {AnyOf(u)}]
  BY AnyOfIsIn DEF Sums
<1>2. 0 \in P
  <2>1. \A u \in SUBSET U : Cardinality(u) <= 0 => u = {}
    BY FS_Subset, FS_CardinalityType, FS_EmptySet
  <2>2. \A u \in SUBSET U : u = {} => h[u] = g[u] /\ h[u] \in Nat
    <3> SUFFICES ASSUME NEW u \in SUBSET U, u = {} PROVE h[u] = g[u] /\ h[u] \in Nat
      BY Zenon
    <3>1. h[u] = 0 /\ g[u] = 0
      BY <1>1
    <3>2. QED
      BY <3>1
  <2>3. QED
    BY <2>1, <2>2
<1>3. ASSUME NEW n \in Nat, n \in P PROVE n + 1 \in P
  <2> SUFFICES ASSUME NEW u \in SUBSET U, Cardinality(u) <= n + 1
               PROVE  h[u] = g[u] /\ h[u] \in Nat
    OBVIOUS
  <2>1. CASE u = {}
    BY <1>1, <2>1
  <2>2. CASE u # {}
    <3> DEFINE x == AnyOf(u)
               rest == u \ {x}
    <3>1. x \in u /\ h[u] = f[x] + h[rest] /\ g[u] = e[x] + g[rest]
      BY <1>1, <2>2
    <3> HIDE DEF x
    <3>2. rest \in SUBSET U /\ Cardinality(rest) <= n
      BY <2>2, <3>1, Smaller
    <3> HIDE DEF rest
    <3>3. h[rest] = g[rest] /\ h[rest] \in Nat
      BY <1>3, <3>2
    <3>4. f[x] \in Nat /\ e[x] = f[x]
      BY <3>1
    <3>5. QED
      BY <3>1, <3>3, <3>4
  <2>3. QED
    BY <2>1, <2>2
<1>4. Nat \subseteq P
  <2> HIDE DEF P
  <2>1. QED
    BY <1>2, <1>3, NumbersByInduction
<1>5. Cardinality(U) \in Nat
  BY FS_CardinalityType
<1>6. QED
  BY <1>4, <1>5

(* The order does not matter.                                              *)
LEMMA AnyOrder ==
  ASSUME NEW f, NEW S, IsFiniteSet(S), NEW h, Sums(h, f, S), \A x \in S : f[x] \in Nat
  PROVE  \A x \in S : h[S] = f[x] + h[S \ {x}]
<1> DEFINE P == {n \in Nat : \A t \in SUBSET S : \A x \in t :
                    Cardinality(t) <= n => h[t] = f[x] + h[t \ {x}]}
<1>1. ASSUME NEW t \in SUBSET S, t # {}
      PROVE  AnyOf(t) \in t /\ h[t] = f[AnyOf(t)] + h[t \ {AnyOf(t)}]
  BY <1>1, AnyOfIsIn DEF Sums
<1>2. \A t \in SUBSET S : h[t] \in Nat
  <2> SUFFICES ASSUME NEW t \in SUBSET S PROVE h[t] \in Nat
    OBVIOUS
  <2>1. IsFiniteSet(t) /\ t \subseteq S /\ \A x \in t : f[x] \in Nat /\ f[x] = f[x]
    BY FS_Subset
  <2>2. QED
    BY <2>1, SumsAgree
<1>3. 0 \in P
  <2>1. \A t \in SUBSET S : Cardinality(t) <= 0 => t = {}
    BY FS_Subset, FS_CardinalityType, FS_EmptySet
  <2>2. QED
    BY <2>1
<1>4. ASSUME NEW n \in Nat, n \in P PROVE n + 1 \in P
  <2> SUFFICES ASSUME NEW t \in SUBSET S, NEW x \in t, Cardinality(t) <= n + 1
               PROVE  h[t] = f[x] + h[t \ {x}]
    OBVIOUS
  <2> DEFINE y == AnyOf(t)
             tx == t \ {x}
             ty == t \ {y}
  <2>1. y \in t /\ h[t] = f[y] + h[ty]
    BY <1>1
  <2> HIDE DEF y
  <2>2. CASE x = y
    BY <2>1, <2>2
  <2>3. CASE x # y
    <3>1. /\ tx \in SUBSET S /\ Cardinality(tx) <= n /\ y \in tx
          /\ ty \in SUBSET S /\ Cardinality(ty) <= n /\ x \in ty
      BY <2>1, <2>3, Smaller
    <3>2. tx \ {y} = ty \ {x} /\ tx \ {y} \in SUBSET S
      OBVIOUS
    <3> DEFINE both == tx \ {y}
    <3>3. h[ty] = f[x] + h[both] /\ h[tx] = f[y] + h[both]
      <4> HIDE DEF tx, ty
      <4>1. QED
        BY <1>4, <3>1, <3>2
    <3>4. f[x] \in Nat /\ f[y] \in Nat /\ h[both] \in Nat
      BY <1>2, <2>1, <3>2
    <3> HIDE DEF both, tx, ty
    <3>5. h[t] = f[x] + h[tx]
      BY <2>1, <3>3, <3>4
    <3>6. QED
      BY <3>5 DEF tx
  <2>4. QED
    BY <2>2, <2>3
<1>5. Nat \subseteq P
  <2> HIDE DEF P
  <2>1. QED
    BY <1>3, <1>4, NumbersByInduction
<1>6. Cardinality(S) \in Nat
  BY FS_CardinalityType
<1>7. QED
  BY <1>5, <1>6

(* The sum of nothing, and one value more.                                 *)
LEMMA SumOfNone ==
  ASSUME NEW f, DOMAIN f = {}
  PROVE  SumFunction(f) = 0
<1>1. PICK h : Sums(h, f, {}) /\ SumFunctionOnSet(f, {}) = h[{}]
  BY FS_EmptySet, SumIs
<1>2. QED
  BY <1>1 DEF SumFunction, Sums

LEMMA SumOfOneMore ==
  ASSUME NEW f, NEW g, NEW S, NEW x, IsFiniteSet(S), DOMAIN f = S,
         x \notin S, DOMAIN g = S \cup {x},
         \A y \in S : f[y] \in Nat /\ g[y] = f[y],
         g[x] \in Nat
  PROVE  SumFunction(g) = SumFunction(f) + g[x]
<1> DEFINE T == S \cup {x}
<1>1. IsFiniteSet(T)
  BY FS_AddElement
<1>2. PICK h : Sums(h, f, S) /\ SumFunctionOnSet(f, S) = h[S]
  BY SumIs
<1>3. PICK k : Sums(k, g, T) /\ SumFunctionOnSet(g, T) = k[T]
  BY <1>1, SumIs
<1>4. T \ {x} = S /\ \A y \in T : g[y] \in Nat
  OBVIOUS
<1>5. k[T] = g[x] + k[T \ {x}]
  <2> HIDE DEF T
  <2>1. x \in T
    BY DEF T
  <2>2. QED
    BY <1>1, <1>3, <1>4, <2>1, AnyOrder
<1>6. h[S] = k[S] /\ h[S] \in Nat
  <2>1. S \subseteq S /\ S \subseteq T
    OBVIOUS
  <2> HIDE DEF T
  <2>2. QED
    BY <1>2, <1>3, <2>1, SumsAgree
<1>7. SumFunction(g) = k[T] /\ SumFunction(f) = h[S]
  BY <1>2, <1>3 DEF SumFunction
<1> HIDE DEF T
<1>8. k[T] = g[x] + k[S]
  BY <1>4, <1>5
<1>9. QED
  BY <1>6, <1>7, <1>8
=============================================================================
