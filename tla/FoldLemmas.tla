------------------------------ MODULE FoldLemmas ------------------------------
(***************************************************************************)
(* What a fold over a sequence computes, for any operator: the community   *)
(* modules define FoldLeft by a recursive function on sets of places, and  *)
(* that there is one has to be shown first.                                *)
(***************************************************************************)
EXTENDS SequencesExt, NumberLemmas, SequenceTheorems

CONSTANT Op(_, _)

Fold(b, s) == FoldLeft(Op, b, s)

(* f folds s, from b, over every set of its first m places.                *)
Folds(f, b, s, m) ==
    f = [t \in SUBSET (1 .. m) |-> IF t = {} THEN b ELSE Op(f[t \ {Max(t)}], s[Max(t)])]

(* The greatest of some numbers up to m.                                   *)
LEMMA MaxIsGreatest ==
  ASSUME NEW m \in Nat, NEW t \in SUBSET (1 .. m), t # {}
  PROVE  Max(t) \in t /\ \A x \in t : x <= Max(t)
<1> DEFINE T == {x \in Nat : \A y \in t : y <= x}
<1>1. m \in T
  OBVIOUS
<1>2. PICK x \in T : \A y \in T : x <= y
  <2>1. T \in SUBSET Nat /\ T # {}
    BY <1>1
  <2> HIDE DEF T
  <2>2. QED
    BY <2>1, LeastOf
<1>3. x \in t
  <2> SUFFICES ASSUME x \notin t PROVE FALSE
    OBVIOUS
  <2>1. PICK y \in t : y <= x
    BY <1>2
  <2>4. x > 0
    BY <2>1
  <2>2. x - 1 \in T
    BY <1>2, <2>4
  <2>3. QED
    BY <1>2, <2>2
<1>4. x \in t /\ \A y \in t : x >= y
  BY <1>2, <1>3
<1>5. QED
  BY <1>4 DEF Max

LEMMA FoldExists ==
  ASSUME NEW b, NEW s
  PROVE  \A m \in Nat : \E f : Folds(f, b, s, m)
<1> DEFINE P == {m \in Nat : \E f : Folds(f, b, s, m)}
<1>1. 0 \in P
  <2>1. Folds([t \in SUBSET (1 .. 0) |-> b], b, s, 0)
    <3>1. SUBSET (1 .. 0) = {{}}
      OBVIOUS
    <3>2. QED
      BY <3>1 DEF Folds
  <2>2. QED
    BY <2>1
<1>2. ASSUME NEW m \in Nat, m \in P PROVE m + 1 \in P
  <2>1. PICK f : Folds(f, b, s, m)
    BY <1>2
  <2> DEFINE g == [t \in SUBSET (1 .. m + 1) |->
                      IF m + 1 \in t THEN Op(f[t \ {m + 1}], s[m + 1]) ELSE f[t]]
  <2>2. ASSUME NEW t \in SUBSET (1 .. m + 1)
        PROVE  g[t] = IF t = {} THEN b ELSE Op(g[t \ {Max(t)}], s[Max(t)])
    <3>1. CASE m + 1 \in t
      <4>1. Max(t) = m + 1
        <5>1. m + 1 \in Nat /\ t # {}
          BY <3>1
        <5> HIDE DEF g
        <5>2. Max(t) \in t /\ m + 1 <= Max(t)
          BY <3>1, <5>1, MaxIsGreatest
        <5>3. Max(t) \in 1 .. m + 1
          BY <5>2
        <5>4. QED
          BY <5>2, <5>3
      <4>2. t \ {m + 1} \in SUBSET (1 .. m + 1) /\ m + 1 \notin t \ {m + 1}
        OBVIOUS
      <4>3. g[t \ {m + 1}] = f[t \ {m + 1}]
        BY <4>2
      <4>4. QED
        BY <3>1, <4>1, <4>3
    <3>2. CASE m + 1 \notin t
      <4>1. t \in SUBSET (1 .. m)
        BY <3>2
      <4>2. f[t] = IF t = {} THEN b ELSE Op(f[t \ {Max(t)}], s[Max(t)])
        BY <2>1, <4>1 DEF Folds
      <4>3. t \ {Max(t)} \in SUBSET (1 .. m + 1) /\ m + 1 \notin t \ {Max(t)}
        BY <3>2
      <4>4. g[t \ {Max(t)}] = f[t \ {Max(t)}]
        BY <4>3
      <4>5. g[t] = f[t]
        BY <3>2
      <4>6. QED
        BY <4>2, <4>4, <4>5
    <3>3. QED
      BY <3>1, <3>2
  <2>3. Folds(g, b, s, m + 1)
    <3>1. g = [t \in SUBSET (1 .. m + 1) |-> g[t]]
      OBVIOUS
    <3> HIDE DEF g
    <3>2. QED
      BY <2>2, <3>1 DEF Folds
  <2>4. QED
    BY <2>3
<1>3. Nat \subseteq P
  <2> HIDE DEF P
  <2>1. QED
    BY <1>1, <1>2, NumbersByInduction
<1>4. QED
  BY <1>3

(* The function the community module chooses.                              *)
Chosen(b, s, m) == CHOOSE f : Folds(f, b, s, m)

LEMMA FoldIs ==
  ASSUME NEW b, NEW s, NEW m \in Nat, DOMAIN s = 1 .. m
  PROVE  Fold(b, s) = Chosen(b, s, m)[1 .. m]
BY DEF Fold, FoldLeft, MapThenFoldSet, Chosen, Folds

LEMMA ChosenFolds ==
  ASSUME NEW b, NEW s, NEW m \in Nat
  PROVE  Folds(Chosen(b, s, m), b, s, m)
BY FoldExists DEF Chosen

(* Over the first n places the fold looks at nothing else.                 *)
LEMMA ChosenAgree ==
  ASSUME NEW b, NEW s, NEW t, NEW m \in Nat, NEW n \in Nat, NEW k \in Nat, k <= m, k <= n,
         \A i \in 1 .. k : s[i] = t[i]
  PROVE  Chosen(b, s, m)[1 .. k] = Chosen(b, t, n)[1 .. k]
<1> DEFINE f == Chosen(b, s, m)
           g == Chosen(b, t, n)
           P == {j \in Nat : j <= k => f[1 .. j] = g[1 .. j]}
<1>1. Folds(f, b, s, m) /\ Folds(g, b, t, n)
  BY ChosenFolds
<1> HIDE DEF f, g
<1>2. 0 \in P
  <2>1. 1 .. 0 = {} /\ {} \in SUBSET (1 .. m) /\ {} \in SUBSET (1 .. n)
    OBVIOUS
  <2>2. f[{}] = b /\ g[{}] = b
    BY <1>1, <2>1 DEF Folds
  <2>3. QED
    BY <2>1, <2>2
<1>3. ASSUME NEW j \in Nat, j \in P PROVE j + 1 \in P
  <2> SUFFICES ASSUME j + 1 <= k PROVE f[1 .. j + 1] = g[1 .. j + 1]
    BY <1>3
  <2> DEFINE d == 1 .. j + 1
  <2>1. d \in SUBSET (1 .. m) /\ d \in SUBSET (1 .. n) /\ d # {} /\ j + 1 \in 1 .. k /\ j + 1 \in d
    OBVIOUS
  <2>2. Max(d) = j + 1
    <3>1. j + 1 \in Nat /\ d \in SUBSET (1 .. j + 1)
      OBVIOUS
    <3>2. Max(d) \in d /\ j + 1 <= Max(d)
      <4> HIDE DEF d
      <4>1. QED
        BY <2>1, <3>1, MaxIsGreatest
    <3>3. QED
      BY <3>2
  <2>3. d \ {j + 1} = 1 .. j
    OBVIOUS
  <2>4. f[1 .. j] = g[1 .. j]
    BY <1>3
  <2> HIDE DEF d
  <2>5. f[d] = Op(f[1 .. j], s[j + 1]) /\ g[d] = Op(g[1 .. j], t[j + 1])
    BY <1>1, <2>1, <2>2, <2>3 DEF Folds
  <2>6. QED
    BY <2>1, <2>4, <2>5 DEF d
<1>4. Nat \subseteq P
  <2> HIDE DEF P
  <2>1. QED
    BY <1>2, <1>3, NumbersByInduction
<1>5. QED
  BY <1>4 DEF f, g

(* The fold of nothing is the base.                                        *)
LEMMA FoldOfNone ==
  ASSUME NEW b
  PROVE  Fold(b, <<>>) = b
<1>1. DOMAIN <<>> = 1 .. 0 /\ 1 .. 0 = {}
  OBVIOUS
<1>2. Fold(b, <<>>) = Chosen(b, <<>>, 0)[{}]
  BY <1>1, FoldIs
<1>3. Folds(Chosen(b, <<>>, 0), b, <<>>, 0)
  BY ChosenFolds
<1>4. {} \in SUBSET (1 .. 0)
  OBVIOUS
<1>5. QED
  BY <1>2, <1>3, <1>4 DEF Folds

(* The last element is folded last.                                        *)
LEMMA FoldOfAppend ==
  ASSUME NEW b, NEW S, NEW s \in Seq(S), NEW e \in S
  PROVE  Fold(b, Append(s, e)) = Op(Fold(b, s), e)
<1> DEFINE n == Len(s)
           t == Append(s, e)
<1>1. /\ n \in Nat /\ n + 1 \in Nat /\ DOMAIN s = 1 .. n /\ DOMAIN t = 1 .. n + 1
      /\ t[n + 1] = e /\ \A i \in 1 .. n : s[i] = t[i]
  BY AppendProperties, LenProperties
<1> HIDE DEF n, t
<1>2. Fold(b, s) = Chosen(b, s, n)[1 .. n]
  BY <1>1, FoldIs
<1>3. Fold(b, t) = Chosen(b, t, n + 1)[1 .. n + 1]
  BY <1>1, FoldIs
<1>4. Chosen(b, s, n)[1 .. n] = Chosen(b, t, n + 1)[1 .. n]
  <2> DEFINE m == n + 1
  <2>1. n <= n /\ n <= m /\ n \in Nat /\ m \in Nat /\ \A i \in 1 .. n : s[i] = t[i]
    BY <1>1
  <2> HIDE DEF m
  <2>2. Chosen(b, s, n)[1 .. n] = Chosen(b, t, m)[1 .. n]
    BY <2>1, ChosenAgree
  <2>3. QED
    BY <2>2 DEF m
<1>5. Chosen(b, t, n + 1)[1 .. n + 1] = Op(Chosen(b, t, n + 1)[1 .. n], t[n + 1])
  <2>1. Folds(Chosen(b, t, n + 1), b, t, n + 1)
    BY <1>1, ChosenFolds
  <2>2. 1 .. n + 1 \in SUBSET (1 .. n + 1) /\ 1 .. n + 1 # {} /\ n + 1 \in 1 .. n + 1
    BY <1>1
  <2>3. Max(1 .. n + 1) = n + 1
    <3>1. Max(1 .. n + 1) \in 1 .. n + 1 /\ n + 1 <= Max(1 .. n + 1)
      BY <1>1, <2>2, MaxIsGreatest
    <3>2. QED
      BY <1>1, <3>1
  <2>4. (1 .. n + 1) \ {n + 1} = 1 .. n
    BY <1>1
  <2>5. QED
    BY <2>1, <2>2, <2>3, <2>4 DEF Folds
<1>6. QED
  BY <1>1, <1>2, <1>3, <1>4, <1>5 DEF t

(* What the operator preserves holds of the fold.                          *)
LEMMA FoldPreserves ==
  ASSUME NEW I, NEW b \in I, NEW S, NEW s \in Seq(S),
         \A a \in I, e \in S : Op(a, e) \in I
  PROVE  Fold(b, s) \in I
<1> DEFINE P == {n \in Nat : \A t \in Seq(S) : Len(t) = n => Fold(b, t) \in I}
<1>1. 0 \in P
  BY FoldOfNone, EmptySeq
<1>2. ASSUME NEW n \in Nat, n \in P PROVE n + 1 \in P
  <2> SUFFICES ASSUME NEW t \in Seq(S), Len(t) = n + 1 PROVE Fold(b, t) \in I
    OBVIOUS
  <2> DEFINE front == SubSeq(t, 1, n)
             last == t[n + 1]
  <2>1. front \in Seq(S) /\ Len(front) = n /\ last \in S /\ t = Append(front, last)
    OBVIOUS
  <2> HIDE DEF front, last
  <2>2. Fold(b, front) \in I
    BY <1>2, <2>1
  <2>3. Fold(b, Append(front, last)) = Op(Fold(b, front), last)
    BY <2>1, FoldOfAppend
  <2>4. Fold(b, Append(front, last)) \in I
    BY <2>1, <2>2, <2>3
  <2>5. QED
    BY <2>1, <2>4, Zenon
<1>3. Nat \subseteq P
  <2> HIDE DEF P
  <2>1. QED
    BY <1>1, <1>2, NumbersByInduction
<1>4. Len(s) \in Nat
  BY LenProperties
<1>5. QED
  BY <1>3, <1>4
=============================================================================
