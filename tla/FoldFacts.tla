------------------------------ MODULE FoldFacts ------------------------------
(***************************************************************************)
(* What a fold over a sequence computes, for every operator: the facts     *)
(* that an induction over the sequence needs, with the values that the     *)
(* fold has after each element.  A module that folds with an operator of   *)
(* its own instantiates this one with it.                                  *)
(***************************************************************************)
EXTENDS Integers, WellFoundedInduction, TLAPS

CONSTANT Op(_, _, _)   \* of a parameter, the value so far and an element

----------------------------------------------------------------------------
(* Induction *)

\* Induction over the naturals, of the set of those of which something holds.
LEMMA SetInduction ==
  ASSUME NEW S, 0 \in S, \A n \in Nat : n \in S => n + 1 \in S
  PROVE  Nat \subseteq S
<1> DEFINE Less == {p \in Nat \X Nat : p[1] < p[2]}
<1>1. IsWellFoundedOn(Less, Nat)
  BY NatLessThanWellFounded DEF OpToRel
<1>2. SUFFICES ASSUME Nat \ S # {} PROVE FALSE
  OBVIOUS
<1>3. \E m \in Nat \ S : \A y \in Nat \ S : <<y, m>> \notin Less
  <2> HIDE DEF Less
  <2> QED BY <1>1, <1>2, WFMin
<1>4. PICK m \in Nat \ S : \A y \in Nat \ S : ~(y < m)
  BY <1>3
<1>5. m # 0 /\ m - 1 \in Nat /\ m - 1 < m
  BY <1>4
<1>6. QED
  BY <1>4, <1>5

\* Up to a bound.
LEMMA BoundedInduction ==
  ASSUME NEW n \in Nat, NEW S, 0 \in S, \A i \in 1..n : i - 1 \in S => i \in S
  PROVE  0..n \subseteq S
<1> DEFINE T == {i \in Nat : i > n \/ i \in S}
<1>1. 0 \in T /\ \A i \in Nat : i \in T => i + 1 \in T
  OBVIOUS
<1>2. Nat \subseteq T
  <2> HIDE DEF T
  <2> QED BY <1>1, SetInduction
<1>3. QED
  BY <1>2

----------------------------------------------------------------------------
(* The fold *)

\* The greatest element, as the fold takes it.
Greatest(S) == CHOOSE x \in S : \A y \in S : x >= y

\* FoldLeft, with its operators expanded.
FoldOf(c, base, s) ==
  LET iter[S \in SUBSET DOMAIN s] ==
        IF S = {} THEN base ELSE Op(c, iter[S \ {Greatest(S)}], s[Greatest(S)])
  IN iter[DOMAIN s]

Unfolds(iter, c, base, s, m) ==
  iter = [S \in SUBSET (1..m) |->
            IF S = {} THEN base ELSE Op(c, iter[S \ {Greatest(S)}], s[Greatest(S)])]

LEMMA GreatestOfNext ==
  ASSUME NEW m \in Nat, NEW S \in SUBSET (1..(m + 1)), m + 1 \in S
  PROVE  Greatest(S) = m + 1
<1>1. \A y \in S : m + 1 >= y
  OBVIOUS
<1>2. \A x \in S : (\A y \in S : x >= y) => x = m + 1
  OBVIOUS
<1>3. QED
  BY <1>1, <1>2 DEF Greatest

LEMMA GreatestUpTo ==
  ASSUME NEW m \in Nat
  PROVE  Greatest(1..(m + 1)) = m + 1 /\ (1..(m + 1)) \ {m + 1} = 1..m
BY GreatestOfNext

LEMMA UnfoldsNext ==
  ASSUME NEW c, NEW base, NEW s, NEW m \in Nat, NEW g, Unfolds(g, c, base, s, m)
  PROVE  \E h : Unfolds(h, c, base, s, m + 1)
<1> DEFINE h == [S \in SUBSET (1..(m + 1)) |->
                   IF m + 1 \in S THEN Op(c, g[S \ {m + 1}], s[m + 1]) ELSE g[S]]
<1>1. ASSUME NEW S \in SUBSET (1..(m + 1))
      PROVE  h[S] = IF S = {} THEN base ELSE Op(c, h[S \ {Greatest(S)}], s[Greatest(S)])
  <2>1. CASE m + 1 \in S
    <3>1. S \ {m + 1} \in SUBSET (1..m) /\ Greatest(S) = m + 1 /\ S # {}
      BY <2>1, GreatestOfNext
    <3>2. h[S \ {m + 1}] = g[S \ {m + 1}]
      BY <3>1
    <3>3. QED
      BY <2>1, <3>1, <3>2
  <2>2. CASE m + 1 \notin S
    <3>1. S \in SUBSET (1..m) /\ S \ {Greatest(S)} \in SUBSET (1..m)
      <4>1. \A x \in S : x \in 1..(m + 1) /\ x # m + 1
        BY <2>2
      <4>2. S \subseteq 1..m
        BY <4>1
      <4>3. QED
        BY <4>2
    <3>2. g[S] = IF S = {} THEN base ELSE Op(c, g[S \ {Greatest(S)}], s[Greatest(S)])
      BY <3>1 DEF Unfolds
    <3>3. \A T \in SUBSET (1..m) : T \in SUBSET (1..(m + 1)) /\ h[T] = g[T]
      OBVIOUS
    <3> HIDE DEF h
    <3>4. QED
      BY <3>1, <3>2, <3>3
  <2>3. QED
    BY <2>1, <2>2
<1>2. h = [S \in SUBSET (1..(m + 1)) |-> h[S]]
  OBVIOUS
<1> HIDE DEF h
<1>3. Unfolds(h, c, base, s, m + 1)
  BY <1>1, <1>2 DEF Unfolds
<1>4. QED
  BY <1>3

LEMMA UnfoldsUpTo ==
  ASSUME NEW c, NEW base, NEW s, NEW n \in Nat
  PROVE  \E g : Unfolds(g, c, base, s, n)
<1> DEFINE Good == {m \in Nat : \E g : Unfolds(g, c, base, s, m)}
<1>1. 0 \in Good
  <2>1. Unfolds([S \in SUBSET (1..0) |-> base], c, base, s, 0)
    BY DEF Unfolds
  <2>2. QED
    BY <2>1
<1>2. \A m \in Nat : m \in Good => m + 1 \in Good
  BY UnfoldsNext
<1>3. n \in Good
  <2> HIDE DEF Good
  <2> QED BY <1>1, <1>2, SetInduction
<1>4. QED
  BY <1>3

\* A fold goes through one value for each prefix of the sequence.
LEMMA FoldUnfolds ==
  ASSUME NEW c, NEW base, NEW s, NEW n \in Nat, DOMAIN s = 1..n
  PROVE  \E acc : /\ acc[0] = base
                  /\ \A i \in 1..n : acc[i] = Op(c, acc[i - 1], s[i])
                  /\ acc[n] = FoldOf(c, base, s)
<1> DEFINE iter == CHOOSE g : Unfolds(g, c, base, s, n)
<1>1. Unfolds(iter, c, base, s, n)
  BY UnfoldsUpTo
<1>2. FoldOf(c, base, s) = iter[1..n]
  BY DEF FoldOf, Unfolds
<1> HIDE DEF iter
<1> DEFINE acc == [i \in 0..n |-> iter[1..i]]
<1>3. acc[0] = base
  BY <1>1 DEF Unfolds
<1>4. ASSUME NEW i \in 1..n
      PROVE  acc[i] = Op(c, acc[i - 1], s[i])
  <2>1. i - 1 \in Nat /\ (i - 1) + 1 = i
    OBVIOUS
  <2>2. Greatest(1..i) = i /\ (1..i) \ {i} = 1..(i - 1)
    BY <2>1, GreatestUpTo
  <2>3. 1..i \in SUBSET (1..n) /\ 1..i # {}
    OBVIOUS
  <2>4. iter[1..i] = Op(c, iter[1..(i - 1)], s[i])
    BY <1>1, <2>2, <2>3 DEF Unfolds
  <2>5. QED
    BY <2>4
<1>5. acc[n] = FoldOf(c, base, s)
  BY <1>2
<1> HIDE DEF acc
<1>6. QED
  BY <1>3, <1>4, <1>5

\* What the operator keeps, the fold keeps.
LEMMA FoldStays ==
  ASSUME NEW c, NEW base, NEW s, NEW n \in Nat, DOMAIN s = 1..n, NEW S, base \in S,
         \A x \in S : \A i \in 1..n : Op(c, x, s[i]) \in S
  PROVE  FoldOf(c, base, s) \in S
<1>1. PICK acc : /\ acc[0] = base
                 /\ \A i \in 1..n : acc[i] = Op(c, acc[i - 1], s[i])
                 /\ acc[n] = FoldOf(c, base, s)
  BY FoldUnfolds
<1> DEFINE T == {i \in 0..n : acc[i] \in S}
<1>2. 0 \in T /\ \A i \in 1..n : i - 1 \in T => i \in T
  BY <1>1
<1>3. n \in T
  <2> HIDE DEF T
  <2>1. 0..n \subseteq T
    BY <1>2, BoundedInduction
  <2>2. QED
    BY <2>1
<1>4. QED
  BY <1>1, <1>3

\* One more element is one more step of the fold.
LEMMA FoldExtends ==
  ASSUME NEW c, NEW base, NEW s, NEW t, NEW n \in Nat, DOMAIN s = 1..n, DOMAIN t = 1..(n + 1),
         \A i \in 1..n : t[i] = s[i]
  PROVE  FoldOf(c, base, t) = Op(c, FoldOf(c, base, s), t[n + 1])
<1>1. PICK f : /\ f[0] = base
               /\ \A i \in 1..n : f[i] = Op(c, f[i - 1], s[i])
               /\ f[n] = FoldOf(c, base, s)
  BY FoldUnfolds
<1>2. PICK g : /\ g[0] = base
               /\ \A i \in 1..(n + 1) : g[i] = Op(c, g[i - 1], t[i])
               /\ g[n + 1] = FoldOf(c, base, t)
  <2> DEFINE m == n + 1
  <2>1. m \in Nat /\ DOMAIN t = 1..m
    OBVIOUS
  <2> HIDE DEF m
  <2>2. \E g : /\ g[0] = base
               /\ \A i \in 1..m : g[i] = Op(c, g[i - 1], t[i])
               /\ g[m] = FoldOf(c, base, t)
    BY <2>1, FoldUnfolds
  <2>3. QED
    BY <2>2 DEF m
<1> DEFINE Same == {i \in 0..n : f[i] = g[i]}
<1>3. 0 \in Same /\ \A i \in 1..n : i - 1 \in Same => i \in Same
  BY <1>1, <1>2
<1>4. n \in Same
  <2> HIDE DEF Same
  <2>1. 0..n \subseteq Same
    BY <1>3, BoundedInduction
  <2>2. QED
    BY <2>1
<1>5. g[n + 1] = Op(c, g[n], t[n + 1])
  BY <1>2
<1>6. QED
  BY <1>1, <1>2, <1>4, <1>5

=============================================================================
