------------------------------ MODULE FoldProofs ------------------------------
(***************************************************************************)
(* Folds of the community modules, without their operators: a fold over    *)
(* the numbers up to n starts with base, takes the numbers in ascending    *)
(* order, and steps with a function of the value so far and the number.    *)
(***************************************************************************)
EXTENDS Integers, FiniteSetsExt, FiniteSetTheorems, WellFoundedInduction, TLAPS

\* The smallest and the largest of some numbers.
LEMMA MinProperties ==
    ASSUME NEW S \in SUBSET Nat, S # {}
    PROVE  Min(S) \in S /\ \A k \in S : Min(S) <= k
<1>1. PICK k \in S : \A l \in S : ~(<<l, k>> \in OpToRel(<, Nat))
  BY NatLessThanWellFounded, WFMin
<1>2. \A l \in S : k <= l
  <2> SUFFICES ASSUME NEW l \in S, ~(k <= l) PROVE FALSE
    OBVIOUS
  <2>1. l < k /\ k \in Nat /\ l \in Nat
    OBVIOUS
  <2> QED BY <1>1, <2>1 DEF OpToRel
<1> QED BY <1>2 DEF Min

\* A member that is not greater than any other is the smallest.
LEMMA MinIs ==
    ASSUME NEW S \in SUBSET Nat, NEW k \in S, \A l \in S : k <= l
    PROVE  Min(S) = k
<1>1. Min(S) \in S /\ Min(S) <= k /\ k <= Min(S)
  BY MinProperties
<1>2. Min(S) \in Nat /\ k \in Nat
  BY <1>1
<1> QED BY <1>1, <1>2

\* The maximum of a finite set of numbers.
LEMMA MaxProperties ==
    ASSUME NEW N \in Nat, NEW S \in SUBSET (0 .. N), S # {}
    PROVE  Max(S) \in S /\ \A k \in S : k <= Max(S)
<1> DEFINE T == {N - k : k \in S}
<1>1. T \subseteq Nat /\ T # {}
  OBVIOUS
<1>2. PICK x \in T : \A y \in T : ~(<<y, x>> \in OpToRel(<, Nat))
  BY <1>1, NatLessThanWellFounded, WFMin
<1>3. PICK largest \in S : x = N - largest
  OBVIOUS
<1>4. \A k \in S : largest >= k
  <2> SUFFICES ASSUME NEW k \in S, ~(largest >= k) PROVE FALSE
    OBVIOUS
  <2>1. N - k \in T /\ N - k < x /\ x \in Nat /\ N - k \in Nat
    BY <1>3
  <2>2. <<N - k, x>> \in OpToRel(<, Nat)
    BY <2>1 DEF OpToRel
  <2> QED BY <1>2, <2>1, <2>2
<1>5. \E l \in S : \A k \in S : l >= k
  BY <1>4
<1> QED BY <1>5 DEF Max

\* What holds of zero and of the successor of each number it holds of, holds of
\* every number.
LEMMA CountingUp ==
    ASSUME NEW good \in SUBSET Nat, 0 \in good, \A j \in good : j + 1 \in good
    PROVE  good = Nat
<1> SUFFICES ASSUME good # Nat PROVE FALSE
  OBVIOUS
<1> DEFINE bad == Nat \ good
<1>1. bad \in SUBSET Nat /\ bad # {}
  OBVIOUS
<1> HIDE DEF bad
<1>2. Min(bad) \in bad /\ \A k \in bad : Min(bad) <= k
  BY <1>1, MinProperties
<1> DEFINE k == Min(bad) - 1
<1>3. Min(bad) \in Nat \ {0} /\ Min(bad) \notin good
  BY <1>2 DEF bad
<1>4. k \in Nat /\ k + 1 = Min(bad) /\ ~(Min(bad) <= k)
  BY <1>3
<1>5. k \in good
  BY <1>2, <1>4 DEF bad
<1> QED BY <1>3, <1>4, <1>5

\* h says what a step makes of base if it is repeated up to n times.
Repeated(h, n, base, step) ==
    \A k \in 0 .. n : h[k] = IF k = 0 THEN base ELSE step[h[k - 1]]

\* A step can be repeated any number of times.
LEMMA Repeats ==
    ASSUME NEW n \in Nat, NEW D, NEW base \in D, NEW step \in [D -> D]
    PROVE  \E h : h \in [0 .. n -> D] /\ Repeated(h, n, base, step)
<1> DEFINE Is(h, m) == \A k \in 0 .. m : h[k] = IF k = 0 THEN base ELSE step[h[k - 1]]
           good == {m \in Nat : \E h \in [0 .. m -> D] : Is(h, m)}
<1>1. 0 \in good
  <2> DEFINE h == [k \in 0 .. 0 |-> base]
  <2>1. h \in [0 .. 0 -> D] /\ h[0] = base
    OBVIOUS
  <2> HIDE DEF h
  <2>2. Is(h, 0)
    BY <2>1
  <2> QED BY <2>1, <2>2
<1>2. ASSUME NEW m \in good PROVE m + 1 \in good
  <2>1. PICK g \in [0 .. m -> D] : Is(g, m)
    OBVIOUS
  <2> DEFINE h == [k \in 0 .. m + 1 |-> IF k = m + 1 THEN step[g[m]] ELSE g[k]]
  <2>2. m \in Nat /\ g[m] \in D
    OBVIOUS
  <2>3. h \in [0 .. m + 1 -> D] /\ h[m + 1] = step[g[m]]
        /\ \A k \in 0 .. m : h[k] = g[k]
    BY <2>2
  <2> HIDE DEF h
  <2>4. Is(h, m + 1)
    <3> SUFFICES ASSUME NEW k \in 0 .. m + 1
                 PROVE  h[k] = IF k = 0 THEN base ELSE step[h[k - 1]]
      OBVIOUS
    <3>1. CASE k = m + 1
      <4>1. k # 0 /\ k - 1 = m /\ m \in 0 .. m
        BY <2>2, <3>1
      <4> QED BY <2>3, <3>1, <4>1
    <3>2. CASE k \in 0 .. m
      <4>1. k # 0 => k - 1 \in 0 .. m
        BY <2>2, <3>2
      <4> QED BY <2>1, <2>3, <3>2, <4>1
    <3> QED BY <2>2, <3>1, <3>2
  <2> QED BY <2>2, <2>3, <2>4
<1>3. good \in SUBSET Nat
  OBVIOUS
<1> HIDE DEF good
<1>4. n \in good
  BY <1>1, <1>2, <1>3, CountingUp
<1> QED BY <1>4 DEF good, Repeated

-----------------------------------------------------------------------------
\* g says for every part of 1 .. n what the fold over it is.
Folds(g, n, base, step) ==
    g = [s \in SUBSET (1 .. n) |->
            IF s = {} THEN base ELSE step[<<g[s \ {Max(s)}], Max(s)>>]]

\* The largest member of a set that has n + 1.
LEMMA MaxOfExtended ==
    ASSUME NEW n \in Nat, NEW s \in SUBSET (1 .. n + 1), n + 1 \in s
    PROVE  Max(s) = n + 1 /\ s \ {Max(s)} \in SUBSET (1 .. n)
<1>1. s \in SUBSET (0 .. n + 1) /\ n + 1 \in Nat
  OBVIOUS
<1>2. Max(s) \in s /\ n + 1 <= Max(s)
  BY <1>1, MaxProperties
<1>3. Max(s) = n + 1
  <2>1. Max(s) \in 1 .. n + 1
    BY <1>2
  <2> QED BY <1>2, <2>1
<1>4. \A x \in s \ {n + 1} : x \in 1 .. n
  OBVIOUS
<1> QED BY <1>3, <1>4

\* The fold takes one more number.
LEMMA FoldExtends ==
    ASSUME NEW n \in Nat, NEW base, NEW step, NEW g, Folds(g, n, base, step)
    PROVE  \E h : Folds(h, n + 1, base, step)
<1> DEFINE h == [s \in SUBSET (1 .. n + 1) |->
                    IF n + 1 \in s THEN step[<<g[s \ {n + 1}], n + 1>>] ELSE g[s]]
<1>1. ASSUME NEW s \in SUBSET (1 .. n)
      PROVE  g[s] = IF s = {} THEN base ELSE step[<<g[s \ {Max(s)}], Max(s)>>]
  BY Zenon DEF Folds
<1>2. ASSUME NEW s \in SUBSET (1 .. n)
      PROVE  s \in SUBSET (1 .. n + 1) /\ n + 1 \notin s /\ h[s] = g[s]
  OBVIOUS
<1>3. ASSUME NEW s \in SUBSET (1 .. n + 1)
      PROVE  h[s] = IF s = {} THEN base ELSE step[<<h[s \ {Max(s)}], Max(s)>>]
  <2>1. CASE n + 1 \in s
    <3>1. Max(s) = n + 1 /\ s \ {Max(s)} \in SUBSET (1 .. n)
      BY <2>1, MaxOfExtended
    <3>2. h[s] = step[<<g[s \ {n + 1}], n + 1>>]
      BY <2>1
    <3> HIDE DEF h
    <3> QED BY <1>2, <2>1, <3>1, <3>2
  <2>2. CASE n + 1 \notin s
    <3> HIDE DEF h
    <3>1. s \in SUBSET (1 .. n) /\ s \ {Max(s)} \in SUBSET (1 .. n)
      <4>1. \A x \in s : x \in 1 .. n
        BY <2>2
      <4> QED BY <4>1
    <3> QED BY <1>1, <1>2, <3>1
  <2> QED BY <2>1, <2>2
<1>4. h = [s \in SUBSET (1 .. n + 1) |-> h[s]]
  OBVIOUS
<1> HIDE DEF h
<1>5. Folds(h, n + 1, base, step)
  BY <1>3, <1>4, Zenon DEF Folds
<1> QED BY <1>5

\* The fold is defined for every n.
LEMMA FoldExists ==
    ASSUME NEW n \in Nat, NEW base, NEW step
    PROVE  \E g : Folds(g, n, base, step)
<1> DEFINE good == {j \in Nat : \E g : Folds(g, j, base, step)}
<1>1. 0 \in good
  <2> DEFINE g == [s \in SUBSET (1 .. 0) |-> base]
  <2>1. \A s \in SUBSET (1 .. 0) : s = {}
    OBVIOUS
  <2>2. g = [s \in SUBSET (1 .. 0) |->
                IF s = {} THEN base ELSE step[<<g[s \ {Max(s)}], Max(s)>>]]
    BY <2>1
  <2> HIDE DEF g
  <2>3. Folds(g, 0, base, step)
    BY <2>2, Zenon DEF Folds
  <2> QED BY <2>3
<1>2. \A j \in good : j + 1 \in good
  BY FoldExtends
<1>3. good \in SUBSET Nat
  OBVIOUS
<1> HIDE DEF good
<1>4. n \in good
  BY <1>1, <1>2, <1>3, CountingUp
<1> QED BY <1>4 DEF good

\* A rule for proofs about a fold.  I relates the numbers that were taken to the
\* value so far.
LEMMA FoldInduction ==
    ASSUME NEW n \in Nat, NEW g, NEW I,
           <<{}, g[{}]>> \in I,
           \A s \in SUBSET (1 .. n) :
               s # {} /\ <<s \ {Max(s)}, g[s \ {Max(s)}]>> \in I => <<s, g[s]>> \in I
    PROVE  \A s \in SUBSET (1 .. n) : <<s, g[s]>> \in I
<1> DEFINE Kept(s) == <<s, g[s]>> \in I
           good == {j \in Nat : j <= n => \A s \in SUBSET (1 .. j) : Kept(s)}
<1>1. 0 \in good
  <2>1. \A s \in SUBSET (1 .. 0) : s = {}
    OBVIOUS
  <2> QED BY <2>1
<1>2. ASSUME NEW j \in good PROVE j + 1 \in good
  <2> SUFFICES ASSUME j + 1 <= n, NEW s \in SUBSET (1 .. j + 1) PROVE Kept(s)
    OBVIOUS
  <2>1. j \in Nat /\ j <= n /\ s \in SUBSET (1 .. n)
    OBVIOUS
  <2>2. \A t \in SUBSET (1 .. j) : Kept(t)
    BY <2>1
  <2>3. CASE j + 1 \in s
    <3>1. s \ {Max(s)} \in SUBSET (1 .. j)
      BY <2>1, <2>3, MaxOfExtended
    <3> HIDE DEF good
    <3> QED BY <2>1, <2>2, <2>3, <3>1
  <2>4. CASE j + 1 \notin s
    <3>1. s \in SUBSET (1 .. j)
      BY <2>1, <2>4
    <3> QED BY <2>2, <3>1
  <2> QED BY <2>3, <2>4
<1>3. good \in SUBSET Nat
  OBVIOUS
<1> HIDE DEF good
<1>4. n \in good
  BY <1>1, <1>2, <1>3, CountingUp
<1> QED BY <1>4 DEF good

=============================================================================
