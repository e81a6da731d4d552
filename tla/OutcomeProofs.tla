----------------------------- MODULE OutcomeProofs -----------------------------
(***************************************************************************)
(* What comes of a call, proved for any expectations and matchers: which   *)
(* expectation it uses, what it returns, and what the texts of its reports *)
(* tell; and that the predicates of matchers find what their texts say.    *)
(***************************************************************************)
EXTENDS ReportTexts, BuiltMocksProofs, MatcherPredicates

-----------------------------------------------------------------------------
\* Lists of elements that were selected, filtered or rearranged.

\* r has the elements of s at the positions "at", each once, in some order.
Enumerates(r, s, at) ==
    /\ IsSequence(r)
    /\ \E order \in Bijection(DOMAIN r, at) : \A k \in DOMAIN r : r[k] = s[order[k]]

\* What one element has in front of it tells it from the others.
LEMMA RanksDiffer ==
    ASSUME NEW n \in Nat, NEW at \in SUBSET (1 .. n), NEW i \in at, NEW j \in at, i < j
    PROVE  Cardinality({k \in at : k <= i}) < Cardinality({k \in at : k <= j})
<1> DEFINE A == {k \in at : k <= i}
           B == {k \in at : k <= j}
<1>1. IsFiniteSet(1 .. n)
  BY FS_Interval
<1>2. IsFiniteSet(B)
  <2>1. B \in SUBSET (1 .. n)
    OBVIOUS
  <2> QED BY <1>1, <2>1, FS_Subset
<1>3. A \in SUBSET B /\ j \in B /\ j \notin A
  <2>1. i \in Nat /\ j \in Nat /\ \A k \in at : k \in Nat
    OBVIOUS
  <2>2. \A k \in at : k <= i => k <= j
    BY <2>1
  <2>3. ~(j <= i) /\ j <= j
    BY <2>1
  <2>4. A \in SUBSET B
    BY <2>2
  <2> QED BY <2>3, <2>4
<1> HIDE DEF A, B
<1>4. IsFiniteSet(A) /\ Cardinality(A) <= Cardinality(B) /\ Cardinality(A) # Cardinality(B)
  BY <1>2, <1>3, FS_Subset
<1>5. Cardinality(A) \in Nat /\ Cardinality(B) \in Nat
  BY <1>2, <1>4, FS_CardinalityType
<1>6. Cardinality(A) < Cardinality(B)
  BY <1>4, <1>5
<1> QED BY <1>6 DEF A, B

\* A loop with a condition takes each element that meets it once.
LEMMA PickedEnumerates ==
    ASSUME NEW s, NEW n \in Nat, NEW at \in SUBSET (1 .. n)
    PROVE  Enumerates(Picked(s, at), s, at) /\ Len(Picked(s, at)) = Cardinality(at)
<1> DEFINE c == Cardinality(at)
           Upto(i) == {j \in at : j <= i}
           rank == [i \in at |-> Cardinality(Upto(i))]
           Position(k) == CHOOSE i \in at : Cardinality(Upto(i)) = k
           order == [k \in 1 .. c |-> Position(k)]
           r == Picked(s, at)
<1>1. IsFiniteSet(at) /\ c \in Nat
  <2>1. IsFiniteSet(1 .. n)
    BY FS_Interval
  <2> QED BY <2>1, FS_Subset, FS_CardinalityType
<1>2. ASSUME NEW i \in at PROVE rank[i] \in 1 .. c
  <2>1. Upto(i) \in SUBSET at /\ i \in Upto(i)
    OBVIOUS
  <2> HIDE DEF Upto
  <2>2. IsFiniteSet(Upto(i)) /\ Cardinality(Upto(i)) <= c
    BY <1>1, <2>1, FS_Subset
  <2>3. Cardinality(Upto(i)) \in Nat /\ Cardinality(Upto(i)) # 0
    BY <2>1, <2>2, FS_CardinalityType, FS_EmptySet
  <2> QED BY <1>1, <2>2, <2>3
<1>3. ASSUME NEW i \in at, NEW j \in at, rank[i] = rank[j] PROVE i = j
  <2>1. i \in Nat /\ j \in Nat
    OBVIOUS
  <2>2. rank[i] \in Nat /\ rank[j] \in Nat
    BY <1>1, <1>2
  <2>3. i < j => rank[i] < rank[j]
    BY RanksDiffer
  <2>4. j < i => rank[j] < rank[i]
    BY RanksDiffer
  <2> HIDE DEF rank
  <2> QED BY <1>3, <2>1, <2>2, <2>3, <2>4
<1>4. rank \in Injection(at, 1 .. c)
  <2>1. rank \in [at -> 1 .. c]
    <3> HIDE DEF c
    <3> QED BY <1>2
  <2> HIDE DEF rank, c
  <2> QED BY <1>3, <2>1, Fun_IsInj
<1> HIDE DEF Upto
<1>5. \A k \in 1 .. c : \E i \in at : rank[i] = k
  <2>1. IsFiniteSet(1 .. c) /\ Cardinality(1 .. c) = c
    BY <1>1, FS_Interval
  <2> HIDE DEF rank
  <2>2. rank \in Surjection(at, 1 .. c)
    BY <1>1, <1>4, <2>1, FS_Injection
  <2> HIDE DEF c
  <2> QED BY <2>2, Fun_SurjectionProperties
<1>6. ASSUME NEW k \in 1 .. c PROVE Position(k) \in at /\ rank[Position(k)] = k
  <2>1. \E i \in at : Cardinality(Upto(i)) = k
    BY <1>5
  <2>2. Position(k) \in at /\ Cardinality(Upto(Position(k))) = k
    <3> HIDE DEF c
    <3> QED BY <2>1, Zenon
  <2> QED BY <2>2
<1> HIDE DEF rank, Position, c
<1>7. order \in Bijection(1 .. c, at)
  <2>1. order \in [1 .. c -> at]
    BY <1>6
  <2>2. \A k, l \in 1 .. c : order[k] = order[l] => k = l
    <3> SUFFICES ASSUME NEW k \in 1 .. c, NEW l \in 1 .. c, order[k] = order[l]
                 PROVE  k = l
      OBVIOUS
    <3>1. Position(k) = Position(l)
      OBVIOUS
    <3> HIDE DEF order
    <3> QED BY <1>6, <3>1
  <2>3. ASSUME NEW i \in at PROVE \E k \in 1 .. c : order[k] = i
    <3>1. rank[i] \in 1 .. c
      BY <1>2
    <3>2. rank[Position(rank[i])] = rank[i] /\ Position(rank[i]) \in at
      BY <1>6, <3>1
    <3>3. order[rank[i]] = i
      BY <1>3, <3>1, <3>2
    <3> QED BY <3>1, <3>3
  <2> HIDE DEF order
  <2> QED BY <2>1, <2>2, <2>3, Fun_IsBij
<1>8. r = [k \in 1 .. c |-> s[order[k]]]
  BY DEF Picked, Position, Upto, c
<1> HIDE DEF order, r
<1>9. DOMAIN r = 1 .. c /\ Len(r) = c /\ IsSequence(r)
  BY <1>1, <1>8 DEF IsSequence
<1>10. \A k \in DOMAIN r : r[k] = s[order[k]]
  BY <1>8
<1> QED BY <1>7, <1>9, <1>10 DEF Enumerates, r, c

\* Two lists of the same elements differ in their order only.
LEMMA SameElements ==
    ASSUME NEW r, NEW q, NEW s, NEW at, Enumerates(r, s, at), Enumerates(q, s, at)
    PROVE  Rearranges(r, q) /\ Len(r) = Len(q)
<1>1. PICK f \in Bijection(DOMAIN r, at) : \A k \in DOMAIN r : r[k] = s[f[k]]
  BY DEF Enumerates
<1>2. PICK g \in Bijection(DOMAIN q, at) : \A k \in DOMAIN q : q[k] = s[g[k]]
  BY DEF Enumerates
<1>3. /\ Len(r) \in Nat /\ DOMAIN r = 1 .. Len(r)
      /\ Len(q) \in Nat /\ DOMAIN q = 1 .. Len(q)
  BY DEF Enumerates, IsSequence
<1>4. Len(r) = Len(q)
  <2>1. ExistsBijection(1 .. Len(r), at) /\ ExistsBijection(1 .. Len(q), at)
    BY <1>1, <1>2, <1>3 DEF ExistsBijection
  <2> QED BY <1>3, <2>1, Fun_NatBijSame
<1> DEFINE back == Inverse(g, DOMAIN q, at)
           to == [k \in DOMAIN r |-> back[f[k]]]
<1>5. /\ back \in Bijection(at, DOMAIN q)
      /\ \A k \in DOMAIN q : back[g[k]] = k
  BY <1>2, Fun_BijInverse
<1>6. \A i \in at : back[i] \in DOMAIN q /\ g[back[i]] = i
  <2>1. back \in [at -> DOMAIN q] /\ \A i \in at : \E k \in DOMAIN q : g[k] = i
    BY <1>2, <1>5, Fun_BijectionProperties
  <2> HIDE DEF back
  <2> QED BY <1>5, <2>1
<1> HIDE DEF back
<1>7. \A k \in DOMAIN r : f[k] \in at
  BY <1>1, Fun_BijectionProperties
<1>8. to \in Bijection(DOMAIN r, DOMAIN q)
  BY <1>1, <1>5, Fun_BijTransitive
<1>9. to \in [DOMAIN r -> DOMAIN q] /\ \A i, j \in DOMAIN r : to[i] = to[j] => i = j
  <2> HIDE DEF to
  <2> QED BY <1>8, Fun_BijectionProperties
<1>10. \A k \in DOMAIN r : r[k] = q[to[k]]
  <2> SUFFICES ASSUME NEW k \in DOMAIN r PROVE r[k] = q[to[k]]
    OBVIOUS
  <2>1. to[k] = back[f[k]]
    OBVIOUS
  <2> HIDE DEF to
  <2> QED BY <1>1, <1>2, <1>6, <1>7, <2>1
<1> HIDE DEF to
<1>11. \E t \in [DOMAIN r -> DOMAIN q] :
          /\ \A i, j \in DOMAIN r : t[i] = t[j] => i = j
          /\ \A i \in DOMAIN r : r[i] = q[t[i]]
  BY <1>9, <1>10
<1> QED BY <1>4, <1>11, Zenon DEF Rearranges

\* What is selected of a rearranged list was selected of the list.
LEMMA SelectedOfRearranged ==
    ASSUME NEW D, NEW E, NEW g \in Bijection(D, E), NEW r, NEW s,
           \A k \in D : r[k] = s[g[k]],
           NEW at \in SUBSET D, NEW q, Enumerates(q, r, at),
           NEW from, from = {g[k] : k \in at}
    PROVE  Enumerates(q, s, from)
<1>1. PICK f \in Bijection(DOMAIN q, at) : \A k \in DOMAIN q : q[k] = r[f[k]]
  BY DEF Enumerates
<1> DEFINE h == [k \in DOMAIN q |-> g[f[k]]]
<1>2. /\ f \in [DOMAIN q -> at] /\ \A k, l \in DOMAIN q : f[k] = f[l] => k = l
      /\ \A i \in at : \E k \in DOMAIN q : f[k] = i
  BY <1>1, Fun_BijectionProperties
<1>3. g \in [D -> E] /\ \A k, l \in D : g[k] = g[l] => k = l
  BY Fun_BijectionProperties
<1>4. h \in [DOMAIN q -> from]
  BY <1>2, <1>3
<1>5. ASSUME NEW k \in DOMAIN q, NEW l \in DOMAIN q, h[k] = h[l] PROVE k = l
  <2>1. g[f[k]] = g[f[l]] /\ f[k] \in D /\ f[l] \in D
    BY <1>2, <1>5
  <2> HIDE DEF h
  <2> QED BY <1>2, <1>3, <2>1
<1>6. ASSUME NEW i \in from PROVE \E k \in DOMAIN q : h[k] = i
  <2>1. PICK j \in at : i = g[j]
    BY <1>6
  <2>2. PICK k \in DOMAIN q : f[k] = j
    BY <1>2, <2>1
  <2>3. h[k] = i
    BY <2>1, <2>2
  <2> QED BY <2>3
<1>7. \A k \in DOMAIN q : q[k] = s[h[k]]
  <2> SUFFICES ASSUME NEW k \in DOMAIN q PROVE q[k] = s[h[k]]
    OBVIOUS
  <2>1. h[k] = g[f[k]] /\ f[k] \in D
    BY <1>2
  <2> HIDE DEF h
  <2> QED BY <1>1, <2>1
<1> HIDE DEF h
<1>8. h \in Bijection(DOMAIN q, from)
  BY <1>4, <1>5, <1>6, Fun_IsBij
<1> QED BY <1>7, <1>8 DEF Enumerates

\* The described ones among the elements of a list.
LEMMA DescribedEnumerate ==
    ASSUME NEW r, NEW s, NEW at, Enumerates(r, s, at)
    PROVE  /\ Enumerates(Picked(r, Described(r)), s, {i \in at : IsDescribed(s[i])})
           /\ Cardinality(DOMAIN r \ Described(r)) = Len(r) - Len(Picked(r, Described(r)))
<1> DEFINE B == Described(r)
           C == {i \in at : IsDescribed(s[i])}
<1>1. PICK g \in Bijection(DOMAIN r, at) : \A k \in DOMAIN r : r[k] = s[g[k]]
  BY DEF Enumerates
<1>2. Len(r) \in Nat /\ DOMAIN r = 1 .. Len(r)
  BY DEF Enumerates, IsSequence
<1>3. B \in SUBSET DOMAIN r
  BY DEF Described
<1>4. Enumerates(Picked(r, B), r, B) /\ Len(Picked(r, B)) = Cardinality(B)
  BY <1>2, <1>3, PickedEnumerates
<1>5. C = {g[k] : k \in B}
  <2>1. g \in [DOMAIN r -> at] /\ \A i \in at : \E k \in DOMAIN r : g[k] = i
    BY <1>1, Fun_BijectionProperties
  <2>2. \A k \in DOMAIN r : k \in B <=> IsDescribed(s[g[k]])
    BY <1>1 DEF Described
  <2> HIDE DEF B
  <2>3. ASSUME NEW i \in C PROVE i \in {g[k] : k \in B}
    <3>1. PICK k \in DOMAIN r : g[k] = i
      BY <2>1
    <3> QED BY <2>2, <3>1
  <2>4. ASSUME NEW k \in B PROVE g[k] \in C
    BY <1>3, <2>1, <2>2
  <2> QED BY <2>3, <2>4
<1> HIDE DEF B, C
<1>6. Enumerates(Picked(r, B), s, C)
  BY <1>1, <1>3, <1>4, <1>5, SelectedOfRearranged
<1>7. Cardinality(DOMAIN r \ B) = Len(r) - Cardinality(B)
  <2>1. IsFiniteSet(1 .. Len(r)) /\ Cardinality(1 .. Len(r)) = Len(r)
    <3> DEFINE n == Len(r)
    <3>1. n \in Nat
      BY <1>2
    <3> HIDE DEF n
    <3>2. IsFiniteSet(1 .. n) /\ Cardinality(1 .. n) = IF 1 > n THEN 0 ELSE n - 1 + 1
      BY <3>1, FS_Interval
    <3>3. IsFiniteSet(1 .. n) /\ Cardinality(1 .. n) = n
      BY <3>1, <3>2
    <3> QED BY <3>3 DEF n
  <2>2. IsFiniteSet(DOMAIN r) /\ Cardinality(DOMAIN r) = Len(r)
    BY <1>2, <2>1
  <2>3. IsFiniteSet(B) /\ DOMAIN r \cap B = B
    BY <1>3, <2>2, FS_Subset
  <2>4. Cardinality(DOMAIN r \ B) = Cardinality(DOMAIN r) - Cardinality(DOMAIN r \cap B)
    BY <2>2, <2>3, FS_Difference
  <2> QED BY <2>2, <2>3, <2>4
<1> QED BY <1>4, <1>6, <1>7 DEF B, C

-----------------------------------------------------------------------------
\* The two folds of an expectation: the builder takes clauses, and a call is
\* consumed by policies.

StepOf(which, v, x) ==
    IF which = "clauses" THEN AddClause(v, x) ELSE ConsumePolicy(v, x)

FoldOf(which, base, s) ==
    IF which = "clauses" THEN FoldLeft(AddClause, base, s)
    ELSE FoldLeft(ConsumePolicy, base, s)

\* g says for every part of the elements what is made of base by them.
FoldsTo(g, which, base, s) ==
    g = [t \in SUBSET DOMAIN s |->
            IF t = {} THEN base ELSE StepOf(which, g[t \ {Max(t)}], s[Max(t)])]

\* Such a function exists.
LEMMA FoldToExists ==
    ASSUME NEW which, NEW base, NEW s, IsSequence(s)
    PROVE  \E g : FoldsTo(g, which, base, s)
<1> DEFINE n == Len(s)
           Is(g, m) == g = [t \in SUBSET (1 .. m) |->
                               IF t = {} THEN base
                               ELSE StepOf(which, g[t \ {Max(t)}], s[Max(t)])]
           good == {m \in Nat : \E g : Is(g, m)}
<1>1. n \in Nat /\ DOMAIN s = 1 .. n
  BY DEF IsSequence
<1>2. 0 \in good
  <2> DEFINE g == [t \in SUBSET (1 .. 0) |-> base]
  <2>1. \A t \in SUBSET (1 .. 0) : t = {}
    OBVIOUS
  <2>2. Is(g, 0)
    BY <2>1
  <2> HIDE DEF g, Is
  <2> QED BY <2>2
<1>3. ASSUME NEW m \in good PROVE m + 1 \in good
  <2>1. m \in Nat
    OBVIOUS
  <2>2. PICK g : Is(g, m)
    OBVIOUS
  <2> HIDE DEF good
  <2> DEFINE h == [t \in SUBSET (1 .. m + 1) |->
                      IF m + 1 \in t THEN StepOf(which, g[t \ {m + 1}], s[m + 1]) ELSE g[t]]
  <2>3. ASSUME NEW t \in SUBSET (1 .. m)
        PROVE  g[t] = IF t = {} THEN base ELSE StepOf(which, g[t \ {Max(t)}], s[Max(t)])
    BY <2>2, Zenon
  <2>4. ASSUME NEW t \in SUBSET (1 .. m)
        PROVE  h[t] = g[t]
    <3>1. t \in SUBSET (1 .. m + 1) /\ m + 1 \notin t
      BY <2>1
    <3> QED BY <3>1
  <2>5. ASSUME NEW t \in SUBSET (1 .. m + 1)
        PROVE  h[t] = IF t = {} THEN base ELSE StepOf(which, h[t \ {Max(t)}], s[Max(t)])
    <3>1. CASE m + 1 \in t
      <4>1. Max(t) = m + 1 /\ t \ {Max(t)} \in SUBSET (1 .. m)
        BY <2>1, <3>1, MaxOfExtended
      <4>2. h[t] = StepOf(which, g[t \ {m + 1}], s[m + 1])
        BY <3>1
      <4>3. h[t \ {Max(t)}] = g[t \ {m + 1}]
        BY <2>4, <4>1
      <4> HIDE DEF h
      <4> QED BY <3>1, <4>1, <4>2, <4>3
    <3>2. CASE m + 1 \notin t
      <4>1. t \in SUBSET (1 .. m)
        <5>1. \A x \in t : x \in 1 .. m
          BY <2>1, <3>2
        <5> QED BY <5>1
      <4>2. t \ {Max(t)} \in SUBSET (1 .. m)
        BY <4>1
      <4> HIDE DEF h
      <4> QED BY <2>3, <2>4, <4>1, <4>2
    <3> QED BY <3>1, <3>2
  <2>6. h = [t \in SUBSET (1 .. m + 1) |-> h[t]]
    OBVIOUS
  <2> HIDE DEF h
  <2>7. Is(h, m + 1)
    BY <2>5, <2>6, Zenon
  <2> HIDE DEF Is
  <2> QED BY <2>1, <2>7 DEF good
<1>4. good \in SUBSET Nat
  OBVIOUS
<1> HIDE DEF good
<1>5. n \in good
  BY <1>1, <1>2, <1>3, <1>4, CountingUp
<1>6. PICK g : Is(g, n)
  BY <1>5, Zenon DEF good
<1>7. FoldsTo(g, which, base, s)
  BY <1>1, <1>6, Zenon DEF FoldsTo
<1> QED BY <1>7

\* The largest of the first numbers.
LEMMA MaxOfFirst ==
    ASSUME NEW k \in Nat \ {0}
    PROVE  Max(1 .. k) = k /\ (1 .. k) \ {k} = 1 .. k - 1 /\ 1 .. k # {}
<1>1. 1 .. k \in SUBSET (1 .. (k - 1) + 1) /\ (k - 1) + 1 \in 1 .. k /\ k - 1 \in Nat
  OBVIOUS
<1>2. Max(1 .. k) = (k - 1) + 1
  BY <1>1, MaxOfExtended
<1>3. (k - 1) + 1 = k /\ 1 \in 1 .. k
  OBVIOUS
<1>4. (1 .. k) \ {k} = 1 .. k - 1
  OBVIOUS
<1> QED BY <1>2, <1>3, <1>4

\* A fold takes the elements one by one, each on top of those before.
LEMMA FoldPath ==
    ASSUME NEW which, NEW base, NEW s, IsSequence(s)
    PROVE  \E h : /\ h[0] = base
                  /\ \A k \in 1 .. Len(s) : h[k] = StepOf(which, h[k - 1], s[k])
                  /\ FoldOf(which, base, s) = h[Len(s)]
<1> DEFINE n == Len(s)
<1>1. n \in Nat /\ DOMAIN s = 1 .. n
  BY DEF IsSequence
<1>2. \E g : FoldsTo(g, which, base, s)
  BY FoldToExists
<1>3. PICK g : FoldsTo(g, which, base, s) /\ FoldOf(which, base, s) = g[DOMAIN s]
  <2>1. CASE which = "clauses"
    <3> DEFINE Is(iter) == iter = [t \in SUBSET DOMAIN s |->
                              IF t = {} THEN base
                              ELSE AddClause(iter[t \ {Max(t)}], s[Max(t)])]
               g == CHOOSE iter : Is(iter)
    <3>1. FoldOf(which, base, s) = g[DOMAIN s]
      BY <2>1, Zenon DEF FoldOf, FoldLeft, MapThenFoldSet
    <3>2. \A iter : FoldsTo(iter, which, base, s) <=> Is(iter)
      BY <2>1, Zenon DEF FoldsTo, StepOf
    <3> HIDE DEF Is
    <3>3. Is(g)
      BY <1>2, <3>2, Zenon
    <3> HIDE DEF g
    <3> QED BY <3>1, <3>2, <3>3
  <2>2. CASE which # "clauses"
    <3> DEFINE Is(iter) == iter = [t \in SUBSET DOMAIN s |->
                              IF t = {} THEN base
                              ELSE ConsumePolicy(iter[t \ {Max(t)}], s[Max(t)])]
               g == CHOOSE iter : Is(iter)
    <3>1. FoldOf(which, base, s) = g[DOMAIN s]
      BY <2>2, Zenon DEF FoldOf, FoldLeft, MapThenFoldSet
    <3>2. \A iter : FoldsTo(iter, which, base, s) <=> Is(iter)
      BY <2>2, Zenon DEF FoldsTo, StepOf
    <3> HIDE DEF Is
    <3>3. Is(g)
      BY <1>2, <3>2, Zenon
    <3> HIDE DEF g
    <3> QED BY <3>1, <3>2, <3>3
  <2> QED BY <2>1, <2>2
<1>4. ASSUME NEW t \in SUBSET (1 .. n)
      PROVE  g[t] = IF t = {} THEN base ELSE StepOf(which, g[t \ {Max(t)}], s[Max(t)])
  BY <1>1, <1>3, Zenon DEF FoldsTo
<1> DEFINE h == [k \in 0 .. n |-> g[1 .. k]]
<1>5. h[0] = base
  <2>1. 1 .. 0 = {}
    OBVIOUS
  <2>2. h[0] = g[{}]
    BY <1>1, <2>1
  <2>3. g[{}] = base
    BY <1>4
  <2> QED BY <2>2, <2>3
<1>6. ASSUME NEW k \in 1 .. n
      PROVE  h[k] = StepOf(which, h[k - 1], s[k])
  <2>1. k \in Nat \ {0} /\ 1 .. k \in SUBSET (1 .. n)
        /\ h[k] = g[1 .. k] /\ h[k - 1] = g[1 .. k - 1]
    BY <1>1
  <2>2. Max(1 .. k) = k /\ (1 .. k) \ {k} = 1 .. k - 1 /\ 1 .. k # {}
    BY <2>1, MaxOfFirst
  <2> HIDE DEF h
  <2>3. g[1 .. k] = StepOf(which, g[(1 .. k) \ {Max(1 .. k)}], s[Max(1 .. k)])
    BY <1>4, <2>1, <2>2, Zenon
  <2> QED BY <2>1, <2>2, <2>3
<1>7. h[n] = FoldOf(which, base, s)
  BY <1>1, <1>3
<1> HIDE DEF h
<1> QED BY <1>5, <1>6, <1>7

\* Nothing else takes them so.
LEMMA FoldIs ==
    ASSUME NEW which, NEW base, NEW s, IsSequence(s), NEW f, f[0] = base,
           \A k \in 1 .. Len(s) : f[k] = StepOf(which, f[k - 1], s[k])
    PROVE  FoldOf(which, base, s) = f[Len(s)]
<1> DEFINE n == Len(s)
<1>1. n \in Nat
  BY DEF IsSequence
<1>2. PICK h : /\ h[0] = base
               /\ \A k \in 1 .. n : h[k] = StepOf(which, h[k - 1], s[k])
               /\ FoldOf(which, base, s) = h[n]
  BY FoldPath
<1> DEFINE good == {k \in Nat : k <= n => h[k] = f[k]}
<1> HIDE DEF n
<1>3. 0 \in good
  BY <1>2
<1>4. ASSUME NEW k \in good PROVE k + 1 \in good
  <2> SUFFICES ASSUME k + 1 <= n PROVE h[k + 1] = f[k + 1]
    OBVIOUS
  <2>1. k + 1 \in 1 .. n /\ (k + 1) - 1 = k /\ k <= n
    BY <1>1
  <2>2. h[k] = f[k]
    BY <2>1
  <2>3. h[k + 1] = StepOf(which, h[k], s[k + 1]) /\ f[k + 1] = StepOf(which, f[k], s[k + 1])
    BY <1>2, <2>1 DEF n
  <2> QED BY <2>2, <2>3
<1>5. good \in SUBSET Nat
  OBVIOUS
<1> HIDE DEF good
<1>6. n \in good
  BY <1>1, <1>3, <1>4, <1>5, CountingUp
<1> QED BY <1>1, <1>2, <1>6 DEF good, n

\* The first elements of a list.
LEMMA Prefix ==
    ASSUME NEW s, IsSequence(s), NEW k \in 0 .. Len(s)
    PROVE  /\ IsSequence(SubSeq(s, 1, k)) /\ Len(SubSeq(s, 1, k)) = k
           /\ \A i \in 1 .. k : SubSeq(s, 1, k)[i] = s[i]
           /\ SubSeq(s, 1, Len(s)) = s
<1> DEFINE S == ToSet(s)
<1>1. s \in Seq(S) /\ DOMAIN s = 1 .. Len(s) /\ Len(s) \in Nat
  BY Lists DEF IsSequence
<1> HIDE DEF S
<1>2. /\ SubSeq(s, 1, k) \in Seq(S) /\ Len(SubSeq(s, 1, k)) = k
      /\ \A i \in 1 .. k : SubSeq(s, 1, k)[i] = s[i]
  BY <1>1
<1>3. SubSeq(s, 1, Len(s)) = s
  BY <1>1
<1> QED BY <1>2, <1>3, Lists, Zenon

\* A fold over the first elements is where the fold is by then.
LEMMA FoldOfPrefix ==
    ASSUME NEW which, NEW base, NEW s, IsSequence(s), NEW f, f[0] = base,
           \A k \in 1 .. Len(s) : f[k] = StepOf(which, f[k - 1], s[k]),
           NEW k \in 0 .. Len(s)
    PROVE  FoldOf(which, base, SubSeq(s, 1, k)) = f[k]
<1> DEFINE q == SubSeq(s, 1, k)
<1>1. IsSequence(q) /\ Len(q) = k /\ \A i \in 1 .. k : q[i] = s[i]
  BY Prefix
<1> HIDE DEF q
<1>2. \A i \in 1 .. Len(q) : f[i] = StepOf(which, f[i - 1], q[i])
  <2>1. Len(s) \in Nat
    BY DEF IsSequence
  <2>2. \A i \in 1 .. k : i \in 1 .. Len(s)
    BY <2>1
  <2> QED BY <1>1, <2>2
<1>3. FoldOf(which, base, q) = f[Len(q)]
  BY <1>1, <1>2, FoldIs
<1> QED BY <1>1, <1>3 DEF q

\* One element more is one step more.
LEMMA FoldOfAppended ==
    ASSUME NEW which, NEW base, NEW s, IsSequence(s), NEW x
    PROVE  FoldOf(which, base, Append(s, x)) = StepOf(which, FoldOf(which, base, s), x)
<1> DEFINE n == Len(s)
           r == Append(s, x)
           S == ToSet(s) \cup {x}
<1>1. n \in Nat /\ s \in Seq(S) /\ x \in S
  <2>1. s \in Seq(ToSet(s)) /\ ToSet(s) \subseteq S
    BY Lists
  <2>2. s \in Seq(S)
    BY <2>1, SeqMonotonic, Zenon
  <2> QED BY <2>2 DEF IsSequence
<1> HIDE DEF S
<1>2. Len(r) = n + 1 /\ r[n + 1] = x /\ \A k \in 1 .. n : r[k] = s[k]
  BY <1>1
<1>3. IsSequence(r)
  BY Appended
<1> HIDE DEF r
<1>4. PICK h : /\ h[0] = base
               /\ \A k \in 1 .. n : h[k] = StepOf(which, h[k - 1], s[k])
               /\ FoldOf(which, base, s) = h[n]
  BY FoldPath
<1> DEFINE f == [k \in 0 .. n + 1 |-> IF k = n + 1 THEN StepOf(which, h[n], x) ELSE h[k]]
<1>5. f[n + 1] = StepOf(which, h[n], x) /\ \A k \in 0 .. n : f[k] = h[k]
  BY <1>1
<1> HIDE DEF f, n
<1>6. f[0] = base
  BY <1>1, <1>4, <1>5
<1>7. ASSUME NEW k \in 1 .. n + 1
      PROVE  f[k] = StepOf(which, f[k - 1], r[k])
  <2>1. CASE k = n + 1
    <3>1. k - 1 = n /\ n \in 0 .. n
      BY <1>1, <2>1
    <3> QED BY <1>2, <1>5, <2>1, <3>1
  <2>2. CASE k \in 1 .. n
    <3>1. k \in 0 .. n /\ k - 1 \in 0 .. n
      BY <1>1, <2>2
    <3>2. f[k] = h[k] /\ f[k - 1] = h[k - 1] /\ r[k] = s[k]
      BY <1>2, <1>5, <2>2, <3>1
    <3> QED BY <1>4, <2>2, <3>2
  <2> QED BY <1>1, <2>1, <2>2
<1>8. FoldOf(which, base, r) = f[n + 1]
  BY <1>2, <1>3, <1>6, <1>7, FoldIs
<1> QED BY <1>4, <1>5, <1>8 DEF r

-----------------------------------------------------------------------------
\* What an expectation has of the clauses it was stated with.

\* A policy of an expectation that was stated for overload s.
OwnPolicy(p, s) ==
    \/ /\ p.is = "requirement"
       /\ \A k \in DOMAIN p.selection.indices : p.projections[k] \in {"identity", "negate"}
    \/ p = Category(s.ref)
    \/ p = Constness(s.const)
    \/ p.is = "effect"

\* The finalizer is the one among the first k clauses, if there is one.
Finalized(finalizer, clauses, k) ==
    /\ (\A i \in 1 .. k : ~IsFinalizer(clauses[i])) => finalizer = InitFinalize
    /\ \A i \in 1 .. k : IsFinalizer(clauses[i]) => finalizer = clauses[i]

\* A fold of effects over what has none changes nothing.
LEMMA NoEffects ==
    ASSUME NEW s, IsSequence(s), \A i \in DOMAIN s : s[i].is # "effect", NEW base
    PROVE  FoldOf("policies", base, s) = base
<1> DEFINE n == Len(s)
           f == [k \in 0 .. n |-> base]
<1>1. n \in Nat /\ DOMAIN s = 1 .. n
  BY DEF IsSequence
<1>2. \A k \in 0 .. n : f[k] = base
  OBVIOUS
<1> HIDE DEF f, n
<1>3. ASSUME NEW k \in 1 .. n PROVE f[k] = StepOf("policies", f[k - 1], s[k])
  <2>1. f[k] = base /\ f[k - 1] = base /\ s[k].is # "effect"
    BY <1>1, <1>2
  <2> QED BY <2>1 DEF StepOf, ConsumePolicy
<1>4. f[0] = base /\ f[n] = base
  BY <1>1, <1>2
<1> QED BY <1>3, <1>4, FoldIs DEF n

\* A builder before any clause: requirements on arguments, and the overload's own.
LEMMA MadeIsOwn ==
    ASSUME NEW overload, NEW args, IsSequence(args)
    PROVE  LET made == MakeExpectationBuilder(overload, args)
           IN  /\ IsSequence(made.policies)
               /\ \A i \in DOMAIN made.policies :
                     OwnPolicy(made.policies[i], overload) /\ made.policies[i].is # "effect"
               /\ made.finalizer = InitFinalize
<1> DEFINE made == MakeExpectationBuilder(overload, args)
           m == Len(args)
           own == <<Category(overload.ref), Constness(overload.const)>>
           ofArgs == [i \in DOMAIN args |->
                         ExpectArg(i - 1, MakeArgMatcher(args[i]), "identity")]
           S == {p \in ToSet(ofArgs) \cup ToSet(own) :
                    OwnPolicy(p, overload) /\ p.is # "effect"}
<1>1. made.policies = ofArgs \o own /\ made.finalizer = InitFinalize
  BY DEF MakeExpectationBuilder
<1>2. m \in Nat /\ DOMAIN args = 1 .. m
  BY DEF IsSequence
<1>3. ASSUME NEW i \in 1 .. m PROVE ofArgs[i] \in S
  <2> DEFINE p == ExpectArg(i - 1, MakeArgMatcher(args[i]), "identity")
  <2>1. /\ p.is = "requirement" /\ p.selection.indices = <<i - 1>>
        /\ p.projections = <<"identity">>
    BY DEF ExpectArg, ArgsRequirement, Args
  <2>2. ofArgs[i] = p /\ ofArgs[i] \in ToSet(ofArgs)
    BY <1>2 DEF ToSet
  <2> HIDE DEF p, ofArgs
  <2>3. OwnPolicy(p, overload)
    <3>1. \A k \in DOMAIN <<i - 1>> : <<"identity">>[k] = "identity"
      OBVIOUS
    <3> QED BY <2>1, <3>1 DEF OwnPolicy
  <2> QED BY <2>1, <2>2, <2>3
<1>4. ASSUME NEW i \in 1 .. 2 PROVE own[i] \in S
  <2>1. own[1].is = "category" /\ own[2].is = "constness"
    BY DEF Category, Constness
  <2>2. OwnPolicy(own[1], overload) /\ OwnPolicy(own[2], overload)
    BY DEF OwnPolicy
  <2>3. own[1] \in ToSet(own) /\ own[2] \in ToSet(own)
    BY DEF ToSet
  <2>4. i = 1 \/ i = 2
    OBVIOUS
  <2> HIDE DEF own
  <2> QED BY <2>1, <2>2, <2>3, <2>4
<1>5. ofArgs = [i \in 1 .. m |-> ofArgs[i]] /\ own = [i \in 1 .. 2 |-> own[i]]
  BY <1>2
<1> HIDE DEF made, ofArgs, own, S, m
<1>6. ofArgs \in Seq(S) /\ own \in Seq(S)
  BY <1>2, <1>3, <1>4, <1>5
<1>7. made.policies \in Seq(S)
  BY <1>1, <1>6, ConcatProperties, Zenon
<1>8. IsSequence(made.policies) /\ \A i \in DOMAIN made.policies : made.policies[i] \in S
  BY <1>7, Lists, Zenon
<1> QED BY <1>1, <1>8 DEF S, made

\* d has the clause c in addition to what b has.
Extends(d, b, c, overload) ==
    /\ \A i \in DOMAIN d.policies : OwnPolicy(d.policies[i], overload)
    /\ \A a : FoldOf("policies", a, d.policies)
                 = StepOf("policies", FoldOf("policies", a, b.policies), c)
    /\ IsFinalizer(c) => d.finalizer = c
    /\ ~IsFinalizer(c) => d.finalizer = b.finalizer

\* One clause more.
LEMMA ClauseKeeps ==
    ASSUME NEW overload, NEW args, IsSequence(args), NEW clauses,
           NEW b \in Builders(overload, args, clauses),
           NEW c \in ToSet(clauses), IsClause(c),
           \A i \in DOMAIN b.policies : OwnPolicy(b.policies[i], overload),
           NEW d, d = AddClause(b, c)
    PROVE  Extends(d, b, c, overload)
<1>1. /\ DOMAIN b = {"target", "policies", "timesConfigured", "min", "max", "finalizer"}
      /\ IsSequence(b.policies)
  <2>1. b \in [target : {MakeExpectationBuilder(overload, args).target},
               policies : Seq(ToSet(MakeExpectationBuilder(overload, args).policies)
                                  \cup ToSet(clauses)),
               timesConfigured : BOOLEAN, min : Nat, max : Nat,
               finalizer : {InitFinalize} \cup ToSet(clauses)]
    BY Zenon DEF Builders
  <2> DEFINE P == ToSet(MakeExpectationBuilder(overload, args).policies) \cup ToSet(clauses)
  <2>2. b.policies \in Seq(P) /\ DOMAIN b = {"target", "policies", "timesConfigured", "min",
                                             "max", "finalizer"}
    <3> DEFINE T == MakeExpectationBuilder(overload, args).target
               F == {InitFinalize} \cup ToSet(clauses)
    <3> HIDE DEF T, F, P
    <3>1. b \in [target : {T}, policies : Seq(P), timesConfigured : BOOLEAN, min : Nat,
                 max : Nat, finalizer : F]
      BY <2>1, Zenon DEF T, F, P
    <3> QED BY <3>1
  <2> QED BY <2>2, Lists, Zenon
<1>2. ASSUME c.is \in {"times"} \/ IsFinalizer(c), NEW v
      PROVE  StepOf("policies", v, c) = v
  BY <1>2 DEF StepOf, ConsumePolicy, IsFinalizer
<1>3. CASE c.is = "times"
  <2>1. d = [b EXCEPT !.timesConfigured = TRUE, !.min = c.min, !.max = c.max]
    BY <1>3 DEF AddClause
  <2>2. d.policies = b.policies /\ d.finalizer = b.finalizer /\ ~IsFinalizer(c)
    BY <1>1, <1>3, <2>1 DEF IsFinalizer
  <2> QED BY <1>2, <1>3, <2>2 DEF Extends
<1>4. CASE c.is # "times" /\ IsFinalizer(c)
  <2>1. d = [b EXCEPT !.finalizer = c]
    BY <1>4 DEF AddClause
  <2>2. d.policies = b.policies /\ d.finalizer = c
    BY <1>1, <2>1
  <2> QED BY <1>2, <1>4, <2>2 DEF Extends
<1>5. CASE c.is # "times" /\ ~IsFinalizer(c)
  <2>1. d = [b EXCEPT !.policies = Append(b.policies, c)]
    BY <1>5 DEF AddClause
  <2>2. d.policies = Append(b.policies, c) /\ d.finalizer = b.finalizer
    BY <1>1, <2>1
  <2>3. OwnPolicy(c, overload)
    BY <1>5 DEF IsClause, OwnPolicy
  <2>4. \A i \in DOMAIN d.policies : OwnPolicy(d.policies[i], overload)
    <3> DEFINE new == d.policies
               old == b.policies
    <3>1. IsSequence(old) /\ new = Append(old, c)
      BY <1>1, <2>2
    <3> HIDE DEF new, old
    <3>2. \A i \in DOMAIN new : new[i] = c \/ (i \in DOMAIN old /\ new[i] = old[i])
      BY <3>1, Appended, Zenon
    <3> QED BY <2>3, <3>2, Zenon DEF new, old
  <2>5. \A a : FoldOf("policies", a, d.policies)
                   = StepOf("policies", FoldOf("policies", a, b.policies), c)
    BY <1>1, <2>2, FoldOfAppended
  <2> QED BY <1>5, <2>2, <2>4, <2>5 DEF Extends
<1> QED BY <1>3, <1>4, <1>5

\* The policies of an expectation have the effects of its clauses, in their order,
\* and its finalizer is the one that was stated.
LEMMA BuiltKeeps ==
    ASSUME NEW overload, NEW args, IsSequence(args), NEW clauses, IsSequence(clauses),
           \A i \in DOMAIN clauses : IsClause(clauses[i]) /\ HasLimits(clauses[i]),
           CompilesFor(overload, args, clauses)
    PROVE  LET b == Built(overload, args, clauses)
           IN  /\ \A i \in DOMAIN b.policies : OwnPolicy(b.policies[i], overload)
               /\ \A a : FoldOf("policies", a, b.policies) = FoldOf("policies", a, clauses)
               /\ Finalized(b.finalizer, clauses, Len(clauses))
<1> DEFINE n == Len(clauses)
           made == MakeExpectationBuilder(overload, args)
           B == Builders(overload, args, clauses)
           Upto(k) == SubSeq(clauses, 1, k)
<1>1. n \in Nat /\ DOMAIN clauses = 1 .. n
  BY DEF IsSequence
<1>2. PICK h : /\ h[0] = made
               /\ \A k \in 1 .. n : h[k] = StepOf("clauses", h[k - 1], clauses[k])
               /\ FoldOf("clauses", made, clauses) = h[n]
  BY FoldPath
<1>3. Built(overload, args, clauses) = h[n]
  BY <1>2, Zenon DEF Built, FoldOf
<1>4. \A k \in 0 .. n : Built(overload, args, Upto(k)) = h[k]
  <2>1. ASSUME NEW k \in 0 .. n PROVE FoldOf("clauses", made, Upto(k)) = h[k]
    <3> HIDE DEF made
    <3> QED BY <1>2, FoldOfPrefix
  <2> QED BY <2>1, Zenon DEF Built, FoldOf
<1>5. \A k \in 0 .. n : IsSequence(Upto(k))
  BY Prefix
<1>6. \A a : \A k \in 1 .. n : FoldOf("policies", a, Upto(k))
                            = StepOf("policies", FoldOf("policies", a, Upto(k - 1)), clauses[k])
  <2> SUFFICES ASSUME NEW a, NEW k \in 1 .. n
               PROVE  FoldOf("policies", a, Upto(k))
                          = StepOf("policies", FoldOf("policies", a, Upto(k - 1)), clauses[k])
    OBVIOUS
  <2>1. PICK f : /\ f[0] = a
                 /\ \A j \in 1 .. n : f[j] = StepOf("policies", f[j - 1], clauses[j])
                 /\ FoldOf("policies", a, clauses) = f[n]
    BY FoldPath
  <2>2. k \in 0 .. n /\ k - 1 \in 0 .. n
    BY <1>1
  <2>3. FoldOf("policies", a, Upto(k)) = f[k] /\ FoldOf("policies", a, Upto(k - 1)) = f[k - 1]
    BY <2>1, <2>2, FoldOfPrefix
  <2> QED BY <2>1, <2>3
<1> DEFINE Good(k) ==
               /\ h[k] \in B
               /\ \A i \in DOMAIN h[k].policies : OwnPolicy(h[k].policies[i], overload)
               /\ \A a : FoldOf("policies", a, h[k].policies) = FoldOf("policies", a, Upto(k))
               /\ Finalized(h[k].finalizer, clauses, k)
           good == {k \in Nat : k <= n => Good(k)}
<1>7. \A k \in 1 .. n : AcceptsClause(h[k - 1], clauses[k])
  <2> SUFFICES ASSUME NEW k \in 1 .. n PROVE AcceptsClause(h[k - 1], clauses[k])
    OBVIOUS
  <2>1. k - 1 \in 0 .. n /\ k \in DOMAIN clauses
    BY <1>1
  <2>2. AcceptsClause(Built(overload, args, Upto(k - 1)), clauses[k])
    BY <2>1, Zenon DEF CompilesFor
  <2> QED BY <1>4, <2>1, <2>2
<1> HIDE DEF n, made, B
<1>8. 0 \in good
  <2>1. h[0] \in B
    BY <1>2, BuilderStarts DEF made, B
  <2>2. /\ IsSequence(made.policies)
        /\ \A i \in DOMAIN made.policies :
              OwnPolicy(made.policies[i], overload) /\ made.policies[i].is # "effect"
        /\ made.finalizer = InitFinalize
    BY MadeIsOwn, Zenon DEF made
  <2>3. \A a : FoldOf("policies", a, h[0].policies) = a
    BY <1>2, <2>2, NoEffects
  <2>4. \A a : FoldOf("policies", a, Upto(0)) = a
    <3>1. 0 \in 0 .. n
      BY <1>1
    <3>2. IsSequence(Upto(0)) /\ DOMAIN Upto(0) = {}
      <4>1. IsSequence(Upto(0)) /\ Len(Upto(0)) = 0
        BY <3>1, Prefix DEF n
      <4>2. DOMAIN Upto(0) = 1 .. 0
        BY <4>1, Lists
      <4> QED BY <4>1, <4>2
    <3> QED BY <3>2, NoEffects
  <2>5. Finalized(h[0].finalizer, clauses, 0)
    BY <1>2, <2>2 DEF Finalized
  <2> QED BY <1>2, <2>1, <2>2, <2>3, <2>4, <2>5
<1>9. ASSUME NEW k \in good PROVE k + 1 \in good
  <2> SUFFICES ASSUME k + 1 <= n PROVE Good(k + 1)
    OBVIOUS
  <2> DEFINE one == clauses[k + 1]
             before == h[k]
             after == h[k + 1]
  <2>1. k \in Nat /\ k <= n /\ k + 1 \in 1 .. n /\ (k + 1) - 1 = k
    BY <1>1
  <2>2. Good(k)
    BY <2>1
  <2>3. after = AddClause(before, one)
    BY <1>2, <2>1 DEF StepOf
  <2>4. one \in ToSet(clauses) /\ IsClause(one) /\ HasLimits(one) /\ AcceptsClause(before, one)
    BY <1>1, <1>7, <2>1 DEF ToSet
  <2> HIDE DEF good, after, before, one
  <2>5. after \in B
    BY <2>2, <2>3, <2>4, BuilderGoesOn DEF B, before
  <2>6. /\ \A i \in DOMAIN after.policies : OwnPolicy(after.policies[i], overload)
        /\ \A a : FoldOf("policies", a, after.policies)
                     = StepOf("policies", FoldOf("policies", a, before.policies), one)
        /\ IsFinalizer(one) => after.finalizer = one
        /\ ~IsFinalizer(one) => after.finalizer = before.finalizer
    <3>1. before \in B /\ \A i \in DOMAIN before.policies : OwnPolicy(before.policies[i], overload)
      BY <2>2 DEF before
    <3> HIDE DEF Good
    <3>2. before \in Builders(overload, args, clauses)
      BY <3>1 DEF B
    <3>3. \A i \in DOMAIN before.policies : OwnPolicy(before.policies[i], overload)
      BY <3>1
    <3>4. one \in ToSet(clauses)
      BY <2>4
    <3>5. IsClause(one)
      BY <2>4
    <3>6. after = AddClause(before, one)
      BY <2>3
    <3> HIDE DEF B
    <3>7. Extends(after, before, one, overload)
      BY <3>2, <3>3, <3>4, <3>5, <3>6, ClauseKeeps
    <3> QED BY <3>7, Zenon DEF Extends
  <2>7. \A a : FoldOf("policies", a, after.policies) = FoldOf("policies", a, Upto(k + 1))
    BY <1>6, <2>1, <2>2, <2>6 DEF before, one
  <2>8. Finalized(after.finalizer, clauses, k + 1)
    <3>1. Finalized(before.finalizer, clauses, k)
      BY <2>2 DEF before
    <3>2. \A i \in 1 .. k + 1 : i \in 1 .. k \/ i = k + 1
      BY <2>1
    <3>3. \A i \in 1 .. k : i \in 1 .. k + 1
      BY <2>1
    <3>4. CASE IsFinalizer(one)
      <4>1. before.finalizer = InitFinalize /\ after.finalizer = one
        BY <2>4, <2>6, <3>4 DEF AcceptsClause
      <4>2. \A i \in 1 .. k : ~IsFinalizer(clauses[i])
        <5> SUFFICES ASSUME NEW i \in 1 .. k, IsFinalizer(clauses[i]) PROVE FALSE
          OBVIOUS
        <5>1. clauses[i] = InitFinalize
          BY <3>1, <4>1 DEF Finalized
        <5> QED BY <5>1 DEF IsFinalizer, InitFinalize
      <4> QED BY <2>1, <3>2, <3>4, <4>1, <4>2 DEF Finalized, one
    <3>5. CASE ~IsFinalizer(one)
      <4>1. after.finalizer = before.finalizer
        BY <2>6, <3>5
      <4> QED BY <3>1, <3>2, <3>3, <3>5, <4>1 DEF Finalized, one
    <3> QED BY <3>4, <3>5
  <2> QED BY <2>5, <2>6, <2>7, <2>8 DEF after
<1>10. good \in SUBSET Nat
  OBVIOUS
<1> HIDE DEF good
<1>11. n \in good
  BY <1>1, <1>8, <1>9, <1>10, CountingUp
<1>12. Good(n)
  BY <1>1, <1>11 DEF good
<1>13. Upto(n) = clauses
  BY <1>1, Prefix DEF n
<1> QED BY <1>3, <1>12, <1>13 DEF n

\* r has the elements of s, and x behind them.
Grown(r, s, x) ==
    /\ IsSequence(r)
    /\ \A i \in DOMAIN s : i \in DOMAIN r /\ r[i] = s[i]
    /\ \E i \in DOMAIN r : r[i] = x
    /\ \A i \in DOMAIN r :
          \/ i = Len(s) + 1 /\ r[i] = x
          \/ i \in DOMAIN s /\ r[i] = s[i]

\* A list that one element is appended to, and a list that one is removed from.
LEMMA AppendedTo ==
    ASSUME NEW s, IsSequence(s), NEW x, NEW r, r = Append(s, x)
    PROVE  Grown(r, s, x)
<1> DEFINE S == ToSet(s) \cup {x}
<1>1. s \in Seq(ToSet(s)) /\ DOMAIN s = 1 .. Len(s)
  BY Lists
<1>2. s \in Seq(S) /\ x \in S
  <2>1. ToSet(s) \subseteq S
    OBVIOUS
  <2> QED BY <1>1, <2>1, SeqMonotonic, Zenon
<1> HIDE DEF S
<1>3. /\ r \in Seq(S) /\ Len(r) = Len(s) + 1 /\ Len(s) \in Nat
      /\ DOMAIN r = 1 .. Len(s) + 1
      /\ r[Len(s) + 1] = x
      /\ \A i \in 1 .. Len(s) : r[i] = s[i]
  BY <1>2
<1>4. IsSequence(r)
  BY <1>3, Lists
<1>5. /\ \A i \in 1 .. Len(s) + 1 : i = Len(s) + 1 \/ i \in 1 .. Len(s)
      /\ \A i \in 1 .. Len(s) : i \in 1 .. Len(s) + 1
      /\ Len(s) + 1 \in 1 .. Len(s) + 1
  BY <1>3
<1> QED BY <1>1, <1>3, <1>4, <1>5 DEF Grown

LEMMA RemovedFrom ==
    ASSUME NEW s, IsSequence(s), NEW at \in DOMAIN s, NEW r, r = RemoveAt(s, at)
    PROVE  \E g : /\ \A i \in DOMAIN r : g[i] \in DOMAIN s /\ r[i] = s[g[i]]
                  /\ \A i, j \in DOMAIN r : g[i] = g[j] => i = j
<1> DEFINE S == ToSet(s)
           n == Len(s)
           front == SubSeq(s, 1, at - 1)
           back == SubSeq(s, at + 1, n)
           g == [i \in DOMAIN r |-> IF i < at THEN i ELSE i + 1]
<1>1. s \in Seq(S) /\ DOMAIN s = 1 .. n /\ n \in Nat
  BY Lists DEF IsSequence
<1>2. r = front \o back
  BY Zenon DEF RemoveAt
<1> HIDE DEF S
<1>3. /\ front \in Seq(S) /\ Len(front) = at - 1
      /\ \A i \in 1 .. at - 1 : front[i] = s[i]
  BY <1>1
<1>4. /\ back \in Seq(S) /\ Len(back) = n - at
      /\ \A i \in 1 .. n - at : back[i] = s[at + i]
  BY <1>1
<1> HIDE DEF front, back
<1>5. /\ Len(front \o back) = Len(front) + Len(back)
      /\ DOMAIN (front \o back) = 1 .. Len(front) + Len(back)
      /\ \A i \in 1 .. Len(front) + Len(back) :
            (front \o back)[i] = IF i <= Len(front) THEN front[i] ELSE back[i - Len(front)]
  <2>1. front \o back \in Seq(S)
    BY <1>3, <1>4, ConcatProperties, Zenon
  <2>2. /\ Len(front \o back) = Len(front) + Len(back)
        /\ \A i \in 1 .. Len(front) + Len(back) :
              (front \o back)[i] = IF i <= Len(front) THEN front[i] ELSE back[i - Len(front)]
    BY <1>3, <1>4, ConcatProperties, Zenon
  <2> QED BY <2>1, <2>2
<1>6. DOMAIN r = 1 .. n - 1
  BY <1>1, <1>2, <1>3, <1>4, <1>5
<1>7. \A i \in 1 .. n - 1 : g[i] \in 1 .. n /\ r[i] = s[g[i]]
  <2> SUFFICES ASSUME NEW i \in 1 .. n - 1 PROVE g[i] \in 1 .. n /\ r[i] = s[g[i]]
    OBVIOUS
  <2>1. r[i] = IF i <= at - 1 THEN front[i] ELSE back[i - (at - 1)]
    BY <1>1, <1>2, <1>3, <1>4, <1>5, <1>6
  <2>2. g[i] = IF i < at THEN i ELSE i + 1
    BY <1>6
  <2> HIDE DEF g
  <2>3. CASE i < at
    <3>1. i \in 1 .. at - 1 /\ i <= at - 1
      BY <1>1, <2>3
    <3> QED BY <1>1, <1>3, <2>1, <2>2, <2>3, <3>1
  <2>4. CASE ~(i < at)
    <3>1. i - (at - 1) \in 1 .. n - at /\ at + (i - (at - 1)) = i + 1 /\ ~(i <= at - 1)
      BY <1>1, <2>4
    <3>2. back[i - (at - 1)] = s[i + 1]
      BY <1>4, <3>1
    <3> QED BY <1>1, <2>1, <2>2, <2>4, <3>1, <3>2
  <2> QED BY <2>3, <2>4
<1>8. \A i, j \in 1 .. n - 1 : g[i] = g[j] => i = j
  <2>1. \A i \in 1 .. n - 1 : g[i] = IF i < at THEN i ELSE i + 1
    BY <1>6
  <2> HIDE DEF g
  <2> QED BY <1>1, <2>1
<1> HIDE DEF g
<1>9. /\ \A i \in DOMAIN r : g[i] \in DOMAIN s /\ r[i] = s[g[i]]
      /\ \A i, j \in DOMAIN r : g[i] = g[j] => i = j
  BY <1>1, <1>6, <1>7, <1>8
<1> QED BY <1>9

-----------------------------------------------------------------------------
\* What is collected.

\* An expectation that was built of its clauses: its policies say which overload it was
\* stated for, and do what the clauses say in their order.
BuiltOfClauses(overloads, e, key) ==
    /\ IsSequence(e.clauses)
    /\ \E s \in ToSet(overloads) :
          Decay(s) = key /\ \A i \in DOMAIN e.policies : OwnPolicy(e.policies[i], s)
    /\ \A a : FoldOf("policies", a, e.policies) = FoldOf("policies", a, e.clauses)
    /\ Finalized(e.finalizer, e.clauses, Len(e.clauses))

\* Expectations keep what they were built of, and have ids of their own.
BuiltInv ==
    \A key \in DOMAIN collections :
        /\ \A at \in DOMAIN collections[key] :
              BuiltOfClauses(mock.overloads, collections[key][at], key)
        /\ \A i, j \in DOMAIN collections[key] :
              collections[key][i].id = collections[key][j].id => i = j

\* The expectation that is stated.
LEMMA ExpectBuilds ==
    ASSUME FrameInv, CollectionsInv, NEW object, NEW stated \in program.expectations,
           Expect(object, stated)
    PROVE  \E key \in DOMAIN collections : \E e :
              /\ BuiltOfClauses(mock.overloads, e, key)
              /\ e.id = created + 1
              /\ collections' = [collections EXCEPT ![key] = Append(collections[key], e)]
<1> DEFINE found == Resolve(mock.overloads, object, ForThis("_", stated.types))
           overload == CHOOSE s \in found : TRUE
           args == ForThis(Wildcard, stated.args)
           b == Built(overload, args, stated.clauses)
           e == [id |-> created + 1, target |-> b.target, policies |-> b.policies,
                 finalizer |-> b.finalizer, min |-> b.min, max |-> b.max,
                 count |-> 0, clauses |-> stated.clauses]
           key == Decay(overload)
<1>1. /\ found # {} /\ CompilesFor(overload, args, stated.clauses)
      /\ collections' = [collections EXCEPT ![key] = Append(collections[key], e)]
  BY Zenon DEF Expect
<1>2. overload \in ToSet(mock.overloads)
  <2>1. overload \in found
    <3> HIDE DEF found
    <3> QED BY <1>1
  <2>2. found \subseteq ToSet(mock.overloads)
    BY Zenon DEF Resolve
  <2> HIDE DEF overload, found
  <2> QED BY <2>1, <2>2
<1>3. key \in DOMAIN collections
  <2> HIDE DEF overload
  <2> QED BY <1>2 DEF CollectionsInv
<1>4. Decay(overload) = key
  OBVIOUS
<1> HIDE DEF overload, key
<1>5. IsSequence(args)
  <2>1. IsSequence(stated.args)
    BY ProgramAssumed
  <2> QED BY <2>1, Prepended, Zenon DEF ForThis
<1>6. /\ IsSequence(stated.clauses)
      /\ \A i \in DOMAIN stated.clauses :
            IsClause(stated.clauses[i]) /\ HasLimits(stated.clauses[i])
  BY ProgramAssumed
<1> HIDE DEF args
<1>7. /\ \A i \in DOMAIN b.policies : OwnPolicy(b.policies[i], overload)
      /\ \A a : FoldOf("policies", a, b.policies) = FoldOf("policies", a, stated.clauses)
      /\ Finalized(b.finalizer, stated.clauses, Len(stated.clauses))
  BY <1>1, <1>5, <1>6, BuiltKeeps
<1> HIDE DEF b
<1>8. /\ e.id = created + 1 /\ e.policies = b.policies /\ e.finalizer = b.finalizer
      /\ e.clauses = stated.clauses
  OBVIOUS
<1> HIDE DEF e
<1>9. BuiltOfClauses(mock.overloads, e, key)
  BY <1>2, <1>4, <1>6, <1>7, <1>8, Zenon DEF BuiltOfClauses
<1> QED BY <1>1, <1>3, <1>8, <1>9

\* What is done to collections leaves it so.
LEMMA BuiltPreserved == FrameInv /\ CallInv /\ ServingInv /\ BuiltInv /\ [Next]_vars => BuiltInv'
<1> SUFFICES ASSUME FrameInv, CallInv, ServingInv, BuiltInv, [Next]_vars
             PROVE  BuiltInv'
  OBVIOUS
<1> DEFINE Good(key, c) ==
               /\ \A at \in DOMAIN c : BuiltOfClauses(mock.overloads, c[at], key)
               /\ \A i, j \in DOMAIN c : c[i].id = c[j].id => i = j
<1>1. mock' = mock
  BY DeclarationKept
<1>2. \A key \in DOMAIN collections :
          /\ IsSequence(collections[key]) /\ Good(key, collections[key])
          /\ \A at \in DOMAIN collections[key] :
                Collected(mock.overloads, created, collections[key][at], key)
  BY DEF ServingInv, CollectionsInv, BuiltInv
<1>3. ASSUME collections' = collections PROVE BuiltInv'
  BY <1>1, <1>2, <1>3 DEF BuiltInv
<1>4. ASSUME NEW key \in DOMAIN collections, NEW c, Good(key, c),
             collections' = [collections EXCEPT ![key] = c]
      PROVE  BuiltInv'
  <2>1. DOMAIN collections' = DOMAIN collections
    BY <1>4
  <2>2. \A k \in DOMAIN collections : Good(k, collections'[k])
    <3> HIDE DEF Good
    <3> QED BY <1>2, <1>4
  <2> QED BY <1>1, <2>1, <2>2 DEF BuiltInv
<1>5. ASSUME NEW object, NEW stated \in program.expectations, Expect(object, stated)
      PROVE  BuiltInv'
  <2>1. PICK key \in DOMAIN collections : \E e :
              /\ BuiltOfClauses(mock.overloads, e, key)
              /\ e.id = created + 1
              /\ collections' = [collections EXCEPT ![key] = Append(collections[key], e)]
    BY <1>5, ExpectBuilds DEF ServingInv
  <2>2. PICK e : /\ BuiltOfClauses(mock.overloads, e, key)
                 /\ e.id = created + 1
                 /\ collections' = [collections EXCEPT ![key] = Append(collections[key], e)]
    BY <2>1
  <2> DEFINE s == collections[key]
             c == Append(s, e)
  <2>3. IsSequence(s) /\ Good(key, s)
        /\ \A i \in DOMAIN s : s[i].id \in 1 .. created
    BY <1>2 DEF Collected
  <2>4. \A i \in DOMAIN s : s[i].id # e.id
    <3>1. created \in Nat
      BY DEF ServingInv, CollectionsInv
    <3> HIDE DEF s
    <3> QED BY <2>2, <2>3, <3>1
  <2>5. \A i \in DOMAIN c :
            \/ i = Len(s) + 1 /\ c[i] = e
            \/ i \in DOMAIN s /\ c[i] = s[i]
    <3> HIDE DEF s
    <3> QED BY <2>3, AppendedTo DEF Grown
  <2> HIDE DEF c, s
  <2>6. Good(key, c)
    BY <2>2, <2>3, <2>4, <2>5
  <2> HIDE DEF Good
  <2> QED BY <1>4, <2>2, <2>6 DEF c, s
<1>6. ASSUME NEW key \in DOMAIN collections, NEW at \in DOMAIN collections[key],
             Destroy(key, at)
      PROVE  BuiltInv'
  <2> DEFINE s == collections[key]
             c == RemoveAt(s, at)
  <2>1. collections' = [collections EXCEPT ![key] = c]
    BY <1>6, Zenon DEF Destroy
  <2>2. IsSequence(s) /\ Good(key, s) /\ at \in DOMAIN s
    BY <1>2
  <2> HIDE DEF s
  <2>3. PICK g : /\ \A i \in DOMAIN c : g[i] \in DOMAIN s /\ c[i] = s[g[i]]
                 /\ \A i, j \in DOMAIN c : g[i] = g[j] => i = j
    BY <2>2, RemovedFrom
  <2> HIDE DEF c
  <2>4. Good(key, c)
    BY <2>2, <2>3
  <2> HIDE DEF Good
  <2> QED BY <1>4, <2>1, <2>4
<1>7. ASSUME Consume
      PROVE  BuiltInv'
  <2> DEFINE key == running.key
             at == running.chosen
             s == collections[key]
             e == s[at]
             f == [e EXCEPT !.count = e.count + 1]
             c == [s EXCEPT ![at] = f]
  <2>1. /\ collections' = [collections EXCEPT ![key][at].count = e.count + 1]
        /\ running.phase = "consume"
    BY <1>7, Zenon DEF Consume, Exp
  <2>2. running.overload # <<>> /\ running.key = Decay(running.overload)
        /\ running.overload \in ToSet(mock.overloads)
    BY <2>1 DEF CallInv
  <2>3. key \in DOMAIN collections /\ at \in DOMAIN s
    BY <2>1, <2>2 DEF ServingInv, HandlerInv, CollectionsInv, IsRunning, WillConsume, Handles,
                      Candidates
  <2>4. collections' = [collections EXCEPT ![key] = c]
    BY <2>1
  <2>5. Good(key, s) /\ Collected(mock.overloads, created, e, key)
    BY <1>2, <2>3
  <2> HIDE DEF e, s, key, at
  <2>6. /\ f.id = e.id /\ f.policies = e.policies /\ f.finalizer = e.finalizer
        /\ f.clauses = e.clauses
    BY <2>5 DEF Collected
  <2> HIDE DEF f
  <2>7. DOMAIN c = DOMAIN s /\ \A i \in DOMAIN s : c[i] = IF i = at THEN f ELSE s[i]
    OBVIOUS
  <2>8. BuiltOfClauses(mock.overloads, f, key)
    <3>1. BuiltOfClauses(mock.overloads, e, key)
      BY <2>3, <2>5 DEF e
    <3> QED BY <2>6, <3>1, Zenon DEF BuiltOfClauses
  <2> HIDE DEF c
  <2>9. \A i \in DOMAIN s : c[i].id = s[i].id
    BY <2>6, <2>7 DEF e
  <2>10. Good(key, c)
    BY <2>5, <2>7, <2>8, <2>9
  <2> HIDE DEF Good
  <2> QED BY <1>4, <2>3, <2>4, <2>10
<1>8. (\/ Evaluate \/ Decide \/ Finalize \/ GetTheReporter \/ Deliver \/ InstallReporter
       \/ UNCHANGED vars)
          => collections' = collections
  BY DEF Evaluate, Decide, Finalize, GetTheReporter, Deliver, InstallReporter, vars
<1>9. ASSUME NEW overload, NEW method, NEW args, Begin(overload, method, args)
      PROVE  BuiltInv'
  BY <1>3, <1>9 DEF Begin
<1>10. ASSUME NEW object, NEW passed, CallDirect(object, passed)
       PROVE  BuiltInv'
  BY <1>9, <1>10, Zenon DEF CallDirect
<1>11. ASSUME NEW i, NEW passed, CallMethod(i, passed)
       PROVE  BuiltInv'
  BY <1>9, <1>11, Zenon DEF CallMethod
<1> QED BY <1>3, <1>5, <1>6, <1>7, <1>8, <1>10, <1>11, Zenon DEF Next

\* Expectations stay what was stated, whatever is called or destroyed.
THEOREM BuiltHolds == Spec => []BuiltInv
<1>1. Init /\ FrameInv => BuiltInv
  <2> SUFFICES ASSUME Init PROVE BuiltInv
    OBVIOUS
  <2>1. collections = [d \in {Decay(s) : s \in ToSet(mock.overloads)} |-> <<>>]
    BY DEF Init
  <2> QED BY <2>1, SequenceStarts DEF BuiltInv
<1> QED BY <1>1, BuiltPreserved, FrameHolds, CallHolds, ServingHolds, PTL DEF Spec

-----------------------------------------------------------------------------
\* What evaluate_expectations sorts out.

Raises(e) == \E i \in DOMAIN e.policies : PolicyThrows(e.policies[i])

Refuses(e, info) == \E i \in DOMAIN e.policies : ~PolicyMatches(e.policies[i], info)

Fits(e, info) == ~Raises(e) /\ ~Refuses(e, info)

\* The candidates that have been seen are where they belong.  Those that match are in
\* the order in which they were seen, the newest first.
Sorted(r, candidates) ==
    /\ \A k \in DOMAIN r.matches :
          /\ Fits(candidates[r.matches[k]], r.info)
          /\ r.todo < r.matches[k] /\ r.matches[k] <= r.matches[1]
    /\ \A k \in DOMAIN r.inapplicable : Fits(candidates[r.inapplicable[k]], r.info)
    /\ \A k \in DOMAIN r.noMatches : \E at \in DOMAIN candidates :
          ~Raises(candidates[at]) /\ r.noMatches[k] = NoMatchReport(candidates[at], r.info)
    /\ \A at \in DOMAIN candidates : at > r.todo =>
          /\ ~Raises(candidates[at]) /\ Refuses(candidates[at], r.info) =>
                \E k \in DOMAIN r.noMatches :
                   r.noMatches[k] = NoMatchReport(candidates[at], r.info)
          /\ Fits(candidates[at], r.info) /\ IsApplicable(candidates[at]) =>
                \E k \in DOMAIN r.matches : r.matches[k] = at
          /\ Fits(candidates[at], r.info) /\ ~IsApplicable(candidates[at]) =>
                \E k \in DOMAIN r.inapplicable : r.inapplicable[k] = at

\* The next candidate is put down at most once.
PutsDown(r, next, e, at) ==
    \/ /\ Raises(e)
       /\ next.matches = r.matches /\ next.inapplicable = r.inapplicable
       /\ next.noMatches = r.noMatches
    \/ /\ ~Raises(e) /\ Refuses(e, r.info)
       /\ next.matches = r.matches /\ next.inapplicable = r.inapplicable
       /\ next.noMatches = Append(r.noMatches, NoMatchReport(e, r.info))
    \/ /\ Fits(e, r.info) /\ ~IsApplicable(e)
       /\ next.matches = r.matches /\ next.noMatches = r.noMatches
       /\ next.inapplicable = Append(r.inapplicable, at)
    \/ /\ Fits(e, r.info) /\ IsApplicable(e)
       /\ next.inapplicable = r.inapplicable /\ next.noMatches = r.noMatches
       /\ next.matches = Append(r.matches, at)

LEMMA SortedGoesOn ==
    ASSUME NEW r, NEW next, NEW candidates, DOMAIN candidates \in SUBSET Nat,
           IsSequence(r.matches), IsSequence(r.inapplicable), IsSequence(r.noMatches),
           \A k \in DOMAIN r.matches : r.matches[k] \in Nat,
           r.todo \in DOMAIN candidates, next.todo = r.todo - 1, next.info = r.info,
           PutsDown(r, next, candidates[r.todo], r.todo), Sorted(r, candidates)
    PROVE  Sorted(next, candidates)
<1> DEFINE at == r.todo
           e == candidates[at]
           info == r.info
           report == NoMatchReport(e, info)
<1>1. at \in Nat /\ next.todo < at /\ \A k \in Nat : k > next.todo => k = at \/ k > at
  OBVIOUS
<1>2. /\ \A k \in DOMAIN r.matches :
            /\ Fits(candidates[r.matches[k]], info)
            /\ at < r.matches[k] /\ r.matches[k] <= r.matches[1] /\ r.matches[k] \in Nat
      /\ \A k \in DOMAIN r.inapplicable : Fits(candidates[r.inapplicable[k]], info)
      /\ \A k \in DOMAIN r.noMatches : \E i \in DOMAIN candidates :
            ~Raises(candidates[i]) /\ r.noMatches[k] = NoMatchReport(candidates[i], info)
  BY Zenon DEF Sorted
<1>3. \A i \in DOMAIN candidates : i > at =>
          /\ ~Raises(candidates[i]) /\ Refuses(candidates[i], info) =>
                \E k \in DOMAIN r.noMatches : r.noMatches[k] = NoMatchReport(candidates[i], info)
          /\ Fits(candidates[i], info) /\ IsApplicable(candidates[i]) =>
                \E k \in DOMAIN r.matches : r.matches[k] = i
          /\ Fits(candidates[i], info) /\ ~IsApplicable(candidates[i]) =>
                \E k \in DOMAIN r.inapplicable : r.inapplicable[k] = i
  BY Zenon DEF Sorted
<1>4. \/ next.matches = r.matches
      \/ next.matches = Append(r.matches, at) /\ Fits(e, info)
  BY Zenon DEF PutsDown
<1>5. \/ next.inapplicable = r.inapplicable
      \/ next.inapplicable = Append(r.inapplicable, at) /\ Fits(e, info)
  BY Zenon DEF PutsDown
<1>6. \/ next.noMatches = r.noMatches
      \/ next.noMatches = Append(r.noMatches, report) /\ ~Raises(e)
  BY Zenon DEF PutsDown
<1>7. /\ ~Raises(e) /\ Refuses(e, info) => next.noMatches = Append(r.noMatches, report)
      /\ Fits(e, info) /\ IsApplicable(e) => next.matches = Append(r.matches, at)
      /\ Fits(e, info) /\ ~IsApplicable(e) => next.inapplicable = Append(r.inapplicable, at)
  BY Zenon DEF PutsDown, Fits
<1> HIDE DEF report
<1>8. /\ \A k \in DOMAIN next.matches :
            /\ Fits(candidates[next.matches[k]], info)
            /\ next.todo < next.matches[k] /\ next.matches[k] <= next.matches[1]
      /\ \A k \in DOMAIN r.matches :
            k \in DOMAIN next.matches /\ next.matches[k] = r.matches[k]
      /\ next.matches = Append(r.matches, at) =>
            \E k \in DOMAIN next.matches : next.matches[k] = at
  <2> DEFINE old == r.matches
             new == next.matches
  <2>1. CASE new = old
    <3>1. ASSUME old = Append(old, at) PROVE FALSE
      <4>1. IsSequence(old)
        OBVIOUS
      <4> HIDE DEF old, at
      <4>2. /\ \E i \in DOMAIN old : old[i] = at
            /\ \A i \in DOMAIN old : (i = Len(old) + 1 /\ old[i] = at) \/ i \in DOMAIN old
        BY <3>1, <4>1, AppendedTo DEF Grown
      <4>3. Len(old) \in Nat /\ DOMAIN old = 1 .. Len(old) /\ Len(Append(old, at)) = Len(old) + 1
        <5>1. old \in Seq(ToSet(old) \cup {at}) /\ at \in ToSet(old) \cup {at}
          <6>1. old \in Seq(ToSet(old)) /\ ToSet(old) \subseteq ToSet(old) \cup {at}
            BY <4>1, Lists
          <6> QED BY <6>1, SeqMonotonic, Zenon
        <5> QED BY <5>1
      <4> QED BY <3>1, <4>3
    <3> QED BY <1>1, <1>2, <2>1, <3>1
  <2>2. CASE new = Append(old, at) /\ Fits(e, info)
    <3>1. IsSequence(old)
      OBVIOUS
    <3>2. /\ \A k \in DOMAIN old : Fits(candidates[old[k]], info)
          /\ \A k \in DOMAIN old : at < old[k] /\ old[k] <= old[1] /\ old[k] \in Nat
      BY <1>2
    <3> HIDE DEF old, new, at
    <3>3. /\ \A k \in DOMAIN old : k \in DOMAIN new /\ new[k] = old[k]
          /\ \E k \in DOMAIN new : new[k] = at
          /\ \A k \in DOMAIN new :
                \/ k = Len(old) + 1 /\ new[k] = at
                \/ k \in DOMAIN old /\ new[k] = old[k]
      <4>1. new = Append(old, at)
        BY <2>2
      <4>2. Grown(new, old, at)
        BY <3>1, <4>1, AppendedTo
      <4> QED BY <4>2 DEF Grown
    <3>4. Len(old) \in Nat /\ DOMAIN old = 1 .. Len(old)
      BY <3>1 DEF IsSequence
    <3>5. new[1] = IF Len(old) = 0 THEN at ELSE old[1]
      <4>1. CASE Len(old) = 0
        <5>1. DOMAIN old = {}
          BY <3>4, <4>1
        <5> QED BY <3>3, <4>1, <5>1
      <4>2. CASE Len(old) # 0
        <5>1. 1 \in DOMAIN old
          BY <3>4, <4>2
        <5> QED BY <3>3, <4>2, <5>1
      <4> QED BY <4>1, <4>2
    <3>6. \A k \in DOMAIN new : new[k] <= new[1]
      <4> SUFFICES ASSUME NEW k \in DOMAIN new PROVE new[k] <= new[1]
        OBVIOUS
      <4>1. CASE Len(old) = 0
        <5>1. DOMAIN old = {}
          BY <3>4, <4>1
        <5> QED BY <1>1, <3>3, <3>5, <4>1, <5>1
      <4>2. CASE Len(old) # 0
        <5>1. 1 \in DOMAIN old
          BY <3>4, <4>2
        <5> QED BY <1>1, <3>2, <3>3, <3>5, <4>2, <5>1
      <4> QED BY <4>1, <4>2
    <3>7. \A k \in DOMAIN new : next.todo < new[k]
      BY <1>1, <3>2, <3>3
    <3>8. \A k \in DOMAIN new : Fits(candidates[new[k]], info)
      <4> HIDE DEF info
      <4> QED BY <2>2, <3>2, <3>3
    <3> QED BY <3>3, <3>6, <3>7, <3>8 DEF new, old
  <2> QED BY <1>4, <2>1, <2>2
<1>9. /\ \A k \in DOMAIN next.inapplicable : Fits(candidates[next.inapplicable[k]], info)
      /\ \A k \in DOMAIN r.inapplicable :
            k \in DOMAIN next.inapplicable /\ next.inapplicable[k] = r.inapplicable[k]
      /\ next.inapplicable = Append(r.inapplicable, at) =>
            \E k \in DOMAIN next.inapplicable : next.inapplicable[k] = at
  <2> DEFINE old == r.inapplicable
             new == next.inapplicable
  <2>1. IsSequence(old) /\ (\A k \in DOMAIN old : Fits(candidates[old[k]], info))
    BY <1>2
  <2>2. new = old \/ (new = Append(old, at) /\ Fits(e, info))
    BY <1>5
  <2> HIDE DEF old, new, at, info
  <2>3. new = Append(old, at) =>
            /\ \A k \in DOMAIN old : k \in DOMAIN new /\ new[k] = old[k]
            /\ \E k \in DOMAIN new : new[k] = at
            /\ \A k \in DOMAIN new : new[k] = at \/ (k \in DOMAIN old /\ new[k] = old[k])
    <3>1. new = Append(old, at) => Grown(new, old, at)
      BY <2>1, AppendedTo
    <3> QED BY <3>1 DEF Grown
  <2>4. /\ \A k \in DOMAIN new : Fits(candidates[new[k]], info)
        /\ \A k \in DOMAIN old : k \in DOMAIN new /\ new[k] = old[k]
        /\ new = Append(old, at) => \E k \in DOMAIN new : new[k] = at
    BY <2>1, <2>2, <2>3
  <2> QED BY <2>4 DEF new, old
<1>10. /\ \A k \in DOMAIN next.noMatches : \E i \in DOMAIN candidates :
             ~Raises(candidates[i]) /\ next.noMatches[k] = NoMatchReport(candidates[i], info)
       /\ \A k \in DOMAIN r.noMatches :
             k \in DOMAIN next.noMatches /\ next.noMatches[k] = r.noMatches[k]
       /\ next.noMatches = Append(r.noMatches, report) =>
             \E k \in DOMAIN next.noMatches : next.noMatches[k] = report
  <2> DEFINE old == r.noMatches
             new == next.noMatches
             Is(x, i) == ~Raises(candidates[i]) /\ x = NoMatchReport(candidates[i], info)
  <2>1. IsSequence(old) /\ (\A k \in DOMAIN old : \E i \in DOMAIN candidates : Is(old[k], i))
    BY <1>2
  <2>2. new = old \/ (new = Append(old, report) /\ Is(report, at))
    BY <1>6 DEF report
  <2>3. at \in DOMAIN candidates
    OBVIOUS
  <2> HIDE DEF old, new, at, info, Is
  <2>4. new = Append(old, report) =>
            /\ \A k \in DOMAIN old : k \in DOMAIN new /\ new[k] = old[k]
            /\ \E k \in DOMAIN new : new[k] = report
            /\ \A k \in DOMAIN new : new[k] = report \/ (k \in DOMAIN old /\ new[k] = old[k])
    <3>1. new = Append(old, report) => Grown(new, old, report)
      BY <2>1, AppendedTo
    <3> QED BY <3>1 DEF Grown
  <2>5. /\ \A k \in DOMAIN new : \E i \in DOMAIN candidates : Is(new[k], i)
        /\ \A k \in DOMAIN old : k \in DOMAIN new /\ new[k] = old[k]
        /\ new = Append(old, report) => \E k \in DOMAIN new : new[k] = report
    BY <2>1, <2>2, <2>3, <2>4
  <2> QED BY <2>5 DEF new, old, Is
<1>11. ASSUME NEW i \in DOMAIN candidates, i > next.todo
       PROVE  /\ ~Raises(candidates[i]) /\ Refuses(candidates[i], info) =>
                    \E k \in DOMAIN next.noMatches :
                       next.noMatches[k] = NoMatchReport(candidates[i], info)
              /\ Fits(candidates[i], info) /\ IsApplicable(candidates[i]) =>
                    \E k \in DOMAIN next.matches : next.matches[k] = i
              /\ Fits(candidates[i], info) /\ ~IsApplicable(candidates[i]) =>
                    \E k \in DOMAIN next.inapplicable : next.inapplicable[k] = i
  <2>1. CASE i = at
    BY <1>7, <1>8, <1>9, <1>10, <2>1 DEF report
  <2>2. CASE i > at
    <3> HIDE DEF at, info
    <3> QED BY <1>3, <1>8, <1>9, <1>10, <2>2
  <2> QED BY <1>1, <1>11, <2>1, <2>2
<1>12. next.info = info
  OBVIOUS
<1> HIDE DEF at, e, info
<1> QED BY <1>8, <1>9, <1>10, <1>11, <1>12 DEF Sorted

LEMMA SortedKept ==
    ASSUME NEW r, NEW next, NEW candidates, Sorted(r, candidates),
           next.info = r.info, next.todo = r.todo, next.matches = r.matches,
           next.inapplicable = r.inapplicable, next.noMatches = r.noMatches
    PROVE  Sorted(next, candidates)
<1> DEFINE matches == r.matches
           late == r.inapplicable
           none == r.noMatches
           todo == r.todo
           info == r.info
<1>1. /\ next.info = info /\ next.todo = todo /\ next.matches = matches
      /\ next.inapplicable = late /\ next.noMatches = none
      /\ r.info = info /\ r.todo = todo /\ r.matches = matches
      /\ r.inapplicable = late /\ r.noMatches = none
  OBVIOUS
<1> HIDE DEF matches, late, none, todo, info
<1> QED BY <1>1 DEF Sorted

\* evaluate_expectations puts down what it finds of the next candidate.
LEMMA EvaluateSorts ==
    ASSUME FrameInv, CallInv, ServingInv, Evaluate
    PROVE  /\ PutsDown(running, running', Candidates[running.todo], running.todo)
           /\ running'.phase = "get" =>
                 /\ running'.report.is = "unhandled_exception"
                 /\ running'.report.call.args = running.info.args
<1> DEFINE at == running.todo
           e == Candidates[at]
           info == running.info
           outcomes == RequirementOutcomes(e, info)
           next == [running EXCEPT !.todo = at - 1]
           failure == NoMatchReport(e, info)
           frames == <<"determine_requirement_outcomes", "evaluate_expectations", "handle_call">>
           call == MakeCallReport(frames, 3)
           report == [is |-> "unhandled_exception", call |-> call,
                      expectation |-> ExpectationReport(e)]
<1>1. running' = IF Raises(e) THEN [next EXCEPT !.phase = "get", !.report = report]
                 ELSE IF \E i \in DOMAIN outcomes : ~outcomes[i]
                 THEN [next EXCEPT !.noMatches = Append(next.noMatches, failure)]
                 ELSE IF ~IsApplicable(e)
                 THEN [next EXCEPT !.inapplicable = Append(next.inapplicable, at)]
                 ELSE [next EXCEPT !.matches = Append(next.matches, at)]
  BY Zenon DEF Evaluate, Exp, Candidates, Raises
<1>2. (\E i \in DOMAIN outcomes : ~outcomes[i]) <=> Refuses(e, info)
  <2>1. outcomes = [i \in DOMAIN e.policies |-> PolicyMatches(e.policies[i], info)]
    BY DEF RequirementOutcomes
  <2>2. DOMAIN outcomes = DOMAIN e.policies
    BY <2>1
  <2>3. \A i \in DOMAIN e.policies : outcomes[i] = PolicyMatches(e.policies[i], info)
    BY <2>1, Zenon
  <2> HIDE DEF outcomes, e
  <2> QED BY <2>2, <2>3 DEF Refuses
<1>3. /\ DOMAIN next = Locals /\ next.phase = "evaluate"
      /\ next.noMatches = running.noMatches /\ next.inapplicable = running.inapplicable
      /\ next.matches = running.matches
  BY DEF Evaluate, FrameInv, Locals
<1>4. report.is = "unhandled_exception" /\ report.call.args = info.args
  <2>1. call.args = info.args
    BY DEF MakeCallReport, CallReport
  <2> HIDE DEF call
  <2> QED BY <2>1
<1> HIDE DEF next, report, failure, outcomes, e, at, info
<1>5. CASE Raises(e)
  <2>1. /\ running'.noMatches = running.noMatches
        /\ running'.inapplicable = running.inapplicable
        /\ running'.matches = running.matches
        /\ running'.report = report
    BY <1>1, <1>3, <1>5 DEF Locals
  <2> QED BY <1>4, <1>5, <2>1 DEF PutsDown, at, e, info
<1>6. CASE ~Raises(e) /\ Refuses(e, info)
  <2>1. /\ running'.noMatches = Append(running.noMatches, failure)
        /\ running'.inapplicable = running.inapplicable
        /\ running'.matches = running.matches
        /\ running'.phase # "get"
    BY <1>1, <1>2, <1>3, <1>6 DEF Locals
  <2> QED BY <1>6, <2>1 DEF PutsDown, at, e, info, failure
<1>7. CASE ~Raises(e) /\ ~Refuses(e, info) /\ ~IsApplicable(e)
  <2>1. /\ running'.noMatches = running.noMatches
        /\ running'.inapplicable = Append(running.inapplicable, at)
        /\ running'.matches = running.matches
        /\ running'.phase # "get"
    BY <1>1, <1>2, <1>3, <1>7 DEF Locals
  <2> QED BY <1>7, <2>1 DEF PutsDown, Fits, at, e, info
<1>8. CASE ~Raises(e) /\ ~Refuses(e, info) /\ IsApplicable(e)
  <2>1. /\ running'.noMatches = running.noMatches
        /\ running'.inapplicable = running.inapplicable
        /\ running'.matches = Append(running.matches, at)
        /\ running'.phase # "get"
    BY <1>1, <1>2, <1>3, <1>8 DEF Locals
  <2> QED BY <1>8, <2>1 DEF PutsDown, Fits, at, e, info
<1> QED BY <1>5, <1>6, <1>7, <1>8

\* What is reported is what was sorted out.
Reported(r, candidates) ==
    /\ r.report.call.args = r.given
    /\ r.report.is = "full_match" =>
          r.report.expectation = ExpectationReport(candidates[r.chosen])
    /\ r.report.is = "inapplicable" =>
          /\ r.todo = 0 /\ r.matches = <<>> /\ r.inapplicable # <<>>
          /\ r.report.expectations =
                [k \in DOMAIN r.inapplicable |->
                    ExpectationReport(candidates[r.inapplicable[k]])]
    /\ r.report.is = "no_matches" =>
          /\ r.todo = 0 /\ r.matches = <<>> /\ r.inapplicable = <<>>
          /\ r.report.expectations = r.noMatches

\* A call until it is consumed: nothing has acted on its arguments, and what will be
\* used is the first that was found to match.
Judged(r, candidates) ==
    /\ IsSequence(r.given) /\ r.info.args = r.given
    /\ Sorted(r, candidates)
    /\ WillConsume(r) => r.todo = 0 /\ r.matches # <<>> /\ r.chosen = r.matches[1]
    /\ r.phase \in {"get", "deliver"} => Reported(r, candidates)

\* A call from then on.
Effected(r, candidates) ==
    /\ r.chosen \in DOMAIN candidates
    /\ r.info.args = FoldOf("policies", r.given, candidates[r.chosen].policies)
    /\ r.phase = "returned" =>
          r.value = FinalizeCall(candidates[r.chosen].finalizer, r.info)

OutcomeInv ==
    running.overload # <<>> =>
        /\ running.phase \in {"evaluate", "get", "deliver", "consume"} =>
              Judged(running, Candidates)
        /\ running.phase \in {"finalize", "returned"} => Effected(running, Candidates)

\* Decide reports what was sorted out, or uses it.
LEMMA DecideSettles ==
    ASSUME FrameInv, CallInv, ServingInv, Decide, Judged(running, Candidates)
    PROVE  Judged(running', Candidates)
<1> DEFINE best == Head(running.matches)
           call == MakeCallReport(<<"handle_call">>, 1)
           full == [is |-> "full_match", call |-> call,
                    expectation |-> ExpectationReport(Exp(best))]
           exps == [k \in DOMAIN running.inapplicable |->
                       ExpectationReport(Exp(running.inapplicable[k]))]
           late == [is |-> "inapplicable", call |-> call, expectations |-> exps]
           none == [is |-> "no_matches", call |-> call, expectations |-> running.noMatches]
<1>1. running' =
          IF running.matches # <<>>
          THEN IF program.reportSuccess
               THEN [running EXCEPT !.phase = "get", !.chosen = best, !.report = full]
               ELSE [running EXCEPT !.phase = "consume", !.chosen = best]
          ELSE IF running.inapplicable # <<>>
          THEN [running EXCEPT !.phase = "get", !.report = late]
          ELSE [running EXCEPT !.phase = "get", !.report = none]
  BY Zenon DEF Decide
<1>2. DOMAIN running = Locals /\ running.todo = 0
  BY DEF FrameInv, Decide
<1>3. /\ running'.info = running.info /\ running'.given = running.given
      /\ running'.todo = running.todo /\ running'.matches = running.matches
      /\ running'.inapplicable = running.inapplicable
      /\ running'.noMatches = running.noMatches
      /\ running.phase = "evaluate" /\ running'.phase \in {"consume", "get"}
  BY DecideSteps DEF SameCall
<1>4. IsSequence(running.given) /\ running.info.args = running.given
      /\ Sorted(running, Candidates)
  BY DEF Judged
<1>5. Sorted(running', Candidates)
  BY <1>3, <1>4, SortedKept
<1>6. running.matches # <<>> => best = running.matches[1]
  <2>1. IsSequence(running.matches)
    <3>1. running.overload # <<>>
      BY <1>3 DEF CallInv
    <3> QED BY <1>3, <3>1 DEF ServingInv, HandlerInv, IsRunning, Handles
  <2> QED BY <2>1, FirstElement
<1>7. call.args = running.given
  BY <1>4 DEF MakeCallReport, CallReport
<1> HIDE DEF call
<1>8. /\ full.is = "full_match" /\ full.call.args = running.given
      /\ full.expectation = ExpectationReport(Candidates[best])
  BY <1>7 DEF Exp, Candidates
<1>9. /\ late.is = "inapplicable" /\ late.call.args = running.given
      /\ late.expectations = [k \in DOMAIN running.inapplicable |->
                                 ExpectationReport(Candidates[running.inapplicable[k]])]
  BY <1>7 DEF Exp, Candidates
<1>10. /\ none.is = "no_matches" /\ none.call.args = running.given
       /\ none.expectations = running.noMatches
  BY <1>7
<1> HIDE DEF full, late, none, best
<1>11. CASE running.matches # <<>>
  <2>1. running'.chosen = best /\ (running'.phase = "get" => running'.report = full)
    BY <1>1, <1>2, <1>11 DEF Locals
  <2>2. running'.phase = "get" => Reported(running', Candidates)
    BY <1>3, <1>8, <2>1 DEF Reported
  <2> QED BY <1>2, <1>3, <1>4, <1>5, <1>6, <1>11, <2>1, <2>2 DEF Judged
<1>12. CASE running.matches = <<>> /\ running.inapplicable # <<>>
  <2>1. running'.phase = "get" /\ running'.report = late
    BY <1>1, <1>2, <1>12 DEF Locals
  <2>2. Reported(running', Candidates)
    <3>1. late.is # "full_match" /\ late.is # "no_matches"
      BY <1>9
    <3> QED BY <1>2, <1>3, <1>9, <1>12, <2>1, <3>1, Zenon DEF Reported
  <2>3. ~WillConsume(running')
    BY <1>9, <2>1 DEF WillConsume
  <2> QED BY <1>3, <1>4, <1>5, <2>2, <2>3, Zenon DEF Judged
<1>13. CASE running.matches = <<>> /\ running.inapplicable = <<>>
  <2>1. running'.phase = "get" /\ running'.report = none
    BY <1>1, <1>2, <1>13 DEF Locals
  <2>2. Reported(running', Candidates)
    <3>1. none.is # "full_match" /\ none.is # "inapplicable"
      BY <1>10
    <3> QED BY <1>2, <1>3, <1>10, <1>13, <2>1, <3>1, Zenon DEF Reported
  <2>3. ~WillConsume(running')
    BY <1>10, <2>1 DEF WillConsume
  <2> QED BY <1>3, <1>4, <1>5, <2>2, <2>3, Zenon DEF Judged
<1> QED BY <1>11, <1>12, <1>13

\* A call waits for the reporter as it is.
LEMMA JudgedKept ==
    ASSUME NEW r, NEW next, NEW candidates, Judged(r, candidates),
           next.info = r.info, next.given = r.given, next.todo = r.todo,
           next.matches = r.matches, next.inapplicable = r.inapplicable,
           next.noMatches = r.noMatches, next.chosen = r.chosen, next.report = r.report,
           WillConsume(next) => WillConsume(r),
           next.phase \in {"get", "deliver"} => r.phase \in {"get", "deliver"}
    PROVE  Judged(next, candidates)
<1>1. Sorted(next, candidates)
  BY SortedKept DEF Judged
<1>2. r.phase \in {"get", "deliver"} => Reported(next, candidates)
  <2>1. r.phase \in {"get", "deliver"} => Reported(r, candidates)
    BY DEF Judged
  <2> DEFINE report == r.report
             late == r.inapplicable
  <2>2. /\ next.report = report /\ r.report = report
        /\ next.inapplicable = late /\ r.inapplicable = late
    OBVIOUS
  <2> HIDE DEF report, late
  <2> QED BY <2>1, <2>2 DEF Reported
<1> QED BY <1>1, <1>2 DEF Judged

\* The arguments are what the policies make of them, in their order, and the value is
\* that of the finalizer.
LEMMA ConsumeEffects ==
    ASSUME FrameInv, CallInv, ServingInv, Consume, Judged(running, Candidates),
           running'.phase = "finalize"
    PROVE  Effected(running', Candidates')
<1> DEFINE key == running.key
           at == running.chosen
           s == collections[key]
           e == s[at]
           f == [e EXCEPT !.count = e.count + 1]
           args == FoldLeft(ConsumePolicy, running.info.args, e.policies)
<1>1. /\ collections' = [collections EXCEPT ![key][at].count = e.count + 1]
      /\ running' = IF \E i \in DOMAIN e.policies : ConsumeThrows(e.policies[i])
                    THEN [running EXCEPT !.phase = "terminated"]
                    ELSE [running EXCEPT !.phase = "finalize", !.info.args = args]
      /\ running.phase = "consume"
  BY Zenon DEF Consume, Exp
<1>2. DOMAIN running = Locals
  BY DEF FrameInv
<1>3. /\ running.overload # <<>> /\ DOMAIN running.info = InfoFields
      /\ key \in {Decay(o) : o \in ToSet(mock.overloads)}
  BY <1>1 DEF CallInv
<1>4. key \in DOMAIN collections /\ at \in DOMAIN s /\ Candidates = s
      /\ Collected(mock.overloads, created, e, key)
  <2>1. key \in DOMAIN collections
    BY <1>3 DEF ServingInv, CollectionsInv
  <2>2. at \in DOMAIN s /\ Candidates = s
    BY <1>1, <1>3 DEF ServingInv, HandlerInv, IsRunning, WillConsume, Handles, Candidates
  <2>3. \A k \in DOMAIN s : Collected(mock.overloads, created, s[k], key)
    <3> HIDE DEF key
    <3> QED BY <2>1 DEF ServingInv, CollectionsInv
  <2> QED BY <2>1, <2>2, <2>3
<1>5. args = FoldOf("policies", running.given, e.policies)
  BY DEF FoldOf, Judged
<1> HIDE DEF args
<1>6. /\ running'.chosen = at /\ running'.key = key /\ running'.given = running.given
      /\ running'.info.args = args
  <2>1. running' = [running EXCEPT !.phase = "finalize", !.info.args = args]
    <3>1. ASSUME running' = [running EXCEPT !.phase = "terminated"] PROVE FALSE
      BY <1>2, <3>1 DEF Locals
    <3> QED BY <1>1, <3>1
  <2>2. running'.info = [running.info EXCEPT !.args = args]
    BY <1>2, <2>1 DEF Locals
  <2> QED BY <1>2, <1>3, <2>1, <2>2 DEF Locals, InfoFields
<1>7. collections' = [collections EXCEPT ![key] = [s EXCEPT ![at] = f]]
  BY <1>1
<1>8. f.policies = e.policies
  <2>1. DOMAIN e = {"id", "target", "policies", "finalizer", "min", "max", "count", "clauses"}
    BY <1>4 DEF Collected
  <2> HIDE DEF e
  <2> QED BY <2>1
<1> HIDE DEF f
<1>9. Candidates' = [s EXCEPT ![at] = f]
  <2> HIDE DEF key, at, s
  <2>1. collections'[key] = [s EXCEPT ![at] = f]
    BY <1>4, <1>7
  <2> QED BY <1>6, <2>1, Zenon DEF Candidates
<1>10. at \in DOMAIN Candidates' /\ Candidates'[at] = f
  <2> HIDE DEF at, s
  <2> QED BY <1>4, <1>9
<1> HIDE DEF at, key, s, e
<1>11. running'.phase # "returned"
  OBVIOUS
<1> QED BY <1>5, <1>6, <1>8, <1>10, <1>11, Zenon DEF Effected

\* What a call has found and done, action by action.
LEMMA OutcomePreserved ==
    FrameInv /\ CallInv /\ ServingInv /\ JudgedInv /\ OutcomeInv /\ [Next]_vars => OutcomeInv'
<1> SUFFICES ASSUME FrameInv, CallInv, ServingInv, JudgedInv, OutcomeInv, [Next]_vars
             PROVE  OutcomeInv'
  OBVIOUS
<1>1. ASSUME running'.overload = <<>> PROVE OutcomeInv'
  BY <1>1 DEF OutcomeInv
<1>2. ASSUME running'.phase \in {"evaluate", "get", "deliver", "consume"},
             Judged(running', Candidates')
      PROVE  OutcomeInv'
  BY <1>2 DEF OutcomeInv
<1>3. ASSUME running'.phase \in {"idle", "threw", "terminated"} PROVE OutcomeInv'
  BY <1>3 DEF OutcomeInv
<1>4. running.overload # <<>> /\ running.phase \in {"evaluate", "get", "deliver", "consume"}
          => Judged(running, Candidates)
  BY DEF OutcomeInv
<1>5. ASSUME NEW object, NEW stated, Expect(object, stated)
      PROVE  OutcomeInv'
  <2>1. running' = Idle
    BY <1>5 DEF Expect
  <2> QED BY <1>3, <2>1, IdleLocals
<1>6. ASSUME NEW key, NEW at, Destroy(key, at)
      PROVE  OutcomeInv'
  <2>1. \E report : running' \in {Idle, [Idle EXCEPT !.phase = "get", !.report = report]}
    BY <1>6, Zenon DEF Destroy
  <2>2. running'.overload = <<>>
    BY <2>1, IdleLocals DEF Locals
  <2> QED BY <1>1, <2>2
<1>7. ASSUME NEW overload \in ToSet(mock.overloads), NEW method, NEW passed \in program.calls,
             Begin(overload, method, passed.args)
      PROVE  OutcomeInv'
  <2>1. IsOverload(overload)
    BY MockDeclared
  <2>2. /\ running'.phase = "evaluate" /\ running'.matches = <<>>
        /\ running'.inapplicable = <<>> /\ running'.noMatches = <<>>
        /\ running'.given = ForThis("self", passed.args)
        /\ running'.info.args = running'.given
        /\ running'.todo = Len(collections[Decay(overload)])
        /\ running'.key = Decay(overload)
    BY <1>7, <2>1, BeginSteps
  <2>3. IsSequence(running'.given)
    <3>1. IsSequence(passed.args)
      BY ProgramAssumed
    <3> QED BY <2>2, <3>1, Prepended, Zenon DEF ForThis
  <2>4. Sorted(running', Candidates')
    <3>1. collections' = collections
      BY <1>7 DEF Begin
    <3>2. Candidates' = collections[Decay(overload)]
      BY <2>2, <3>1 DEF Candidates
    <3>3. IsSequence(collections[Decay(overload)])
      BY DEF ServingInv, CollectionsInv
    <3>4. /\ Len(Candidates') \in Nat /\ DOMAIN Candidates' = 1 .. Len(Candidates')
          /\ running'.todo = Len(Candidates')
      BY <2>2, <3>2, <3>3 DEF IsSequence
    <3>5. \A at \in DOMAIN Candidates' : ~(at > running'.todo)
      BY <3>4
    <3> QED BY <2>2, <3>5, SequenceStarts, Zenon DEF Sorted
  <2>5. ~WillConsume(running')
    BY <2>2 DEF WillConsume
  <2>6. Judged(running', Candidates')
    BY <2>2, <2>3, <2>4, <2>5 DEF Judged
  <2> QED BY <1>2, <2>2, <2>6
<1>8. ASSUME Evaluate
      PROVE  OutcomeInv'
  <2>1. /\ running.overload # <<>> /\ Handles(running, Candidates)
        /\ running.todo \in DOMAIN Candidates /\ running.key \in DOMAIN collections
    BY <1>8, EvaluateFinds
  <2>2. /\ running.phase = "evaluate" /\ running'.phase \in {"evaluate", "get"}
        /\ running'.info = running.info /\ running'.given = running.given
        /\ running'.todo = running.todo - 1
    BY <1>8, EvaluateSteps DEF SameCall
  <2>3. Candidates' = Candidates
    <3>1. collections' = collections
      BY <1>8 DEF Evaluate
    <3> QED BY <1>8, <3>1, EvaluateSteps DEF SameCall, Candidates
  <2>4. /\ PutsDown(running, running', Candidates[running.todo], running.todo)
        /\ running'.phase = "get" =>
              /\ running'.report.is = "unhandled_exception"
              /\ running'.report.call.args = running.info.args
    BY <1>8, EvaluateSorts
  <2>5. /\ IsSequence(running.given) /\ running.info.args = running.given
        /\ Sorted(running, Candidates)
    BY <1>4, <2>1, <2>2 DEF Judged
  <2>6. /\ DOMAIN Candidates \in SUBSET Nat
        /\ \A k \in DOMAIN running.matches : running.matches[k] \in Nat
    <3>1. IsSequence(Candidates)
      BY <2>1 DEF ServingInv, CollectionsInv, Candidates
    <3>2. DOMAIN Candidates \in SUBSET Nat
      BY <3>1 DEF IsSequence
    <3> QED BY <2>1, <3>2 DEF Handles
  <2>7. /\ IsSequence(running.matches) /\ IsSequence(running.inapplicable)
        /\ IsSequence(running.noMatches)
    BY <2>1, <2>2 DEF Handles, JudgedInv
  <2>8. Sorted(running', Candidates)
    BY <2>1, <2>2, <2>4, <2>5, <2>6, <2>7, SortedGoesOn
  <2>9. ~WillConsume(running')
    BY <2>2, <2>4 DEF WillConsume
  <2>10. running'.phase \in {"get", "deliver"} => Reported(running', Candidates)
    BY <2>2, <2>4, <2>5 DEF Reported
  <2>11. Judged(running', Candidates)
    BY <2>2, <2>5, <2>8, <2>9, <2>10, Zenon DEF Judged
  <2> QED BY <1>2, <2>2, <2>3, <2>11
<1>9. ASSUME Decide
      PROVE  OutcomeInv'
  <2>1. /\ SameCall /\ running.phase = "evaluate" /\ running'.phase \in {"consume", "get"}
    BY <1>9, DecideSteps
  <2>2. running.overload # <<>> /\ Candidates' = Candidates
    BY <1>9, <2>1 DEF CallInv, SameCall, Candidates, Decide
  <2>3. Judged(running', Candidates)
    BY <1>4, <1>9, <2>1, <2>2, DecideSettles
  <2> QED BY <1>2, <2>1, <2>2, <2>3
<1>10. ASSUME Consume
       PROVE  OutcomeInv'
  <2>1. running.phase = "consume" /\ running'.phase \in {"terminated", "finalize"}
    BY <1>10, ConsumeSteps
  <2>2. running.overload # <<>>
    BY <2>1 DEF CallInv
  <2>3. running'.phase = "finalize" => Effected(running', Candidates')
    BY <1>4, <1>10, <2>1, <2>2, ConsumeEffects
  <2> QED BY <1>3, <2>1, <2>3 DEF OutcomeInv
<1>11. ASSUME Finalize
       PROVE  OutcomeInv'
  <2> DEFINE finalizer == Exp(running.chosen).finalizer
             value == FinalizeCall(finalizer, running.info)
  <2>1. /\ running.phase = "finalize" /\ collections' = collections
        /\ running' = IF finalizer.is = "throws" THEN [running EXCEPT !.phase = Escaped]
                      ELSE [running EXCEPT !.phase = "returned", !.value = value]
    BY <1>11, Zenon DEF Finalize
  <2>2. DOMAIN running = Locals /\ running.overload # <<>>
    BY <2>1 DEF FrameInv, CallInv
  <2>3. /\ running.chosen \in DOMAIN Candidates
        /\ running.info.args =
              FoldOf("policies", running.given, Candidates[running.chosen].policies)
    BY <2>1, <2>2 DEF OutcomeInv, Effected
  <2>4. value = FinalizeCall(Candidates[running.chosen].finalizer, running.info)
    BY Zenon DEF Exp, Candidates
  <2> HIDE DEF value, finalizer
  <2>5. CASE running' = [running EXCEPT !.phase = Escaped]
    <3>1. Escaped \in {"terminated", "threw"}
      BY DEF Escaped
    <3> HIDE DEF Escaped
    <3>2. running'.phase = Escaped
      BY <2>2, <2>5 DEF Locals
    <3> QED BY <1>3, <3>1, <3>2
  <2>6. CASE running' = [running EXCEPT !.phase = "returned", !.value = value]
    <3>1. /\ running'.phase = "returned" /\ running'.value = value
          /\ running'.chosen = running.chosen /\ running'.info = running.info
          /\ running'.given = running.given /\ running'.key = running.key
      BY <2>2, <2>6 DEF Locals
    <3>2. Candidates' = Candidates
      BY <2>1, <3>1 DEF Candidates
    <3>3. Effected(running', Candidates')
      BY <2>3, <2>4, <3>1, <3>2 DEF Effected
    <3> QED BY <3>1, <3>3 DEF OutcomeInv
  <2> QED BY <2>1, <2>5, <2>6
<1>12. ASSUME GetTheReporter
       PROVE  OutcomeInv'
  <2>1. /\ running.phase = "get" /\ running'.phase = "deliver"
        /\ running'.info = running.info /\ running'.given = running.given
        /\ running'.todo = running.todo /\ running'.matches = running.matches
        /\ running'.inapplicable = running.inapplicable
        /\ running'.noMatches = running.noMatches /\ running'.chosen = running.chosen
        /\ running'.report = running.report /\ running'.overload = running.overload
        /\ running'.key = running.key /\ collections' = collections
    BY <1>12 DEF GetTheReporter, FrameInv, Locals
  <2>2. WillConsume(running') => WillConsume(running)
    BY <2>1 DEF WillConsume
  <2>3. Candidates' = Candidates
    BY <2>1 DEF Candidates
  <2>4. CASE running.overload # <<>>
    <3>1. Judged(running, Candidates)
      BY <1>4, <2>1, <2>4
    <3>2. Judged(running', Candidates)
      BY <2>1, <2>2, <3>1, JudgedKept
    <3> QED BY <1>2, <2>1, <2>3, <3>2
  <2> QED BY <1>1, <2>1, <2>4
<1>13. ASSUME Deliver
       PROVE  OutcomeInv'
  <2>1. /\ running.phase = "deliver"
        /\ running'.phase \in {"evaluate", "consume", "terminated", "threw"}
        /\ running'.phase = "consume" => running.report.is = "full_match"
    BY <1>13, DeliverSteps
  <2>2. /\ running'.info = running.info /\ running'.given = running.given
        /\ running'.todo = running.todo /\ running'.matches = running.matches
        /\ running'.inapplicable = running.inapplicable
        /\ running'.noMatches = running.noMatches /\ running'.chosen = running.chosen
        /\ running'.report = running.report /\ running'.overload = running.overload
        /\ running'.key = running.key /\ collections' = collections
    <3>1. \E phase : running' = [running EXCEPT !.use = NoUse, !.phase = phase]
      BY <1>13, Zenon DEF Deliver
    <3>2. collections' = collections
      BY <1>13 DEF Deliver
    <3> QED BY <3>1, <3>2 DEF FrameInv, Locals
  <2>3. WillConsume(running') => WillConsume(running)
    BY <2>1, <2>2 DEF WillConsume
  <2>4. Candidates' = Candidates
    BY <2>2 DEF Candidates
  <2>5. CASE running.overload # <<>> /\ running'.phase \in {"evaluate", "consume"}
    <3>1. Judged(running, Candidates)
      BY <1>4, <2>1, <2>5
    <3>2. Judged(running', Candidates)
      BY <2>1, <2>2, <2>3, <3>1, JudgedKept
    <3> QED BY <1>2, <2>4, <2>5, <3>2
  <2> QED BY <1>1, <1>3, <2>1, <2>2, <2>5
<1>14. ASSUME InstallReporter \/ UNCHANGED vars
       PROVE  OutcomeInv'
  <2>1. running' = running /\ Candidates' = Candidates
    BY <1>14 DEF InstallReporter, vars, Candidates
  <2> QED BY <2>1 DEF OutcomeInv
<1>15. ASSUME NEW object, NEW passed \in program.calls, CallDirect(object, passed)
       PROVE  OutcomeInv'
  <2>1. \E overload \in Resolve(mock.overloads, object, passed.types) :
              Begin(overload, 0, passed.args)
    BY <1>15, Zenon DEF CallDirect
  <2>2. Resolve(mock.overloads, object, passed.types) \subseteq ToSet(mock.overloads)
    BY Zenon DEF Resolve
  <2> QED BY <1>7, <2>1, <2>2
<1>16. ASSUME NEW i \in DOMAIN program.methods, NEW passed \in program.calls,
              CallMethod(i, passed)
       PROVE  OutcomeInv'
  <2>1. /\ program.style # "direct"
        /\ \E overload \in mock.forwarded[i] : Begin(overload, i, passed.args)
    BY <1>16, Zenon DEF CallMethod
  <2>2. mock.forwarded[i] = Forwarded(program, mock.overloads, i)
    BY <2>1, ForwardedTo, MockDeclared
  <2>3. Forwarded(program, mock.overloads, i) \subseteq ToSet(mock.overloads)
    BY Zenon DEF Forwarded, Resolve
  <2> QED BY <1>7, <2>1, <2>2, <2>3
<1> QED BY <1>5, <1>6, <1>8, <1>9, <1>10, <1>11, <1>12, <1>13, <1>14, <1>15, <1>16,
           Zenon DEF Next

\* Whatever is called and destroyed.
THEOREM OutcomeHolds == Spec => []OutcomeInv
<1>1. Init => OutcomeInv
  <2>1. Init => running = Idle
    BY DEF Init
  <2> QED BY <2>1, IdleLocals DEF OutcomeInv
<1>2. AssertedInv => JudgedInv
  BY DEF AssertedInv
<1> QED BY <1>1, <1>2, OutcomePreserved, AssertedHolds, FrameHolds, CallHolds, ServingHolds,
           PTL DEF Spec

-----------------------------------------------------------------------------
\* What a call returns.

\* The value depends on the arguments alone.
LEMMA ValueOfArguments ==
    ASSUME NEW finalizer, NEW info, NEW other, info.args = other.args
    PROVE  FinalizeCall(finalizer, info) = FinalizeCall(finalizer, other)
<1> QED BY Zenon DEF FinalizeCall

\* A call that returned: the policies did what the clauses say, and the finalizer is the
\* one among them.
LEMMA ReturnedInOrder ==
    ASSUME CallInv, ServingInv, BuiltInv, OutcomeInv, running.phase = "returned"
    PROVE  LET clauses == Exp(running.chosen).clauses
               after == FoldLeft(ConsumePolicy, running.given, clauses)
               Value(finalizer) == FinalizeCall(finalizer, [running.info EXCEPT !.args = after])
               finalizers == {i \in DOMAIN clauses : IsFinalizer(clauses[i])}
           IN  /\ finalizers = {} => running.value = Void
               /\ \A i \in finalizers : running.value = Value(clauses[i])
<1> DEFINE e == Candidates[running.chosen]
           clauses == e.clauses
           after == FoldLeft(ConsumePolicy, running.given, clauses)
           info == [running.info EXCEPT !.args = after]
<1>1. /\ running.overload # <<>> /\ running.key = Decay(running.overload)
      /\ running.overload \in ToSet(mock.overloads)
      /\ DOMAIN running.info = InfoFields
  BY DEF CallInv
<1>2. /\ running.chosen \in DOMAIN Candidates
      /\ running.info.args = FoldOf("policies", running.given, e.policies)
      /\ running.value = FinalizeCall(e.finalizer, running.info)
  BY <1>1 DEF OutcomeInv, Effected
<1>3. BuiltOfClauses(mock.overloads, e, running.key)
  BY <1>1, <1>2 DEF BuiltInv, ServingInv, CollectionsInv, Candidates
<1> HIDE DEF e
<1>4. /\ IsSequence(clauses)
      /\ \A a : FoldOf("policies", a, e.policies) = FoldOf("policies", a, clauses)
      /\ Finalized(e.finalizer, clauses, Len(clauses))
  BY <1>3, Zenon DEF BuiltOfClauses
<1>5. after = running.info.args
  <2>1. after = FoldOf("policies", running.given, clauses)
    BY Zenon DEF FoldOf
  <2> HIDE DEF after, clauses
  <2> QED BY <1>2, <1>4, <2>1
<1> HIDE DEF after, clauses
<1>6. info.args = running.info.args
  BY <1>1, <1>5 DEF InfoFields
<1> HIDE DEF info
<1>7. DOMAIN clauses = 1 .. Len(clauses)
  BY <1>4 DEF IsSequence
<1>8. {i \in DOMAIN clauses : IsFinalizer(clauses[i])} = {} => running.value = Void
  <2> SUFFICES ASSUME {i \in DOMAIN clauses : IsFinalizer(clauses[i])} = {}
               PROVE  running.value = Void
    OBVIOUS
  <2>1. e.finalizer = InitFinalize
    BY <1>4, <1>7 DEF Finalized
  <2>2. e.finalizer.is = "init"
    BY <2>1 DEF InitFinalize
  <2> QED BY <1>2, <2>2, Zenon DEF FinalizeCall
<1>9. ASSUME NEW i \in {j \in DOMAIN clauses : IsFinalizer(clauses[j])}
      PROVE  running.value = FinalizeCall(clauses[i], info)
  <2>1. e.finalizer = clauses[i]
    BY <1>4, <1>7 DEF Finalized
  <2> QED BY <1>2, <1>6, <2>1, ValueOfArguments, Zenon
<1> QED BY <1>8, <1>9, Zenon DEF Exp, Candidates, info, after, clauses, e

\* The arguments are untouched until an expectation is consumed, and what is returned
\* then is what the clauses say in their order, for all programs.
THEOREM EffectsActInOrder == Spec => []EffectsInOrder
<1>1. ASSUME FrameInv, CallInv, ServingInv, BuiltInv, OutcomeInv PROVE EffectsInOrder
  <2>1. ASSUME running.phase \notin {"idle", "finalize", "returned"}, IsCall
        PROVE  running.phase \in {"threw", "terminated"} \/ running.info.args = running.given
    <3>1. CASE running.phase \in {"evaluate", "get", "deliver", "consume"}
      <4>1. Judged(running, Candidates)
        BY <1>1, <2>1, <3>1 DEF OutcomeInv, IsCall
      <4> QED BY <4>1 DEF Judged
    <3>2. CASE running.phase \notin {"evaluate", "get", "deliver", "consume"}
      BY <1>1, <2>1, <3>2 DEF FrameInv, Phases
    <3> QED BY <3>1, <3>2
  <2> QED BY <1>1, <2>1, ReturnedInOrder, Zenon DEF EffectsInOrder
<1> QED BY <1>1, OutcomeHolds, BuiltHolds, FrameHolds, CallHolds, ServingHolds, PTL

-----------------------------------------------------------------------------
\* What the policies find of a call, and what is so by their descriptions.

\* Among the overloads that share a collection, those that match in their categories
\* have the same one.
LEMMA SharersCompare ==
    ASSUME FrameInv, IsOverloadSet(mock.overloads),
           NEW s \in ToSet(mock.overloads), NEW t \in ToSet(mock.overloads),
           Decay(s) = Decay(t)
    PROVE  IsMatching(t.ref, s.ref) <=> s.ref = t.ref
<1>1. IsOverload(s) /\ IsOverload(t)
  BY MockDeclared
<1>2. s.ref = t.ref => IsMatching(t.ref, s.ref)
  <2>1. Bits(s.ref) # {}
    BY DEF Bits
  <2> QED BY <2>1 DEF IsMatching
<1>3. ASSUME s.ref # t.ref, IsMatching(t.ref, s.ref) PROVE FALSE
  <2>1. s.params = t.params
    <3>1. ParamList(s) = s.params /\ ParamList(t) = t.params
      BY <1>1, DecayOf DEF IsOverload
    <3> QED BY <3>1, Zenon DEF ParamList
  <2>2. s.ref = "any" \/ t.ref = "any"
    BY <1>3 DEF IsMatching, Bits
  <2>3. ~((s.ref = "any") <=> (t.ref = "any"))
    BY <1>3, <2>2
  <2>4. ~IsOverloadableWith(s, t) /\ ~IsOverloadableWith(t, s)
    BY <1>1, <2>1, <2>3, OverloadableMeans DEF IsOverload
  <2>5. PICK i \in DOMAIN mock.overloads : s = mock.overloads[i]
    BY DEF ToSet
  <2>6. PICK j \in DOMAIN mock.overloads : t = mock.overloads[j]
    BY DEF ToSet
  <2>7. i \in Nat /\ j \in Nat /\ i >= 1 /\ j >= 1
    BY MockDeclared
  <2>8. i < j => i \in 1 .. j - 1
    BY <2>7
  <2>9. j < i => j \in 1 .. i - 1
    BY <2>7
  <2>10. ~(i < j) /\ ~(j < i)
    BY <2>4, <2>5, <2>6, <2>8, <2>9, Zenon DEF IsOverloadSet
  <2>11. s = t
    BY <2>5, <2>6, <2>7, <2>10
  <2> QED BY <1>3, <2>11
<1> QED BY <1>2, <1>3

\* The arguments of a requirement are those its description is about.
LEMMA SeenIsSelected ==
    ASSUME NEW policy, NEW info, IsSequence(info.args),
           \A k \in DOMAIN policy.selection.indices :
              policy.projections[k] \in {"identity", "negate"}
    PROVE  ArgsOfRequirement(policy, info) = Seen(policy, info.args)
<1> DEFINE args == info.args
           n == Len(args)
           all == policy.selection.all
           indices == policy.selection.indices
           projections == policy.projections
           x(k) == args[indices[k] + 1]
           s == Select(policy.selection, args)
<1>1. n \in Nat /\ args = [k \in 1 .. n |-> args[k]]
  BY DEF IsSequence
<1>2. CASE all
  <2>1. Positions(policy.selection, n) = [k \in 1 .. n |-> k]
    BY <1>2 DEF Positions
  <2>2. s = [k \in 1 .. n |-> args[k]]
    <3>1. s = [k \in DOMAIN Positions(policy.selection, n) |->
                  args[Positions(policy.selection, n)[k]]]
      BY Zenon DEF Select
    <3> HIDE DEF s, args, n
    <3> QED BY <2>1, <3>1
  <2>3. ArgsOfRequirement(policy, info) = s
    BY <1>2, Zenon DEF ArgsOfRequirement
  <2>4. Seen(policy, args) = args
    BY <1>2, Zenon DEF Seen
  <2> HIDE DEF s, args, n
  <2> QED BY <1>1, <2>2, <2>3, <2>4 DEF args
<1>3. CASE ~all
  <2>1. Positions(policy.selection, n) = [k \in DOMAIN indices |-> indices[k] + 1]
    BY <1>3 DEF Positions
  <2>2. s = [k \in DOMAIN indices |-> x(k)]
    <3>1. s = [k \in DOMAIN Positions(policy.selection, n) |->
                  args[Positions(policy.selection, n)[k]]]
      BY Zenon DEF Select
    <3> HIDE DEF s, args, n, indices
    <3> QED BY <2>1, <3>1
  <2>3. ArgsOfRequirement(policy, info)
            = [k \in DOMAIN s |-> Project(projections[k], s[k])]
    BY <1>3, Zenon DEF ArgsOfRequirement, IndirectApply
  <2>4. Seen(policy, args)
            = [k \in DOMAIN indices |-> IF projections[k] = "negate" THEN -x(k) ELSE x(k)]
    BY <1>3, Zenon DEF Seen
  <2>5. \A k \in DOMAIN indices : projections[k] \in {"identity", "negate"}
    OBVIOUS
  <2> HIDE DEF s, args, n, indices, projections
  <2>6. DOMAIN s = DOMAIN indices /\ \A k \in DOMAIN indices : s[k] = x(k)
    BY <2>2
  <2>7. \A k \in DOMAIN indices :
            Project(projections[k], s[k]) = IF projections[k] = "negate" THEN -x(k) ELSE x(k)
    BY <2>5, <2>6 DEF Project
  <2> HIDE DEF x
  <2> QED BY <2>3, <2>4, <2>6, <2>7 DEF args
<1> QED BY <1>2, <1>3

\* As long as nothing has acted, what a policy finds is what holds.
FindsWhatHolds(policy) ==
    Holds(policy) <=> ~PolicyThrows(policy) /\ PolicyMatches(policy, running.info)

LEMMA HoldsIs ==
    ASSUME FrameInv, CallInv, ServingInv, BuiltInv, OutcomeInv, MatchersTellTheTruth,
           running.overload # <<>>,
           running.phase \in {"evaluate", "get", "deliver", "consume"},
           NEW at \in DOMAIN Candidates, NEW i \in DOMAIN Candidates[at].policies
    PROVE  FindsWhatHolds(Candidates[at].policies[i])
<1> DEFINE p == Candidates[at].policies[i]
           info == running.info
           t == running.overload
           seen == ArgsOfRequirement(p, info)
<1>1. /\ mock.compiles /\ t \in ToSet(mock.overloads) /\ running.key = Decay(t)
      /\ info.fromCategory = t.ref /\ info.fromConst = t.const
  BY DEF CallInv
<1>2. PICK s \in ToSet(mock.overloads) : Decay(s) = running.key /\ OwnPolicy(p, s)
  <2>1. BuiltOfClauses(mock.overloads, Candidates[at], running.key)
    BY <1>1 DEF BuiltInv, ServingInv, CollectionsInv, Candidates
  <2> QED BY <2>1, Zenon DEF BuiltOfClauses
<1>3. IsSequence(running.given) /\ info.args = running.given
  BY DEF OutcomeInv, Judged
<1>4. p.is = "requirement" /\ ~PolicyThrows(p) => (Matches(p.matcher, seen) <=> TrueOf(p.matcher, seen))
  BY Zenon DEF MatchersTellTheTruth, IsCall
<1>5. CASE p.is = "requirement"
  <2>1. \A k \in DOMAIN p.selection.indices : p.projections[k] \in {"identity", "negate"}
    <3>1. p # Category(s.ref) /\ p # Constness(s.const)
      BY <1>5 DEF Category, Constness
    <3> HIDE DEF p
    <3> QED BY <1>2, <1>5, <3>1 DEF OwnPolicy
  <2>2. seen = Seen(p, running.given)
    <3> HIDE DEF p
    <3> QED BY <1>3, <2>1, SeenIsSelected
  <2>3. Holds(p) <=> ~PolicyThrows(p) /\ TrueOf(p.matcher, Seen(p, running.given))
    BY <1>5, Zenon DEF Holds
  <2>4. PolicyMatches(p, info) <=> Matches(p.matcher, seen)
    BY <1>5, Zenon DEF PolicyMatches
  <2> QED BY <1>4, <1>5, <2>2, <2>3, <2>4, Zenon DEF FindsWhatHolds
<1>6. CASE p = Category(s.ref)
  <2>1. p.is = "category" /\ p.expected = s.ref
    BY <1>6 DEF Category
  <2> HIDE DEF p
  <2>2. ~PolicyThrows(p)
    BY <2>1 DEF PolicyThrows
  <2>3. Holds(p) <=> s.ref = t.ref
    BY <2>1 DEF Holds
  <2>4. PolicyMatches(p, info) <=> IsMatching(t.ref, s.ref)
    BY <1>1, <2>1 DEF PolicyMatches
  <2>5. IsOverloadSet(mock.overloads)
    BY <1>1, CompilesMeans
  <2>6. IsMatching(t.ref, s.ref) <=> s.ref = t.ref
    BY <1>1, <1>2, <2>5, SharersCompare
  <2>7. FindsWhatHolds(p)
    BY <2>2, <2>3, <2>4, <2>6 DEF FindsWhatHolds
  <2> QED BY <2>7 DEF p
<1>7. CASE p = Constness(s.const)
  <2>1. p.is = "constness"
    BY <1>7 DEF Constness
  <2> HIDE DEF p
  <2>2. ~PolicyThrows(p)
    BY <2>1 DEF PolicyThrows
  <2>3. Holds(p) <=> p.expected = t.const
    BY <2>1 DEF Holds
  <2>4. PolicyMatches(p, info) <=> t.const = p.expected
    BY <1>1, <2>1 DEF PolicyMatches
  <2>5. FindsWhatHolds(p)
    BY <2>2, <2>3, <2>4 DEF FindsWhatHolds
  <2> QED BY <2>5 DEF p
<1>8. CASE p.is = "effect"
  <2> HIDE DEF p
  <2>1. ~PolicyThrows(p)
    BY <1>8 DEF PolicyThrows
  <2>2. Holds(p)
    BY <1>8 DEF Holds
  <2>3. PolicyMatches(p, info)
    BY <1>8 DEF PolicyMatches
  <2>4. FindsWhatHolds(p)
    BY <2>1, <2>2, <2>3 DEF FindsWhatHolds
  <2> QED BY <2>4 DEF p
<1> HIDE DEF p
<1>9. FindsWhatHolds(p)
  BY <1>2, <1>5, <1>6, <1>7, <1>8 DEF OwnPolicy, p
<1> QED BY <1>9 DEF p

\* So an expectation accepts the call by its descriptions if it fits.
LEMMA AcceptsIs ==
    ASSUME FrameInv, CallInv, ServingInv, BuiltInv, OutcomeInv, MatchersTellTheTruth,
           running.overload # <<>>,
           running.phase \in {"evaluate", "get", "deliver", "consume"},
           NEW at \in DOMAIN Candidates
    PROVE  AcceptsAt(at) <=> Fits(Candidates[at], running.info)
<1> DEFINE e == Candidates[at]
<1>1. \A i \in DOMAIN e.policies : FindsWhatHolds(e.policies[i])
  BY HoldsIs
<1> HIDE DEF e
<1>2. \A i \in DOMAIN e.policies :
          Holds(e.policies[i]) <=>
              ~PolicyThrows(e.policies[i]) /\ PolicyMatches(e.policies[i], running.info)
  BY <1>1, Zenon DEF FindsWhatHolds
<1>3. Accepts(e) <=> Fits(e, running.info)
  BY <1>2, Zenon DEF Accepts, Fits, Raises, Refuses
<1> QED BY <1>3, Zenon DEF e, AcceptsAt

\* Only limits keep an expectation of no sequence from being applicable.
LEMMA ApplicableIs ==
    ASSUME NEW at
    PROVE  IsApplicable(Candidates[at]) <=> ~Saturated(at)
<1> DEFINE e == Candidates[at]
<1>1. Saturated(at) <=> e.count = e.max
  BY DEF Saturated
<1> HIDE DEF e
<1>2. IsApplicable(e) <=> e.count # e.max
  <2>1. ControlState(e).is = IF e.count = e.max THEN "saturated" ELSE "applicable"
    BY DEF ControlState
  <2> QED BY <2>1 DEF IsApplicable
<1> QED BY <1>1, <1>2 DEF e

\* In the state of a call: what it uses or reports is what its descriptions ask for.
LEMMA UsedAccepts ==
    ASSUME FrameInv, CallInv, ServingInv, BuiltInv, OutcomeInv, MatchersTellTheTruth
    PROVE  UsedExpectationAcceptsCall
<1> DEFINE c == Candidates
           info == running.info
<1>1. ASSUME running.overload # <<>>,
             running.phase \in {"evaluate", "get", "deliver", "consume"}
      PROVE  /\ Judged(running, c) /\ Handles(running, c)
             /\ Sorted(running, c)
             /\ \A at \in DOMAIN c : at \in Nat /\ at > 0
             /\ \A at \in DOMAIN c : AcceptsAt(at) <=> Fits(c[at], info)
  <2>1. Judged(running, c)
    BY <1>1 DEF OutcomeInv
  <2>2. Sorted(running, c)
    BY <2>1, Zenon DEF Judged
  <2>3. Handles(running, c)
    BY <1>1 DEF ServingInv, HandlerInv, IsRunning
  <2>4. \A at \in DOMAIN c : at \in Nat /\ at > 0
    <3>1. IsSequence(c)
      BY <1>1 DEF CallInv, ServingInv, CollectionsInv, Candidates
    <3> QED BY <3>1 DEF IsSequence
  <2>5. \A at \in DOMAIN c : AcceptsAt(at) <=> Fits(c[at], info)
    BY <1>1, AcceptsIs
  <2> QED BY <2>1, <2>2, <2>3, <2>4, <2>5
<1>2. ASSUME NEW at \in DOMAIN c, running.todo = 0, Sorted(running, c), at \in Nat, at > 0,
             Fits(c[at], info)
      PROVE  /\ ~Saturated(at) => \E k \in DOMAIN running.matches : running.matches[k] = at
             /\ Saturated(at) =>
                   \E k \in DOMAIN running.inapplicable : running.inapplicable[k] = at
  <2>1. IsApplicable(c[at]) <=> ~Saturated(at)
    BY ApplicableIs
  <2>2. at > running.todo
    BY <1>2
  <2>3. /\ IsApplicable(c[at]) =>
              \E k \in DOMAIN running.matches : running.matches[k] = at
        /\ ~IsApplicable(c[at]) =>
              \E k \in DOMAIN running.inapplicable : running.inapplicable[k] = at
    BY <1>2, <2>2, Zenon DEF Sorted
  <2> QED BY <2>1, <2>3
<1>3. ASSUME running.phase = "consume"
      PROVE  /\ AcceptsAt(running.chosen)
             /\ ~Saturated(running.chosen)
             /\ \A at \in DOMAIN Candidates :
                   at > running.chosen => ~AcceptsAt(at) \/ Saturated(at)
  <2>1. running.overload # <<>>
    BY <1>3 DEF CallInv
  <2>2. Judged(running, c) /\ Handles(running, c) /\ Sorted(running, c)
    BY <1>1, <1>3, <2>1
  <2>3. WillConsume(running)
    BY <1>3 DEF WillConsume
  <2>4. running.todo = 0 /\ running.matches # <<>> /\ running.chosen = running.matches[1]
    BY <2>2, <2>3, Zenon DEF Judged
  <2>5. 1 \in DOMAIN running.matches /\ running.chosen \in DOMAIN c
    <3>1. IsSequence(running.matches) /\ running.chosen # 0
      BY <2>2, <2>3, Zenon DEF Handles
    <3>2. running.chosen \in DOMAIN c
      BY <2>2, <3>1, Zenon DEF Handles
    <3>3. Len(running.matches) \in Nat
          /\ running.matches = [k \in 1 .. Len(running.matches) |-> running.matches[k]]
      BY <3>1 DEF IsSequence
    <3>4. Len(running.matches) # 0
      <4> SUFFICES ASSUME Len(running.matches) = 0 PROVE FALSE
        OBVIOUS
      <4> DEFINE s == running.matches
      <4>1. s = [k \in 1 .. 0 |-> s[k]] /\ s # <<>>
        BY <2>4, <3>3
      <4> HIDE DEF s
      <4> QED BY <4>1
    <3> QED BY <3>2, <3>3, <3>4
  <2>6. Fits(c[running.chosen], info)
    BY <2>2, <2>4, <2>5, Zenon DEF Sorted
  <2>7. ~Saturated(running.chosen)
    <3>1. Serves(c[running.chosen], running.overload)
      BY <2>2, <2>3, Zenon DEF Handles
    <3>2. c[running.chosen].count \in Nat /\ c[running.chosen].max \in Nat
      BY <2>1, <2>5 DEF CallInv, ServingInv, CollectionsInv, Collected, Candidates
    <3> QED BY <3>1, <3>2 DEF Serves, Saturated
  <2>8. ASSUME NEW at \in DOMAIN c, at > running.chosen, Fits(c[at], info), ~Saturated(at)
        PROVE  FALSE
    <3>1. PICK k \in DOMAIN running.matches : running.matches[k] = at
      BY <1>1, <1>2, <1>3, <2>1, <2>2, <2>4, <2>8
    <3>2. running.matches[k] <= running.matches[1]
      BY <2>2, Zenon DEF Sorted
    <3> QED BY <1>1, <1>3, <2>1, <2>4, <2>5, <2>8, <3>1, <3>2
  <2>9. \A at \in DOMAIN c : AcceptsAt(at) <=> Fits(c[at], info)
    BY <1>1, <1>3, <2>1
  <2> HIDE DEF info
  <2> QED BY <2>5, <2>6, <2>7, <2>8, <2>9
<1>4. ASSUME IsReporting, running.report.is \in {"inapplicable", "no_matches"}
      PROVE  /\ running.overload # <<>>
             /\ running.phase \in {"get", "deliver"}
             /\ Judged(running, c) /\ Sorted(running, c) /\ Handles(running, c)
             /\ Reported(running, c)
             /\ \A at \in DOMAIN c : at \in Nat /\ at > 0
             /\ \A at \in DOMAIN c : AcceptsAt(at) <=> Fits(c[at], info)
  <2>1. running.overload # <<>> /\ running.phase \in {"get", "deliver"}
    BY <1>4 DEF CallInv, IsReporting
  <2>2. Judged(running, c)
    BY <1>1, <2>1
  <2> QED BY <1>1, <2>1, <2>2 DEF Judged
<1>5. ASSUME IsReporting, running.report.is = "inapplicable"
      PROVE  /\ \E at \in DOMAIN Candidates : AcceptsAt(at)
             /\ \A at \in DOMAIN Candidates : AcceptsAt(at) => Saturated(at)
  <2>1. /\ running.todo = 0 /\ running.matches = <<>> /\ running.inapplicable # <<>>
    BY <1>4, <1>5 DEF Reported
  <2>2. PICK k : k \in DOMAIN running.inapplicable
    <3>1. IsSequence(running.inapplicable)
      BY <1>4, <1>5, Zenon DEF Handles
    <3> DEFINE s == running.inapplicable
    <3>2. Len(s) \in Nat /\ s = [j \in 1 .. Len(s) |-> s[j]] /\ s # <<>>
      BY <2>1, <3>1 DEF IsSequence
    <3> HIDE DEF s
    <3>3. Len(s) # 0
      <4> SUFFICES ASSUME Len(s) = 0 PROVE FALSE
        OBVIOUS
      <4>1. s = [j \in 1 .. 0 |-> s[j]]
        BY <3>2
      <4> QED BY <3>2, <4>1
    <3>4. 1 \in DOMAIN s
      BY <3>2, <3>3
    <3> QED BY <3>4 DEF s
  <2>3. running.inapplicable[k] \in DOMAIN c /\ Fits(c[running.inapplicable[k]], info)
    BY <1>4, <1>5, <2>2, Zenon DEF Handles, Sorted
  <2>4. ASSUME NEW at \in DOMAIN c, Fits(c[at], info), ~Saturated(at)
        PROVE  FALSE
    <3>1. PICK j \in DOMAIN running.matches : running.matches[j] = at
      BY <1>2, <1>4, <1>5, <2>1, <2>4
    <3> QED BY <2>1, <3>1, SequenceStarts
  <2>5. \A at \in DOMAIN c : AcceptsAt(at) <=> Fits(c[at], info)
    BY <1>4, <1>5
  <2> HIDE DEF info
  <2> QED BY <2>3, <2>4, <2>5
<1>6. ASSUME IsReporting, running.report.is = "no_matches"
      PROVE  ~\E at \in DOMAIN Candidates : AcceptsAt(at)
  <2>1. /\ running.todo = 0 /\ running.matches = <<>> /\ running.inapplicable = <<>>
    BY <1>4, <1>6 DEF Reported
  <2>2. ASSUME NEW at \in DOMAIN c, Fits(c[at], info)
        PROVE  FALSE
    <3>1. \/ \E j \in DOMAIN running.matches : running.matches[j] = at
          \/ \E j \in DOMAIN running.inapplicable : running.inapplicable[j] = at
      BY <1>2, <1>4, <1>6, <2>1, <2>2
    <3> QED BY <2>1, <3>1, SequenceStarts
  <2>3. \A at \in DOMAIN c : AcceptsAt(at) <=> Fits(c[at], info)
    BY <1>4, <1>6
  <2> HIDE DEF info
  <2> QED BY <2>2, <2>3
<1> QED BY <1>3, <1>5, <1>6, Zenon DEF UsedExpectationAcceptsCall

\* If matchers tell the truth, then a call uses the newest expectation that is not
\* saturated and whose descriptions hold of the arguments, and fails as inapplicable or
\* unmatched only if there is none (handle_call, the policies and the matchers).
THEOREM CallsUseWhatAcceptsThem ==
    Spec /\ []MatchersTellTheTruth => []UsedExpectationAcceptsCall
<1> QED BY UsedAccepts, FrameHolds, CallHolds, ServingHolds, BuiltHolds, OutcomeHolds, PTL

-----------------------------------------------------------------------------
\* What the texts of reports tell.

\* A list has each of its own elements.
LEMMA WholeEnumerates ==
    ASSUME NEW s, IsSequence(s)
    PROVE  Enumerates(s, s, DOMAIN s)
<1> DEFINE same == [k \in DOMAIN s |-> k]
<1>1. same \in [DOMAIN s -> DOMAIN s] /\ \A k \in DOMAIN s : same[k] = k
  OBVIOUS
<1> HIDE DEF same
<1>2. same \in Bijection(DOMAIN s, DOMAIN s)
  BY <1>1, Fun_IsBij
<1> QED BY <1>1, <1>2 DEF Enumerates

\* So has a part of a list, of those between its ends.
LEMMA PartEnumerates ==
    ASSUME NEW s, IsSequence(s), NEW a \in 1 .. Len(s) + 1, NEW b \in 0 .. Len(s), a <= b + 1
    PROVE  Enumerates(SubSeq(s, a, b), s, a .. b)
<1> DEFINE r == SubSeq(s, a, b)
           m == b - a + 1
           shift == [k \in 1 .. m |-> a + k - 1]
<1>1. Len(s) \in Nat /\ m \in Nat /\ a \in Nat /\ b \in Nat
  BY DEF IsSequence
<1>2. r = [k \in 1 .. m |-> s[a + k - 1]]
  OBVIOUS
<1>3. Len(r) = m /\ DOMAIN r = 1 .. m
  <2> HIDE DEF r, m
  <2> QED BY <1>1, <1>2
<1>4. IsSequence(r) /\ \A k \in 1 .. m : r[k] = s[shift[k]]
  <2> HIDE DEF r, m
  <2> QED BY <1>1, <1>2, <1>3 DEF IsSequence
<1>5. shift \in [1 .. m -> a .. b] /\ \A k \in 1 .. m : shift[k] = a + k - 1
  BY <1>1
<1>6. \A i \in a .. b : i - a + 1 \in 1 .. m /\ a + (i - a + 1) - 1 = i
  BY <1>1
<1> HIDE DEF shift, r, m
<1>7. shift \in Bijection(1 .. m, a .. b)
  <2>1. \A k, l \in 1 .. m : shift[k] = shift[l] => k = l
    BY <1>1, <1>5
  <2>2. \A i \in a .. b : \E k \in 1 .. m : shift[k] = i
    BY <1>5, <1>6
  <2> QED BY <1>5, <2>1, <2>2, Fun_IsBij
<1>8. Enumerates(r, s, a .. b)
  BY <1>3, <1>4, <1>7 DEF Enumerates
<1> QED BY <1>8 DEF r

\* Two texts that are made of the same descriptions tell the same.
TellsSame(r, told) ==
    /\ Rearranges(Picked(r, Described(r)), Picked(told, Described(told)))
    /\ Cardinality(DOMAIN r \ Described(r)) = Len(told) - Len(Picked(told, Described(told)))

LEMMA TextsTell ==
    ASSUME NEW r, NEW told, NEW s, NEW at, Enumerates(r, s, at), Enumerates(told, s, at)
    PROVE  TellsSame(r, told)
<1> DEFINE p == Picked(r, Described(r))
           q == Picked(told, Described(told))
           some == {i \in at : IsDescribed(s[i])}
<1>1. Enumerates(p, s, some) /\ Cardinality(DOMAIN r \ Described(r)) = Len(r) - Len(p)
  BY DescribedEnumerate
<1>2. Enumerates(q, s, some)
  BY DescribedEnumerate
<1>3. Len(r) = Len(told)
  BY SameElements
<1> HIDE DEF p, q, some
<1>4. Rearranges(p, q) /\ Len(p) = Len(q)
  BY <1>1, <1>2, SameElements
<1> QED BY <1>1, <1>3, <1>4 DEF TellsSame, p, q

\* The descriptions of an expectation, and which of its policies hold or do not.
DescriptionsOf(e) == [i \in DOMAIN e.policies |-> DescribePolicy(e.policies[i])]

HoldingAt(e, holding) == {i \in DOMAIN e.policies : Holds(e.policies[i]) <=> holding}

LEMMA ToldEnumerates ==
    ASSUME NEW e, IsSequence(e.policies), NEW holding
    PROVE  Enumerates(Told(e, holding), DescriptionsOf(e), HoldingAt(e, holding))
<1> DEFINE s == e.policies
           at == HoldingAt(e, holding)
           q == Picked(s, at)
           told == Told(e, holding)
           d == DescriptionsOf(e)
<1>1. Len(s) \in Nat /\ DOMAIN s = 1 .. Len(s)
  BY DEF IsSequence
<1>2. at \in SUBSET DOMAIN s
  BY DEF HoldingAt
<1>3. told = [i \in DOMAIN q |-> DescribePolicy(q[i])]
  BY Zenon DEF Told, HoldingAt
<1>4. d = [i \in DOMAIN s |-> DescribePolicy(s[i])]
  BY DEF DescriptionsOf
<1> HIDE DEF at, s, told, d
<1>5. Enumerates(q, s, at)
  BY <1>1, <1>2, PickedEnumerates
<1> HIDE DEF q
<1>6. PICK order \in Bijection(DOMAIN q, at) : \A k \in DOMAIN q : q[k] = s[order[k]]
  BY <1>5 DEF Enumerates
<1>7. IsSequence(q)
  BY <1>5 DEF Enumerates
<1>8. IsSequence(told) /\ DOMAIN told = DOMAIN q
  <2>1. told = [i \in DOMAIN q |-> told[i]]
    BY <1>3
  <2> QED BY <1>7, <2>1, SameLength
<1>9. \A k \in DOMAIN q : order[k] \in at
  BY <1>6, Fun_BijectionProperties
<1>10. \A k \in DOMAIN q : told[k] = d[order[k]]
  BY <1>2, <1>3, <1>4, <1>6, <1>9
<1>11. Enumerates(told, d, at)
  BY <1>6, <1>8, <1>10 DEF Enumerates
<1> QED BY <1>11 DEF told, d, at

\* The report of an expectation has its id, its counts and all of its descriptions.
LEMMA ReportOf ==
    ASSUME NEW e
    PROVE  /\ ExpectationReport(e).id = e.id
           /\ ExpectationReport(e).descriptions = DescriptionsOf(e)
           /\ ExpectationReport(e).control = ControlState(e)
           /\ ControlState(e).count = e.count /\ ControlState(e).max = e.max
<1> QED BY DEF ExpectationReport, DescriptionsOf, ControlState

\* The reader finds the expectation that a paragraph is about.
LEMMA FoundById ==
    ASSUME NEW at \in DOMAIN Candidates, NEW paragraph, paragraph.id = Candidates[at].id,
           \A i, j \in DOMAIN Candidates : Candidates[i].id = Candidates[j].id => i = j
    PROVE  ExpectationOf(paragraph) = Candidates[at]
<1> DEFINE s == Candidates
           e == ExpectationOf(paragraph)
<1>1. e = CHOOSE x \in ToSet(s) : x.id = paragraph.id
  BY DEF ExpectationOf
<1>2. \E x \in ToSet(s) : x.id = paragraph.id
  BY DEF ToSet
<1>3. e \in ToSet(s) /\ e.id = paragraph.id
  <2> HIDE DEF s, e
  <2> QED BY <1>1, <1>2, Zenon
<1>4. PICK i \in DOMAIN s : e = s[i]
  BY <1>3 DEF ToSet
<1> HIDE DEF e
<1>5. i = at
  BY <1>3, <1>4
<1> QED BY <1>4, <1>5 DEF e

\* If all requirements hold, all that have a text are adherences.
LEMMA AllAreAdherences ==
    ASSUME NEW e, IsSequence(e.policies), \A i \in DOMAIN e.policies : Holds(e.policies[i]),
           NEW paragraph, paragraph.adherences = Adherences(DescriptionsOf(e))
    PROVE  TellsAllAdherences(paragraph, e)
<1> DEFINE d == DescriptionsOf(e)
           told == Told(e, TRUE)
<1>1. IsSequence(d) /\ DOMAIN d = DOMAIN e.policies
  <2>1. d = [i \in DOMAIN e.policies |-> d[i]]
    BY DEF DescriptionsOf
  <2> HIDE DEF d
  <2> QED BY <2>1, SameLength
<1>2. HoldingAt(e, TRUE) = DOMAIN d
  <2> HIDE DEF d
  <2> QED BY <1>1 DEF HoldingAt
<1>3. Enumerates(told, d, DOMAIN d)
  BY <1>2, ToldEnumerates
<1>4. Enumerates(d, d, DOMAIN d)
  BY <1>1, WholeEnumerates
<1> HIDE DEF d, told
<1>5. TellsSame(d, told)
  BY <1>3, <1>4, TextsTell
<1> QED BY <1>5, Zenon DEF TellsSame, TellsAllAdherences, Adherences, d, told

\* What holds of a call as long as its matchers tell the truth.
TruthfulInv ==
    /\ FrameInv /\ CallInv /\ ServingInv /\ BuiltInv /\ OutcomeInv /\ JudgedInv
    /\ MatchersTellTheTruth

\* A call that is reported.
LEMMA ReportingCall ==
    ASSUME TruthfulInv, IsReporting, running.overload # <<>>
    PROVE  /\ running.phase \in {"get", "deliver"} /\ IsCall
           /\ Sorted(running, Candidates) /\ Handles(running, Candidates)
           /\ Reported(running, Candidates)
           /\ WillConsume(running) =>
                 running.todo = 0 /\ running.matches # <<>> /\ running.chosen = running.matches[1]
           /\ \A i, j \in DOMAIN Candidates : Candidates[i].id = Candidates[j].id => i = j
           /\ \A at \in DOMAIN Candidates :
                 /\ at \in Nat /\ at > 0
                 /\ IsSequence(Candidates[at].policies)
<1>1. running.phase \in {"get", "deliver"} /\ IsCall
  BY DEF IsReporting, IsCall
<1>2. running.key \in DOMAIN collections
  BY DEF TruthfulInv, CallInv, ServingInv, CollectionsInv
<1>3. Judged(running, Candidates) /\ Handles(running, Candidates)
  BY <1>1 DEF TruthfulInv, OutcomeInv, ServingInv, HandlerInv, IsRunning
<1>4. \A i, j \in DOMAIN Candidates : Candidates[i].id = Candidates[j].id => i = j
  BY <1>2 DEF TruthfulInv, BuiltInv, Candidates
<1>5. IsSequence(Candidates) /\ \A at \in DOMAIN Candidates : IsSequence(Candidates[at].policies)
  BY <1>2 DEF TruthfulInv, ServingInv, CollectionsInv, Collected, Candidates
<1>6. \A at \in DOMAIN Candidates : at \in Nat /\ at > 0
  BY <1>5 DEF IsSequence
<1>7. Sorted(running, Candidates) /\ Reported(running, Candidates)
  BY <1>1, <1>3 DEF Judged
<1>8. WillConsume(running) =>
          running.todo = 0 /\ running.matches # <<>> /\ running.chosen = running.matches[1]
  BY <1>3, Zenon DEF Judged
<1> QED BY <1>1, <1>3, <1>4, <1>5, <1>6, <1>7, <1>8

\* The outcomes of its requirements are what holds.
LEMMA OutcomesHold ==
    ASSUME TruthfulInv, IsReporting, running.overload # <<>>,
           NEW at \in DOMAIN Candidates, ~Raises(Candidates[at]),
           NEW i \in DOMAIN Candidates[at].policies
    PROVE  Holds(Candidates[at].policies[i])
               <=> PolicyMatches(Candidates[at].policies[i], running.info)
<1> DEFINE p == Candidates[at].policies[i]
<1>1. FindsWhatHolds(p)
  BY HoldsIs DEF TruthfulInv, IsReporting
<1>2. ~PolicyThrows(p)
  BY DEF Raises
<1> HIDE DEF p
<1>3. Holds(p) <=> PolicyMatches(p, running.info)
  BY <1>1, <1>2, Zenon DEF FindsWhatHolds
<1> QED BY <1>3, Zenon DEF p

LEMMA FittingHolds ==
    ASSUME TruthfulInv, IsReporting, running.overload # <<>>,
           NEW at \in DOMAIN Candidates, Fits(Candidates[at], running.info)
    PROVE  \A i \in DOMAIN Candidates[at].policies : Holds(Candidates[at].policies[i])
<1> SUFFICES ASSUME NEW i \in DOMAIN Candidates[at].policies
             PROVE  Holds(Candidates[at].policies[i])
  OBVIOUS
<1>1. ~Raises(Candidates[at]) /\ PolicyMatches(Candidates[at].policies[i], running.info)
  BY Zenon DEF Fits, Refuses
<1> QED BY <1>1, OutcomesHold, Zenon

\* Full matches.
LEMMA FullMatchTells ==
    ASSUME TruthfulInv, IsReporting, running.report.is = "full_match",
           NEW paragraph \in ToSet(StringifyFullMatch(running.report.expectation))
    PROVE  TellsAllAdherences(paragraph, ExpectationOf(paragraph))
<1> DEFINE at == running.chosen
           e == Candidates[at]
           report == running.report.expectation
<1>1. running.overload # <<>>
  BY DEF TruthfulInv, CallInv
<1>2. WillConsume(running)
  BY DEF WillConsume, IsReporting
<1>3. at \in DOMAIN Candidates /\ report = ExpectationReport(e)
  <2>1. Handles(running, Candidates) /\ Reported(running, Candidates)
    BY <1>1, ReportingCall
  <2> QED BY <1>2, <2>1, Zenon DEF Handles, Reported
<1>4. Fits(e, running.info)
  <2>1. /\ running.matches # <<>> /\ at = running.matches[1]
        /\ Sorted(running, Candidates) /\ Handles(running, Candidates)
    BY <1>1, <1>2, ReportingCall
  <2>2. IsSequence(running.matches)
    BY <2>1, Zenon DEF Handles
  <2>3. 1 \in DOMAIN running.matches
    <3> DEFINE s == running.matches
    <3>1. Len(s) \in Nat /\ s = [k \in 1 .. Len(s) |-> s[k]] /\ s # <<>>
      BY <2>1, <2>2 DEF IsSequence
    <3> HIDE DEF s
    <3>2. Len(s) # 0
      <4> SUFFICES ASSUME Len(s) = 0 PROVE FALSE
        OBVIOUS
      <4>1. s = [k \in 1 .. 0 |-> s[k]]
        BY <3>1
      <4> QED BY <3>1, <4>1
    <3>3. 1 \in DOMAIN s
      BY <3>1, <3>2
    <3> QED BY <3>3 DEF s
  <2>4. Fits(Candidates[running.matches[1]], running.info)
    BY <2>1, <2>3, Zenon DEF Sorted
  <2> QED BY <2>1, <2>4
<1>5. IsSequence(e.policies) /\ \A i \in DOMAIN e.policies : Holds(e.policies[i])
  BY <1>1, <1>3, <1>4, ReportingCall, FittingHolds
<1>6. /\ report.id = e.id
      /\ report.descriptions = DescriptionsOf(e)
  BY <1>3, ReportOf
<1> DEFINE only == [id |-> report.id, adherences |-> Adherences(report.descriptions)]
<1>7. paragraph = only
  <2>1. StringifyFullMatch(report) = <<only>>
    BY DEF StringifyFullMatch
  <2> HIDE DEF only, report
  <2>2. ToSet(<<only>>) = {only}
    BY DEF ToSet
  <2> QED BY <2>1, <2>2 DEF report
<1>8. paragraph.id = e.id /\ paragraph.adherences = Adherences(DescriptionsOf(e))
  BY <1>6, <1>7
<1>9. ExpectationOf(paragraph) = e
  <2>1. \A i, j \in DOMAIN Candidates : Candidates[i].id = Candidates[j].id => i = j
    BY <1>1, ReportingCall
  <2> QED BY <1>3, <1>8, <2>1, FoundById
<1> HIDE DEF e
<1> QED BY <1>5, <1>8, <1>9, AllAreAdherences

\* Inapplicable matches.
LEMMA InapplicableTells ==
    ASSUME TruthfulInv, IsReporting, running.report.is = "inapplicable",
           NEW paragraph \in ToSet(StringifyInapplicableMatches(running.report.expectations))
    PROVE  /\ TellsAllAdherences(paragraph, ExpectationOf(paragraph))
           /\ paragraph.matched = ExpectationOf(paragraph).count
           /\ paragraph.matched >= paragraph.outOf
<1> DEFINE late == running.inapplicable
           reports == running.report.expectations
           Paragraph(report) ==
               [id |-> report.id, matched |-> report.control.count,
                outOf |-> report.control.max, adherences |-> Adherences(report.descriptions)]
<1>1. running.overload # <<>>
  BY DEF TruthfulInv, CallInv
<1>2. reports = [k \in DOMAIN late |-> ExpectationReport(Candidates[late[k]])]
  <2>1. Reported(running, Candidates)
    BY <1>1, ReportingCall
  <2> QED BY <2>1, Zenon DEF Reported
<1>3. PICK k \in DOMAIN reports : paragraph = Paragraph(reports[k])
  <2>1. StringifyInapplicableMatches(reports) = [i \in DOMAIN reports |-> Paragraph(reports[i])]
    BY DEF StringifyInapplicableMatches
  <2> HIDE DEF Paragraph, reports
  <2>2. paragraph \in ToSet([i \in DOMAIN reports |-> Paragraph(reports[i])])
    BY <2>1 DEF reports
  <2> QED BY <2>2 DEF ToSet
<1> DEFINE at == late[k]
           e == Candidates[at]
<1>4. k \in DOMAIN late /\ reports[k] = ExpectationReport(e)
  <2> HIDE DEF reports, late
  <2> QED BY <1>2 DEF late
<1>5. at \in DOMAIN Candidates /\ Fits(e, running.info)
  <2>1. Sorted(running, Candidates) /\ Handles(running, Candidates)
    BY <1>1, ReportingCall
  <2> QED BY <1>4, <2>1, Zenon DEF Sorted, Handles
<1>6. e.count = e.max
  <2>1. ~IsApplicable(e)
    BY <1>1, <1>4, ReportingCall DEF TruthfulInv, JudgedInv
  <2> QED BY <2>1, ApplicableIs DEF Saturated
<1>7. IsSequence(e.policies) /\ \A i \in DOMAIN e.policies : Holds(e.policies[i])
  BY <1>1, <1>5, ReportingCall, FittingHolds
<1>8. /\ paragraph.id = e.id /\ paragraph.matched = e.count /\ paragraph.outOf = e.max
      /\ paragraph.adherences = Adherences(DescriptionsOf(e))
  <2> DEFINE report == reports[k]
  <2>1. /\ report.id = e.id /\ report.descriptions = DescriptionsOf(e)
        /\ report.control.count = e.count /\ report.control.max = e.max
    BY <1>4, ReportOf
  <2>2. paragraph = Paragraph(report)
    BY <1>3
  <2> HIDE DEF report, e
  <2> QED BY <2>1, <2>2
<1>9. ExpectationOf(paragraph) = e
  <2>1. \A i, j \in DOMAIN Candidates : Candidates[i].id = Candidates[j].id => i = j
    BY <1>1, ReportingCall
  <2> QED BY <1>5, <1>8, <2>1, FoundById
<1>10. e.max \in Nat
  BY <1>1, <1>5 DEF TruthfulInv, CallInv, ServingInv, CollectionsInv, Collected, Candidates
<1>11. TellsAllAdherences(paragraph, e)
  <2> HIDE DEF e
  <2> QED BY <1>7, <1>8, AllAreAdherences
<1> HIDE DEF e
<1> QED BY <1>6, <1>8, <1>9, <1>10, <1>11

\* The paragraph of an expectation that does not match.
NoMatchParagraph(r) ==
    LET parts == PartitionBy(r.expectation.descriptions, r.outcomes)
        n == Len(parts.target)
    IN  [id |-> r.expectation.id,
         violations |-> Violations(SubSeq(parts.target, parts.midpoint, n)),
         adherences |-> Adherences(SubSeq(parts.target, 1, parts.midpoint - 1))]

\* A partition separates what passes from what does not.
LEMMA SplitEnumerates ==
    ASSUME NEW s, IsSequence(s), NEW control, NEW parts, Splits(parts, s, control)
    PROVE  /\ Enumerates(SubSeq(parts.target, 1, parts.midpoint - 1), s,
                         {i \in DOMAIN s : control[i]})
           /\ Enumerates(SubSeq(parts.target, parts.midpoint, Len(parts.target)), s,
                         {i \in DOMAIN s : ~control[i]})
<1> DEFINE D == DOMAIN s
           r == parts.target
           m == parts.midpoint
           n == Len(s)
           front == 1 .. m - 1
           back == m .. n
<1>1. n \in Nat /\ D = 1 .. n /\ m \in 1 .. n + 1
  BY DEF IsSequence, Splits
<1>2. PICK to \in Bijection(D, D) :
          /\ Follows(r, s, to, D)
          /\ \A k \in D : k < m <=> control[to[k]]
  BY DEF Splits
<1> HIDE DEF D, r, m, n
<1>3. r = [k \in D |-> s[to[k]]] /\ \A k \in D : r[k] = s[to[k]]
  BY <1>2 DEF Follows
<1>4. Len(r) = n /\ IsSequence(r) /\ DOMAIN r = D
  <2>1. DOMAIN r = 1 .. n
    BY <1>1, <1>3
  <2>2. Len(r) = n
    BY <1>1, <1>3, <2>1
  <2>3. r = [k \in 1 .. n |-> r[k]]
    BY <1>1, <1>3
  <2> QED BY <1>1, <2>1, <2>2, <2>3 DEF IsSequence
<1>5. Enumerates(SubSeq(r, 1, m - 1), r, front) /\ Enumerates(SubSeq(r, m, n), r, back)
  <2>1. m - 1 \in 0 .. Len(r) /\ 1 <= m - 1 + 1 /\ 1 \in 1 .. Len(r) + 1
    BY <1>1, <1>4
  <2>2. n \in 0 .. Len(r) /\ m <= n + 1 /\ m \in 1 .. Len(r) + 1
    BY <1>1, <1>4
  <2> QED BY <1>4, <2>1, <2>2, PartEnumerates
<1>6. front \in SUBSET D /\ back \in SUBSET D
  BY <1>1
<1>7. \A k \in D : (k \in front <=> k < m) /\ (k \in back <=> ~(k < m))
  BY <1>1
<1> HIDE DEF front, back
<1>8. to \in [D -> D] /\ \A i \in D : \E k \in D : to[k] = i
  BY <1>2, Fun_BijectionProperties
<1>9. {i \in D : control[i]} = {to[k] : k \in front}
  <2>1. ASSUME NEW i \in D, control[i] PROVE \E k \in front : to[k] = i
    BY <1>2, <1>7, <1>8, <2>1
  <2>2. ASSUME NEW k \in front PROVE to[k] \in D /\ control[to[k]]
    BY <1>2, <1>6, <1>7, <1>8
  <2> QED BY <2>1, <2>2
<1>10. {i \in D : ~control[i]} = {to[k] : k \in back}
  <2>1. ASSUME NEW i \in D, ~control[i] PROVE \E k \in back : to[k] = i
    BY <1>2, <1>7, <1>8, <2>1
  <2>2. ASSUME NEW k \in back PROVE to[k] \in D /\ ~control[to[k]]
    BY <1>2, <1>6, <1>7, <1>8
  <2> QED BY <2>1, <2>2
<1>11. Enumerates(SubSeq(r, 1, m - 1), s, {i \in D : control[i]})
  BY <1>2, <1>3, <1>5, <1>6, <1>9, SelectedOfRearranged
<1>12. Enumerates(SubSeq(r, m, n), s, {i \in D : ~control[i]})
  BY <1>2, <1>3, <1>5, <1>6, <1>10, SelectedOfRearranged
<1> QED BY <1>4, <1>11, <1>12 DEF D, r, m, n

\* What a paragraph tells of an expectation that does not match.
TellsOf(paragraph, e) ==
    LET violated == Told(e, FALSE)
        described == Picked(violated, Described(violated))
    IN  /\ TellsAllAdherences(paragraph, e)
        /\ Rearranges(paragraph.violations.described, described)
        /\ paragraph.violations.undescribed = Len(violated) - Len(described)

LEMMA ParagraphTells ==
    ASSUME NEW e, NEW info, IsSequence(e.policies),
           \A i \in DOMAIN e.policies :
              Holds(e.policies[i]) <=> PolicyMatches(e.policies[i], info),
           NEW paragraph, paragraph = NoMatchParagraph(NoMatchReport(e, info))
    PROVE  TellsOf(paragraph, e) /\ paragraph.id = e.id
<1> DEFINE r == NoMatchReport(e, info)
           d == DescriptionsOf(e)
           outcomes == RequirementOutcomes(e, info)
           parts == PartitionBy(d, outcomes)
           front == SubSeq(parts.target, 1, parts.midpoint - 1)
           back == SubSeq(parts.target, parts.midpoint, Len(parts.target))
           adherent == Told(e, TRUE)
           violated == Told(e, FALSE)
<1>1. r.expectation.id = e.id /\ r.expectation.descriptions = d /\ r.outcomes = outcomes
  <2>1. r = [expectation |-> ExpectationReport(e), outcomes |-> outcomes]
    BY DEF NoMatchReport
  <2> HIDE DEF r, outcomes, d
  <2> QED BY <2>1, ReportOf DEF d
<1>2. paragraph = [id |-> e.id, violations |-> Violations(back), adherences |-> Adherences(front)]
  <2> HIDE DEF r, d, outcomes
  <2> QED BY <1>1, Zenon DEF NoMatchParagraph, r
<1>3. IsSequence(d) /\ DOMAIN d = DOMAIN e.policies /\ Len(d) = Len(e.policies)
  <2>1. d = [i \in DOMAIN e.policies |-> d[i]]
    BY DEF DescriptionsOf
  <2> HIDE DEF d
  <2> QED BY <2>1, SameLength
<1>4. /\ IsSequence(outcomes) /\ Len(outcomes) = Len(e.policies)
      /\ \A i \in DOMAIN e.policies : outcomes[i] = PolicyMatches(e.policies[i], info)
  <2>1. outcomes = [i \in DOMAIN e.policies |-> PolicyMatches(e.policies[i], info)]
    BY DEF RequirementOutcomes
  <2> HIDE DEF outcomes
  <2>2. outcomes = [i \in DOMAIN e.policies |-> outcomes[i]]
    BY <2>1
  <2>3. IsSequence(outcomes) /\ Len(outcomes) = Len(e.policies)
    BY <2>2, SameLength
  <2>4. \A i \in DOMAIN e.policies : outcomes[i] = PolicyMatches(e.policies[i], info)
    BY <2>1, Zenon
  <2> QED BY <2>3, <2>4
<1> HIDE DEF d, outcomes
<1>5. Splits(parts, d, outcomes)
  BY <1>3, <1>4, PartitionSplits
<1> HIDE DEF parts
<1>6. /\ Enumerates(front, d, {i \in DOMAIN d : outcomes[i]})
      /\ Enumerates(back, d, {i \in DOMAIN d : ~outcomes[i]})
  BY <1>3, <1>5, SplitEnumerates
<1>7. /\ {i \in DOMAIN d : outcomes[i]} = HoldingAt(e, TRUE)
      /\ {i \in DOMAIN d : ~outcomes[i]} = HoldingAt(e, FALSE)
  <2>1. \A i \in DOMAIN e.policies : Holds(e.policies[i]) <=> outcomes[i]
    BY <1>4, Zenon
  <2> QED BY <1>3, <2>1 DEF HoldingAt
<1> HIDE DEF front, back
<1>8. /\ Enumerates(adherent, d, HoldingAt(e, TRUE))
      /\ Enumerates(violated, d, HoldingAt(e, FALSE))
  BY ToldEnumerates DEF d
<1> HIDE DEF adherent, violated
<1>9. TellsSame(front, adherent)
  BY <1>6, <1>7, <1>8, TextsTell, Zenon
<1>10. TellsSame(back, violated)
  BY <1>6, <1>7, <1>8, TextsTell, Zenon
<1>11. /\ paragraph.id = e.id
       /\ paragraph.adherences = Picked(front, Described(front))
       /\ paragraph.violations.described = Picked(back, Described(back))
       /\ paragraph.violations.undescribed = Cardinality(DOMAIN back \ Described(back))
  BY <1>2 DEF Adherences, Violations
<1>12. TellsAllAdherences(paragraph, e)
  BY <1>9, <1>11, Zenon DEF TellsSame, TellsAllAdherences, adherent
<1> QED BY <1>10, <1>11, <1>12, Zenon DEF TellsSame, TellsOf, violated

\* Unmatched calls: what every paragraph tells, and who has one.
LEMMA NoMatchesTell ==
    ASSUME TruthfulInv, IsReporting, running.report.is = "no_matches"
    PROVE  /\ \A paragraph \in ToSet(StringifyNoMatches(running.report.expectations)) :
                 TellsOf(paragraph, ExpectationOf(paragraph))
           /\ \A at \in DOMAIN Candidates :
                 \/ Saturated(at)
                 \/ Raises(Candidates[at])
                 \/ \E paragraph \in ToSet(StringifyNoMatches(running.report.expectations)) :
                       paragraph.id = Candidates[at].id
<1> DEFINE s == running.noMatches
           info == running.info
           c == Candidates
           Shown(r) == r.expectation.control.is = "applicable"
           some == {i \in DOMAIN s : Shown(s[i])}
           shown == Picked(s, some)
           texts == StringifyNoMatches(s)
<1>1. running.overload # <<>>
  BY DEF TruthfulInv, CallInv
<1>2. /\ running.todo = 0 /\ running.matches = <<>> /\ running.inapplicable = <<>>
      /\ running.report.expectations = s
      /\ Sorted(running, c)
  <2>1. Reported(running, c) /\ Sorted(running, c)
    BY <1>1, ReportingCall
  <2> QED BY <2>1, Zenon DEF Reported
<1>3. IsSequence(s)
  BY <1>1 DEF TruthfulInv, JudgedInv, IsReporting
<1>4. texts = [i \in DOMAIN shown |-> NoMatchParagraph(shown[i])]
  BY Zenon DEF StringifyNoMatches, NoMatchParagraph
<1>5. Enumerates(shown, s, some)
  <2>1. Len(s) \in Nat /\ DOMAIN s = 1 .. Len(s)
    BY <1>3 DEF IsSequence
  <2>2. some \in SUBSET (1 .. Len(s))
    BY <2>1
  <2> HIDE DEF some, s
  <2> QED BY <2>1, <2>2, PickedEnumerates
<1> HIDE DEF texts, shown, some
<1>6. PICK order \in Bijection(DOMAIN shown, some) :
          \A k \in DOMAIN shown : shown[k] = s[order[k]]
  BY <1>5 DEF Enumerates
<1>7. /\ order \in [DOMAIN shown -> some]
      /\ \A i \in some : \E k \in DOMAIN shown : order[k] = i
  BY <1>6, Fun_BijectionProperties
<1>8. ASSUME NEW i \in DOMAIN shown
      PROVE  \E at \in DOMAIN c : ~Raises(c[at]) /\ shown[i] = NoMatchReport(c[at], info)
  <2>1. order[i] \in DOMAIN s
    BY <1>7 DEF some
  <2>2. PICK at \in DOMAIN c : ~Raises(c[at]) /\ s[order[i]] = NoMatchReport(c[at], info)
    BY <1>2, <2>1, Zenon DEF Sorted
  <2> QED BY <1>6, <2>2
<1>9. ASSUME NEW at \in DOMAIN c, ~Raises(c[at]),
             NEW paragraph, paragraph = NoMatchParagraph(NoMatchReport(c[at], info))
      PROVE  TellsOf(paragraph, ExpectationOf(paragraph)) /\ paragraph.id = c[at].id
  <2> DEFINE e == c[at]
  <2>1. IsSequence(e.policies) /\ \A i, j \in DOMAIN c : c[i].id = c[j].id => i = j
    BY <1>1, ReportingCall
  <2>2. \A i \in DOMAIN e.policies : Holds(e.policies[i]) <=> PolicyMatches(e.policies[i], info)
    BY <1>1, <1>9, OutcomesHold
  <2>3. TellsOf(paragraph, e) /\ paragraph.id = e.id
    <3> HIDE DEF e, info
    <3> QED BY <1>9, <2>1, <2>2, ParagraphTells DEF e
  <2>4. ExpectationOf(paragraph) = e
    BY <2>1, <2>3, FoundById
  <2> HIDE DEF e
  <2> QED BY <2>3, <2>4 DEF e
<1>10. ASSUME NEW paragraph \in ToSet(texts)
       PROVE  TellsOf(paragraph, ExpectationOf(paragraph))
  <2>1. PICK i \in DOMAIN shown : paragraph = NoMatchParagraph(shown[i])
    BY <1>4 DEF ToSet
  <2>2. PICK at \in DOMAIN c : ~Raises(c[at]) /\ shown[i] = NoMatchReport(c[at], info)
    BY <1>8
  <2> QED BY <1>9, <2>1, <2>2
<1>11. ASSUME NEW at \in DOMAIN c, ~Saturated(at), ~Raises(c[at])
       PROVE  \E paragraph \in ToSet(texts) : paragraph.id = c[at].id
  <2>1. IsApplicable(c[at])
    BY <1>11, ApplicableIs
  <2>2. at > running.todo
    BY <1>1, <1>2, ReportingCall
  <2>3. ~Fits(c[at], info)
    <3>1. Fits(c[at], info) => \E k \in DOMAIN running.matches : running.matches[k] = at
      BY <1>2, <2>1, <2>2, Zenon DEF Sorted
    <3> QED BY <1>2, <3>1, SequenceStarts
  <2>4. Refuses(c[at], info)
    BY <1>11, <2>3 DEF Fits
  <2>5. PICK j \in DOMAIN s : s[j] = NoMatchReport(c[at], info)
    BY <1>2, <1>11, <2>2, <2>4, Zenon DEF Sorted
  <2>6. j \in some
    <3>1. NoMatchReport(c[at], info).expectation = ExpectationReport(c[at])
      BY DEF NoMatchReport
    <3>2. ExpectationReport(c[at]).control = ControlState(c[at])
      BY ReportOf
    <3> HIDE DEF info, c, s
    <3> QED BY <2>1, <2>5, <3>1, <3>2 DEF IsApplicable, some, s
  <2>7. PICK i \in DOMAIN shown : order[i] = j
    BY <1>7, <2>6
  <2>8. shown[i] = NoMatchReport(c[at], info)
    BY <1>6, <2>5, <2>7
  <2>9. texts[i] \in ToSet(texts) /\ texts[i] = NoMatchParagraph(NoMatchReport(c[at], info))
    BY <1>4, <2>8 DEF ToSet
  <2>10. texts[i].id = c[at].id
    BY <1>9, <1>11, <2>9
  <2> QED BY <2>9, <2>10
<1>12. texts = StringifyNoMatches(running.report.expectations)
  BY <1>2 DEF texts
<1> QED BY <1>10, <1>11, <1>12

\* If matchers tell the truth, then so do reports: what is violated stands under the
\* violations, what holds under the adherences, nothing is left out but what has no text,
\* and that is counted (StringifyReports.hpp, partition_by).
THEOREM ReportsAreTrue ==
    Spec /\ []MatchersTellTheTruth => []ReportsTellTheTruth
<1>1. ASSUME TruthfulInv PROVE ReportsTellTheTruth
  <2>1. ASSUME IsReporting, IsCall PROVE running.report.call.args = running.given
    <3>1. Reported(running, Candidates)
      BY <1>1, <2>1, ReportingCall DEF IsCall
    <3> QED BY <3>1, Zenon DEF Reported
  <2>2. ASSUME IsReporting, running.report.is = "full_match",
               NEW paragraph \in ToSet(StringifyFullMatch(running.report.expectation))
        PROVE  TellsAllAdherences(paragraph, ExpectationOf(paragraph))
    BY <1>1, <2>2, FullMatchTells
  <2>3. ASSUME IsReporting, running.report.is = "inapplicable",
               NEW paragraph \in ToSet(StringifyInapplicableMatches(running.report.expectations))
        PROVE  /\ TellsAllAdherences(paragraph, ExpectationOf(paragraph))
               /\ paragraph.matched = ExpectationOf(paragraph).count
               /\ paragraph.matched >= paragraph.outOf
    BY <1>1, <2>3, InapplicableTells
  <2>4. ASSUME IsReporting, running.report.is = "no_matches"
        PROVE  LET paragraphs == StringifyNoMatches(running.report.expectations)
               IN  /\ \A paragraph \in ToSet(paragraphs) :
                         TellsOf(paragraph, ExpectationOf(paragraph))
                   /\ \A at \in DOMAIN Candidates :
                         \/ Saturated(at)
                         \/ Raises(Candidates[at])
                         \/ \E paragraph \in ToSet(paragraphs) :
                               paragraph.id = Candidates[at].id
    BY <1>1, <2>4, NoMatchesTell
  <2> QED BY <2>1, <2>2, <2>3, <2>4, Zenon DEF ReportsTellTheTruth, TellsOf, Raises
<1>2. AssertedInv => JudgedInv
  BY DEF AssertedInv
<1>3. /\ FrameInv /\ CallInv /\ ServingInv /\ BuiltInv /\ OutcomeInv /\ JudgedInv
      /\ MatchersTellTheTruth
      => ReportsTellTheTruth
  BY <1>1 DEF TruthfulInv
<1> QED BY <1>2, <1>3, FrameHolds, CallHolds, ServingHolds, BuiltHolds, OutcomeHolds,
           AssertedHolds, PTL

-----------------------------------------------------------------------------
\* What the algorithms compute that the predicates of matchers are made of.

\* Where std::ranges::mismatch stops.
LEMMA MismatchStops ==
    ASSUME NEW target, NEW pattern, IsSequence(target), IsSequence(pattern)
    PROVE  StartsWith(target, pattern)
              <=> \A i \in DOMAIN pattern : i <= Len(target) /\ target[i] = pattern[i]
<1> DEFINE n == Len(pattern)
           Differ(i) == i > Len(target) \/ target[i] # pattern[i]
           stops == {i \in DOMAIN pattern : Differ(i)} \cup {n + 1}
           m == Min(stops)
<1>1. n \in Nat /\ DOMAIN pattern = 1 .. n /\ Len(target) \in Nat
  BY DEF IsSequence
<1>2. stops \in SUBSET Nat /\ n + 1 \in stops
  BY <1>1
<1> HIDE DEF m
<1>3. m \in stops /\ \A k \in stops : m <= k
  BY <1>2, MinProperties DEF m
<1>4. ASSUME m = n + 1, NEW i \in DOMAIN pattern PROVE ~Differ(i)
  <2>1. ~(n + 1 <= i)
    BY <1>1
  <2>2. i \notin stops
    BY <1>3, <1>4, <2>1
  <2> QED BY <2>2
<1>5. ASSUME \A i \in DOMAIN pattern : ~Differ(i) PROVE m = n + 1
  BY <1>3, <1>5
<1>6. m = n + 1 <=> \A i \in DOMAIN pattern : ~Differ(i)
  BY <1>4, <1>5
<1>7. \A i \in DOMAIN pattern : ~Differ(i) <=> i <= Len(target) /\ target[i] = pattern[i]
  BY <1>1
<1>8. m = n + 1 <=> \A i \in DOMAIN pattern : i <= Len(target) /\ target[i] = pattern[i]
  BY <1>6, <1>7
<1> QED BY <1>8 DEF StartsWith, Mismatch, m, Differ

\* starts_with
LEMMA StartsWithIs ==
    ASSUME NEW target, NEW pattern, IsSequence(target), IsSequence(pattern)
    PROVE  StartsWith(target, pattern) <=> Starts(target, pattern, Same)
<1>1. /\ Len(pattern) \in Nat /\ DOMAIN pattern = 1 .. Len(pattern)
      /\ Len(target) \in Nat /\ DOMAIN target = 1 .. Len(target)
  BY DEF IsSequence
<1>2. \A i \in DOMAIN pattern : 0 + i = i /\ (i <= Len(target) <=> 0 + i \in DOMAIN target)
  BY <1>1
<1> QED BY <1>2, MismatchStops DEF Starts, StandsAfter, Same

\* A string ends with a pattern if the reversed one starts with its reverse.
LEMMA EndsWithIs ==
    ASSUME NEW target, NEW pattern, IsSequence(target), IsSequence(pattern)
    PROVE  EndsWith(target, pattern) <=> Ends(target, pattern, Same)
<1> DEFINE n == Len(target)
           m == Len(pattern)
<1>1. n \in Nat /\ DOMAIN target = 1 .. n /\ m \in Nat /\ DOMAIN pattern = 1 .. m
  BY DEF IsSequence
<1>2. /\ IsSequence(Reverse(target)) /\ Len(Reverse(target)) = n
      /\ \A i \in 1 .. n : Reverse(target)[i] = target[n - i + 1]
  BY <1>1 DEF Reverse, IsSequence
<1>3. /\ IsSequence(Reverse(pattern)) /\ DOMAIN Reverse(pattern) = 1 .. m
      /\ \A i \in 1 .. m : Reverse(pattern)[i] = pattern[m - i + 1]
  BY <1>1 DEF Reverse, IsSequence
<1> DEFINE Backwards == \A i \in 1 .. m : i <= n /\ target[n - i + 1] = pattern[m - i + 1]
           Forwards == \A j \in 1 .. m : n - m + j \in 1 .. n /\ target[n - m + j] = pattern[j]
<1>4. EndsWith(target, pattern) <=> Backwards
  <2>1. EndsWith(target, pattern) <=>
            \A i \in 1 .. m : i <= n /\ Reverse(target)[i] = Reverse(pattern)[i]
    <3> DEFINE rt == Reverse(target)
               rp == Reverse(pattern)
    <3>1. /\ IsSequence(rt) /\ IsSequence(rp)
          /\ Len(rt) = n /\ DOMAIN rp = 1 .. m
      BY <1>2, <1>3
    <3>2. EndsWith(target, pattern) <=> StartsWith(rt, rp)
      BY DEF EndsWith
    <3> HIDE DEF rt, rp
    <3>3. StartsWith(rt, rp) <=> \A i \in DOMAIN rp : i <= Len(rt) /\ rt[i] = rp[i]
      BY <3>1, MismatchStops
    <3> QED BY <3>1, <3>2, <3>3 DEF rt, rp
  <2>2. \A i \in 1 .. m : i <= n =>
            Reverse(target)[i] = target[n - i + 1] /\ Reverse(pattern)[i] = pattern[m - i + 1]
    BY <1>1, <1>2, <1>3
  <2> HIDE DEF n, m
  <2> QED BY <2>1, <2>2
<1>5. Ends(target, pattern, Same) <=> m <= n /\ Forwards
  BY <1>1 DEF Ends, StandsAfter, Same
<1>6. ASSUME Backwards PROVE m <= n /\ Forwards
  <2>1. m <= n
    <3>1. m = 0 \/ m \in 1 .. m
      BY <1>1
    <3> QED BY <1>1, <1>6, <3>1
  <2>2. ASSUME NEW j \in 1 .. m
        PROVE  n - m + j \in 1 .. n /\ target[n - m + j] = pattern[j]
    <3>1. m - j + 1 \in 1 .. m /\ n - (m - j + 1) + 1 = n - m + j /\ m - (m - j + 1) + 1 = j
      BY <1>1
    <3>2. n - m + j \in 1 .. n
      BY <1>1, <2>1
    <3> HIDE DEF n, m
    <3>3. target[n - (m - j + 1) + 1] = pattern[m - (m - j + 1) + 1]
      BY <1>6, <3>1
    <3> QED BY <3>1, <3>2, <3>3
  <2> HIDE DEF n, m
  <2> QED BY <2>1, <2>2
<1>7. ASSUME m <= n, Forwards PROVE Backwards
  <2>1. ASSUME NEW i \in 1 .. m
        PROVE  i <= n /\ target[n - i + 1] = pattern[m - i + 1]
    <3>1. m - i + 1 \in 1 .. m /\ n - m + (m - i + 1) = n - i + 1
      BY <1>1
    <3>2. i <= n
      BY <1>1, <1>7
    <3> HIDE DEF n, m
    <3>3. target[n - m + (m - i + 1)] = pattern[m - i + 1]
      BY <1>7, <3>1
    <3> QED BY <3>1, <3>2, <3>3
  <2> HIDE DEF n, m
  <2> QED BY <2>1
<1> HIDE DEF n, m, Backwards, Forwards
<1> QED BY <1>4, <1>5, <1>6, <1>7

\* std::ranges::search tries every position; the empty pattern is found anywhere.
LEMMA ContainsIs ==
    ASSUME NEW target, NEW pattern, IsSequence(target), IsSequence(pattern)
    PROVE  ContainsPattern(target, pattern) <=> Contains_(target, pattern, Same)
<1> DEFINE n == Len(target)
           Found(i) == StartsWith(SubSeq(target, i, n), pattern)
           Stands(k) == StandsAfter(target, pattern, k, Same)
           at == {i \in DOMAIN target : Found(i)}
           first == Min(at \cup {n + 1})
<1>1. /\ n \in Nat /\ DOMAIN target = 1 .. n
      /\ Len(pattern) \in Nat /\ DOMAIN pattern = 1 .. Len(pattern)
  BY DEF IsSequence
<1>2. ASSUME NEW i \in 1 .. n PROVE Found(i) <=> Stands(i - 1)
  <2> DEFINE part == SubSeq(target, i, n)
  <2>1. part = [k \in 1 .. n - i + 1 |-> target[i + k - 1]]
    BY <1>1
  <2>2. IsSequence(part) /\ Len(part) = n - i + 1
    BY <1>1, <2>1 DEF IsSequence
  <2>3. Found(i) <=> \A k \in DOMAIN pattern : k <= n - i + 1 /\ part[k] = pattern[k]
    <3> HIDE DEF part
    <3>1. StartsWith(part, pattern) <=>
              \A k \in DOMAIN pattern : k <= Len(part) /\ part[k] = pattern[k]
      BY <2>2, MismatchStops
    <3> QED BY <2>2, <3>1 DEF part
  <2>4. \A k \in DOMAIN pattern :
            /\ k <= n - i + 1 <=> i - 1 + k \in DOMAIN target
            /\ k <= n - i + 1 => part[k] = target[i - 1 + k]
    <3>1. \A k \in DOMAIN pattern : i + k - 1 = i - 1 + k
      BY <1>1
    <3> QED BY <1>1, <2>1, <3>1
  <2> HIDE DEF part, n
  <2> QED BY <2>3, <2>4 DEF StandsAfter, Same
<1>3. first <= n <=> \E i \in 1 .. n : Found(i)
  <2>1. at \cup {n + 1} \in SUBSET Nat /\ at \cup {n + 1} # {}
    BY <1>1
  <2> HIDE DEF first, Found
  <2>2. first \in at \cup {n + 1} /\ \A k \in at \cup {n + 1} : first <= k
    BY <2>1, MinProperties DEF first
  <2>3. ~(n + 1 <= n)
    BY <1>1
  <2>4. ASSUME first <= n PROVE \E i \in 1 .. n : Found(i)
    <3>1. first # n + 1
      BY <2>3, <2>4
    <3> QED BY <1>1, <2>2, <3>1
  <2>5. ASSUME NEW i \in 1 .. n, Found(i) PROVE first <= n
    <3>1. i \in at
      BY <1>1, <2>5
    <3>2. first <= i /\ i <= n /\ first \in Nat
      BY <1>1, <2>1, <2>2, <3>1
    <3> QED BY <1>1, <3>2
  <2> QED BY <2>4, <2>5
<1>4. ContainsPattern(target, pattern) <=> pattern = <<>> \/ \E i \in 1 .. n : Found(i)
  <2> HIDE DEF Found
  <2> QED BY <1>3 DEF ContainsPattern, Search, Found
<1>5. ASSUME pattern = <<>> PROVE Stands(0) /\ 0 \in 0 .. n
  BY <1>1, <1>5 DEF StandsAfter
<1>6. ASSUME NEW k \in 0 .. n, Stands(k), pattern # <<>> PROVE k + 1 \in 1 .. n /\ Found(k + 1)
  <2>1. Len(pattern) # 0
    BY <1>6 DEF IsSequence
  <2>2. 1 \in DOMAIN pattern
    BY <1>1, <2>1
  <2>3. k + 1 \in 1 .. n
    BY <1>1, <1>6, <2>2 DEF StandsAfter
  <2>4. Found(k + 1) <=> Stands(k + 1 - 1)
    <3> HIDE DEF Found, Stands
    <3> QED BY <1>2, <2>3
  <2>5. k + 1 - 1 = k
    BY <1>1
  <2> HIDE DEF Found, Stands
  <2> QED BY <1>6, <2>3, <2>4, <2>5
<1>7. ASSUME NEW i \in 1 .. n PROVE i - 1 \in 0 .. n
  BY <1>1
<1> HIDE DEF Found, Stands, n
<1>8. pattern = <<>> \/ (\E i \in 1 .. n : Found(i)) <=> \E k \in 0 .. n : Stands(k)
  BY <1>2, <1>5, <1>6, <1>7
<1> QED BY <1>4, <1>8 DEF Contains_, Stands, n

\* Letters are folded to the same one if they differ in their case only.
LEMMA FoldedAgree ==
    ASSUME NEW a, NEW b, NEW i \in DOMAIN a, NEW j \in DOMAIN b
    PROVE  Folded(a)[i] = Folded(b)[j] <=> SameLetter(a[i], b[j])
<1> DEFINE upper == [a |-> "A", b |-> "B"]
           Fold(c) == IF c \in DOMAIN upper THEN upper[c] ELSE c
<1>1. Folded(a)[i] = Fold(a[i]) /\ Folded(b)[j] = Fold(b[j])
  BY DEF Folded
<1>2. DOMAIN upper = {"a", "b"} /\ upper["a"] = "A" /\ upper["b"] = "B"
  OBVIOUS
<1>3. \A c : Fold(c) = IF c = "a" THEN "A" ELSE IF c = "b" THEN "B" ELSE c
  BY <1>2
<1> HIDE DEF Fold
<1>4. \A c, d : SameLetter(c, d) <=>
          c = d \/ (c = "a" /\ d = "A") \/ (c = "A" /\ d = "a")
                \/ (c = "b" /\ d = "B") \/ (c = "B" /\ d = "b")
  BY DEF SameLetter
<1>5. \A c, d : Fold(c) = Fold(d) <=> SameLetter(c, d)
  BY <1>3, <1>4
<1> QED BY <1>1, <1>5

\* Folding changes letters and nothing else.
LEMMA FoldedIsLike ==
    ASSUME NEW a, IsSequence(a)
    PROVE  /\ IsSequence(Folded(a)) /\ Len(Folded(a)) = Len(a)
           /\ DOMAIN Folded(a) = DOMAIN a
BY DEF Folded, IsSequence

\* Folded strings agree where the strings do without regard to the case.
LEMMA FoldedStands ==
    ASSUME NEW target, NEW pattern, IsSequence(target), IsSequence(pattern), NEW n
    PROVE  StandsAfter(Folded(target), Folded(pattern), n, Same)
              <=> StandsAfter(target, pattern, n, SameLetter)
<1>1. DOMAIN Folded(target) = DOMAIN target /\ DOMAIN Folded(pattern) = DOMAIN pattern
  BY FoldedIsLike
<1>2. \A i \in DOMAIN pattern : n + i \in DOMAIN target =>
          (Folded(target)[n + i] = Folded(pattern)[i] <=> SameLetter(target[n + i], pattern[i]))
  BY FoldedAgree
<1> QED BY <1>1, <1>2 DEF StandsAfter, Same

\* The predicates on strings, with and without regard to the case, accept what their
\* texts say (StringMatchers.hpp).
THEOREM StringPredicates ==
    ASSUME NEW target, NEW pattern, IsSequence(target), IsSequence(pattern)
    PROVE  LET t == Folded(target)
               p == Folded(pattern)
           IN  /\ StartsWith(target, pattern) <=> Starts(target, pattern, Same)
               /\ EndsWith(target, pattern) <=> Ends(target, pattern, Same)
               /\ ContainsPattern(target, pattern) <=> Contains_(target, pattern, Same)
               /\ t = p <=> Equals(target, pattern, SameLetter)
               /\ StartsWith(t, p) <=> Starts(target, pattern, SameLetter)
               /\ EndsWith(t, p) <=> Ends(target, pattern, SameLetter)
               /\ ContainsPattern(t, p) <=> Contains_(target, pattern, SameLetter)
<1> DEFINE t == Folded(target)
           p == Folded(pattern)
<1>1. /\ IsSequence(t) /\ Len(t) = Len(target) /\ DOMAIN t = DOMAIN target
      /\ IsSequence(p) /\ Len(p) = Len(pattern) /\ DOMAIN p = DOMAIN pattern
  BY FoldedIsLike
<1>2. \A n : StandsAfter(t, p, n, Same) <=> StandsAfter(target, pattern, n, SameLetter)
  BY FoldedStands
<1>3. t = p <=> Equals(target, pattern, SameLetter)
  <2>1. Equals(target, pattern, SameLetter) <=> Len(t) = Len(p) /\ StandsAfter(t, p, 0, Same)
    BY <1>1, <1>2, Zenon DEF Equals
  <2> HIDE DEF t, p
  <2>2. /\ Len(t) \in Nat /\ DOMAIN t = 1 .. Len(t) /\ t = [i \in 1 .. Len(t) |-> t[i]]
        /\ Len(p) \in Nat /\ DOMAIN p = 1 .. Len(p) /\ p = [i \in 1 .. Len(p) |-> p[i]]
    BY <1>1 DEF IsSequence
  <2>3. \A i \in DOMAIN p : 0 + i = i
    BY <2>2
  <2>4. ASSUME Len(t) = Len(p), StandsAfter(t, p, 0, Same) PROVE t = p
    <3>1. \A i \in 1 .. Len(p) : t[i] = p[i]
      BY <2>2, <2>3, <2>4 DEF StandsAfter, Same
    <3> QED BY <2>2, <2>4, <3>1
  <2>5. t = p => Len(t) = Len(p) /\ StandsAfter(t, p, 0, Same)
    BY <2>2, <2>3 DEF StandsAfter, Same
  <2> QED BY <2>1, <2>4, <2>5
<1> HIDE DEF t, p
<1>4. StartsWith(t, p) <=> Starts(target, pattern, SameLetter)
  <2>1. StartsWith(t, p) <=> Starts(t, p, Same)
    BY <1>1, StartsWithIs
  <2> QED BY <1>2, <2>1, Zenon DEF Starts
<1>5. EndsWith(t, p) <=> Ends(target, pattern, SameLetter)
  <2>1. EndsWith(t, p) <=> Ends(t, p, Same)
    BY <1>1, EndsWithIs
  <2> QED BY <1>1, <1>2, <2>1, Zenon DEF Ends
<1>6. ContainsPattern(t, p) <=> Contains_(target, pattern, SameLetter)
  <2>1. ContainsPattern(t, p) <=> Contains_(t, p, Same)
    BY <1>1, ContainsIs
  <2> QED BY <1>1, <1>2, <2>1, Zenon DEF Contains_
<1>7. /\ StartsWith(target, pattern) <=> Starts(target, pattern, Same)
      /\ EndsWith(target, pattern) <=> Ends(target, pattern, Same)
      /\ ContainsPattern(target, pattern) <=> Contains_(target, pattern, Same)
  BY StartsWithIs, EndsWithIs, ContainsIs
<1> QED BY <1>3, <1>4, <1>5, <1>6, <1>7 DEF t, p

-----------------------------------------------------------------------------
\* What is_sorted asks of neighbours holds of all elements (RangeMatchers.hpp).
THEOREM SortedPredicate ==
    ASSUME NEW target \in Seq(Int)
    PROVE  IsSortedRange(target) <=> Ascending(target)
<1> DEFINE n == Len(target)
           good == {d \in Nat : \A i \in 1 .. n : i + d <= n => target[i] <= target[i + d]}
<1>1. n \in Nat /\ DOMAIN target = 1 .. n /\ \A i \in 1 .. n : target[i] \in Int
  OBVIOUS
<1>2. ASSUME IsSortedRange(target) PROVE Ascending(target)
  <2>1. \A i \in 1 .. n : i + 1 <= n => target[i] <= target[i + 1]
    <3> SUFFICES ASSUME NEW i \in 1 .. n, i + 1 <= n PROVE target[i] <= target[i + 1]
      OBVIOUS
    <3>1. i \in 1 .. n - 1 /\ i + 1 \in 1 .. n
      BY <1>1
    <3>2. ~(target[i + 1] < target[i])
      BY <1>2, <3>1 DEF IsSortedRange
    <3> QED BY <1>1, <3>1, <3>2
  <2>2. 0 \in good
    BY <1>1
  <2>3. ASSUME NEW d \in good PROVE d + 1 \in good
    <3> SUFFICES ASSUME NEW i \in 1 .. n, i + (d + 1) <= n
                 PROVE  target[i] <= target[i + (d + 1)]
      OBVIOUS
    <3>1. d \in Nat /\ i + d \in 1 .. n /\ i + d + 1 <= n /\ i + (d + 1) = i + d + 1
          /\ i + d + 1 \in 1 .. n
      BY <1>1
    <3>2. target[i] <= target[i + d]
      BY <3>1, <2>3
    <3>3. target[i + d] <= target[i + d + 1]
      BY <2>1, <3>1
    <3>4. target[i] \in Int /\ target[i + d] \in Int /\ target[i + d + 1] \in Int
      BY <1>1, <3>1
    <3> QED BY <3>1, <3>2, <3>3, <3>4
  <2>4. good = Nat
    <3>1. good \in SUBSET Nat
      OBVIOUS
    <3> HIDE DEF good
    <3> QED BY <2>2, <2>3, <3>1, CountingUp
  <2> SUFFICES ASSUME NEW i \in 1 .. n, NEW j \in 1 .. n, i < j PROVE target[i] <= target[j]
    BY <1>1 DEF Ascending
  <2>5. j - i \in Nat /\ i + (j - i) = j /\ j <= n
    BY <1>1
  <2>6. j - i \in good
    <3> HIDE DEF good
    <3> QED BY <2>4, <2>5
  <2>7. i + (j - i) <= n => target[i] <= target[i + (j - i)]
    BY <2>6
  <2> QED BY <2>5, <2>7
<1>3. ASSUME Ascending(target) PROVE IsSortedRange(target)
  <2> SUFFICES ASSUME NEW i \in 1 .. n - 1 PROVE ~(target[i + 1] < target[i])
    BY DEF IsSortedRange
  <2>1. i \in 1 .. n /\ i + 1 \in 1 .. n /\ i < i + 1
    BY <1>1
  <2>2. target[i] <= target[i + 1]
    BY <1>1, <1>3, <2>1 DEF Ascending
  <2> QED BY <1>1, <2>1, <2>2
<1> QED BY <1>2, <1>3

\* is_permutation counts each element; what it finds equal can be paired off
\* (RangeMatchers.hpp).
THEOREM PermutationPredicate ==
    ASSUME NEW target, NEW range, IsSequence(target), IsSequence(range)
    PROVE  IsPermutationOf(target, range) <=> Rearranges(target, range)
<1> DEFINE D == DOMAIN target
           E == DOMAIN range
           In(x) == {i \in D : target[i] = x}
           Of(x) == {i \in E : range[i] = x}
<1>1. /\ Len(target) \in Nat /\ D = 1 .. Len(target)
      /\ Len(range) \in Nat /\ E = 1 .. Len(range)
  BY DEF IsSequence
<1>2. IsFiniteSet(D) /\ IsFiniteSet(E)
  BY <1>1, FS_Interval
<1>3. \A x : IsFiniteSet(In(x)) /\ IsFiniteSet(Of(x))
  <2> SUFFICES ASSUME NEW x PROVE IsFiniteSet(In(x)) /\ IsFiniteSet(Of(x))
    OBVIOUS
  <2>1. In(x) \in SUBSET D /\ Of(x) \in SUBSET E
    OBVIOUS
  <2> HIDE DEF In, Of, D, E
  <2> QED BY <1>2, <2>1, FS_Subset
<1>4. IsPermutationOf(target, range) <=>
          /\ Len(target) = Len(range)
          /\ \A x \in ToSet(target) : Cardinality(In(x)) = Cardinality(Of(x))
  BY DEF IsPermutationOf
<1>5. ASSUME Len(target) = Len(range),
             \A x \in ToSet(target) : Cardinality(In(x)) = Cardinality(Of(x))
      PROVE  Rearranges(target, range)
  <2> DEFINE pairing == [x \in ToSet(target) |-> CHOOSE f : f \in Bijection(In(x), Of(x))]
             to == [i \in D |-> pairing[target[i]][i]]
  <2>1. ASSUME NEW x \in ToSet(target) PROVE pairing[x] \in Bijection(In(x), Of(x))
    <3> HIDE DEF In, Of
    <3>1. ExistsBijection(In(x), Of(x))
      BY <1>3, <1>5, FS_SameCardinalityBij
    <3>2. \E f : f \in Bijection(In(x), Of(x))
      BY <3>1 DEF ExistsBijection
    <3> QED BY <3>2
  <2> HIDE DEF pairing
  <2>2. ASSUME NEW i \in D
        PROVE  target[i] \in ToSet(target) /\ i \in In(target[i]) /\ to[i] \in Of(target[i])
    <3>1. target[i] \in ToSet(target) /\ i \in In(target[i])
      BY DEF ToSet
    <3>2. pairing[target[i]] \in [In(target[i]) -> Of(target[i])]
      BY <2>1, <3>1, Fun_BijectionProperties
    <3> QED BY <3>1, <3>2
  <2>3. to \in [D -> E] /\ \A i \in D : target[i] = range[to[i]]
    BY <2>2
  <2>4. ASSUME NEW i \in D, NEW j \in D, to[i] = to[j] PROVE i = j
    <3>1. target[i] = target[j]
      BY <2>3, <2>4
    <3> DEFINE f == pairing[target[i]]
    <3>2. f \in Bijection(In(target[i]), Of(target[i]))
      BY <2>1, <2>2
    <3>3. \A a, b \in In(target[i]) : f[a] = f[b] => a = b
      <4> HIDE DEF f, In, Of
      <4> QED BY <3>2, Fun_BijectionProperties
    <3>4. i \in In(target[i]) /\ j \in In(target[i]) /\ f[i] = f[j]
      BY <2>4, <3>1
    <3> QED BY <3>3, <3>4
  <2> HIDE DEF to
  <2> QED BY <1>5, <2>3, <2>4 DEF Rearranges
<1>6. ASSUME Rearranges(target, range), NEW x \in ToSet(target)
      PROVE  Cardinality(In(x)) = Cardinality(Of(x))
  <2>1. D = E
    BY <1>1, <1>6 DEF Rearranges
  <2>2. PICK to \in [D -> E] :
            /\ \A i, j \in D : to[i] = to[j] => i = j
            /\ \A i \in D : target[i] = range[to[i]]
    BY <1>6 DEF Rearranges
  <2>3. \A k \in E : \E i \in D : to[i] = k
    <3> HIDE DEF D, E
    <3>1. to \in Injection(D, E)
      BY <2>2, Fun_IsInj
    <3>2. to \in Surjection(D, E)
      BY <1>2, <2>1, <3>1, FS_Injection
    <3> QED BY <3>2, Fun_SurjectionProperties
  <2> DEFINE part == [i \in In(x) |-> to[i]]
  <2>4. part \in [In(x) -> Of(x)]
    BY <2>2
  <2>5. \A a, b \in In(x) : part[a] = part[b] => a = b
    BY <2>2
  <2>6. ASSUME NEW k \in Of(x) PROVE \E i \in In(x) : part[i] = k
    BY <2>2, <2>3
  <2> HIDE DEF part, In, Of
  <2>7. part \in Bijection(In(x), Of(x))
    BY <2>4, <2>5, <2>6, Fun_IsBij
  <2>8. ExistsBijection(In(x), Of(x))
    BY <2>7 DEF ExistsBijection
  <2> QED BY <1>3, <2>8, FS_Bijection
<1> HIDE DEF In, Of
<1>7. Rearranges(target, range) => Len(target) = Len(range)
  BY DEF Rearranges
<1> QED BY <1>4, <1>5, <1>6, <1>7

-----------------------------------------------------------------------------
\* The comparison with an absolute epsilon (approx_abs).
THEOREM ApproxAbsPredicate ==
    ASSUME NEW x, x.value \in Int, NEW value \in Int, NEW epsilon \in Int
    PROVE  FpAtMost(FpDistance(x, value), epsilon) <=> Near(x, value, epsilon)
<1> DEFINE n == x.value - value
<1>1. n \in Int /\ Abs(n) \in Int /\ (Abs(n) <= epsilon <=> -epsilon <= n /\ n <= epsilon)
  BY DEF Abs
<1>2. x.value \in value - epsilon .. value + epsilon <=> -epsilon <= n /\ n <= epsilon
  OBVIOUS
<1>3. CASE x.class = "finite"
  <2>1. FpAtMost(FpDistance(x, value), epsilon) <=> Abs(n) <= epsilon
    BY <1>3 DEF FpAtMost, FpDistance, Fp
  <2> QED BY <1>1, <1>2, <1>3, <2>1 DEF Near
<1>4. CASE x.class # "finite"
  BY <1>4 DEF FpAtMost, FpDistance, Near
<1> QED BY <1>3, <1>4

\* A factor that is not negative keeps the order.
LEMMA TimesKeepsOrder ==
    ASSUME NEW e \in Nat, NEW k \in Int, NEW m \in Int, k <= m
    PROVE  e * k <= e * m
<1>1. m - k \in Nat /\ e * (m - k) >= 0
  OBVIOUS
<1>2. e * m = e * k + e * (m - k)
  OBVIOUS
<1> QED BY <1>1, <1>2

\* The comparison with a percentage of the larger operand (approx_rel), which
\* check_fp_epsilon keeps from being negative.
THEOREM ApproxRelPredicate ==
    ASSUME NEW x, x.value \in Int, NEW value \in Int, NEW epsilon \in Nat
    PROVE  LET distance == FpDistance(x, value)
               larger == Max({Abs(x.value), Abs(value)})
           IN  FpAtMost([distance EXCEPT !.value = 100 * @], epsilon * larger)
                   <=> NearRelative(x, value, epsilon)
<1> DEFINE n == x.value - value
           distance == FpDistance(x, value)
           larger == Max({Abs(x.value), Abs(value)})
           both == {x.value, -x.value, value, -value}
           Within(l) == 100 * x.value \in 100 * value - epsilon * l .. 100 * value + epsilon * l
<1>1. larger \in both /\ \A l \in both : l <= larger
  <2> DEFINE S == {Abs(x.value), Abs(value)}
  <2>1. Abs(x.value) \in Nat /\ Abs(value) \in Nat
    BY DEF Abs
  <2>2. Abs(x.value) + Abs(value) \in Nat /\ S \in SUBSET (0 .. Abs(x.value) + Abs(value)) /\ S # {}
    BY <2>1
  <2>3. Max(S) \in S /\ \A k \in S : k <= Max(S)
    <3> HIDE DEF S
    <3> QED BY <2>2, MaxProperties
  <2>4. Max(S) \in Int /\ Abs(x.value) <= Max(S) /\ Abs(value) <= Max(S)
        /\ (Max(S) = Abs(x.value) \/ Max(S) = Abs(value))
    BY <2>1, <2>3
  <2>5. /\ Abs(x.value) \in {x.value, -x.value} /\ Abs(value) \in {value, -value}
        /\ x.value <= Abs(x.value) /\ -x.value <= Abs(x.value)
        /\ value <= Abs(value) /\ -value <= Abs(value)
    BY DEF Abs
  <2>6. larger = Max(S)
    OBVIOUS
  <2> HIDE DEF S, larger
  <2> QED BY <2>1, <2>4, <2>5, <2>6
<1> HIDE DEF larger
<1>2. /\ n \in Int /\ Abs(n) \in Int /\ larger \in Int
      /\ \A l \in both : l \in Int /\ epsilon * l \in Int
      /\ \A b \in Int : 100 * Abs(n) <= b <=> -b <= 100 * n /\ 100 * n <= b
  BY <1>1 DEF Abs
<1>3. \A l \in both : Within(l) <=> -(epsilon * l) <= 100 * n /\ 100 * n <= epsilon * l
  BY <1>2
<1>4. \A l \in both : Within(l) <=> 100 * Abs(n) <= epsilon * l
  BY <1>2, <1>3
<1>5. (\E l \in both : Within(l)) <=> 100 * Abs(n) <= epsilon * larger
  <2> HIDE DEF n, both, Within
  <2>1. ASSUME NEW l \in both, 100 * Abs(n) <= epsilon * l
        PROVE  100 * Abs(n) <= epsilon * larger
    <3>1. epsilon * l <= epsilon * larger
      BY <1>1, <1>2, TimesKeepsOrder
    <3>2. epsilon * larger \in Int /\ epsilon * l \in Int /\ 100 * Abs(n) \in Int
      BY <1>1, <1>2
    <3> DEFINE p == epsilon * larger
               q == epsilon * l
               r == 100 * Abs(n)
    <3> HIDE DEF p, q, r
    <3>3. q <= p /\ r <= q /\ p \in Int /\ q \in Int /\ r \in Int
      BY <2>1, <3>1, <3>2 DEF p, q, r
    <3>4. r <= p
      BY <3>3
    <3> QED BY <3>4 DEF p, r
  <2> QED BY <1>1, <1>4, <2>1
<1>6. CASE x.class = "finite"
  <2>1. [distance EXCEPT !.value = 100 * @] = [class |-> "finite", value |-> 100 * Abs(n)]
    BY <1>6 DEF FpDistance, Fp
  <2>2. FpAtMost([distance EXCEPT !.value = 100 * @], epsilon * larger)
            <=> 100 * Abs(n) <= epsilon * larger
    <3> HIDE DEF n, distance
    <3> QED BY <2>1 DEF FpAtMost
  <2> QED BY <1>5, <1>6, <2>2 DEF NearRelative, larger
<1>7. CASE x.class # "finite"
  <2> DEFINE scaled == [distance EXCEPT !.value = 100 * @]
  <2>1. distance = x
    BY <1>7 DEF FpDistance
  <2>2. scaled.class = x.class
    BY <2>1
  <2> HIDE DEF scaled
  <2>3. ~FpAtMost(scaled, epsilon * larger)
    BY <1>7, <2>2 DEF FpAtMost
  <2> QED BY <1>7, <2>3 DEF NearRelative, scaled, larger
<1> QED BY <1>6, <1>7

=============================================================================
