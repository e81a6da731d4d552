----------------------------- MODULE ChoiceProofs -----------------------------
(***************************************************************************)
(* Which of several matching expectations a call uses, proved for any      *)
(* number of expectations and sequences: first what can be said of the     *)
(* match that find_best_match chooses, then what follows for calls.        *)
(***************************************************************************)
EXTENDS ExpectationsProofs, FoldProofs

-----------------------------------------------------------------------------
\* The fold behind FindBestMatch.

Better(rating, e, best) ==
    IF HasBetterRating(rating[best], rating[e]) THEN best ELSE e

\* g says for every part of T which of its members, or newest, is the best.
FoldsTo(g, T, newest, rating) ==
    g = [s \in SUBSET T |->
            IF s = {} THEN newest
            ELSE Better(rating, Min(s), g[s \ {Min(s)}])]

\* The fold takes one more, older match.
LEMMA BestExtends ==
    ASSUME NEW T \in SUBSET Nat, NEW e \in Nat, \A f \in T : e < f,
           NEW newest, NEW rating, NEW g, FoldsTo(g, T, newest, rating)
    PROVE  \E h : FoldsTo(h, T \cup {e}, newest, rating)
<1> DEFINE h == [s \in SUBSET (T \cup {e}) |->
                    IF e \in s THEN Better(rating, e, g[s \ {e}]) ELSE g[s]]
<1>1. ASSUME NEW s \in SUBSET T
      PROVE  g[s] = IF s = {} THEN newest
                    ELSE Better(rating, Min(s), g[s \ {Min(s)}])
  BY Zenon DEF FoldsTo
<1>2. e \notin T
  OBVIOUS
<1>3. ASSUME NEW s \in SUBSET (T \cup {e})
      PROVE  h[s] = IF s = {} THEN newest
                    ELSE Better(rating, Min(s), h[s \ {Min(s)}])
  <2>1. CASE e \in s
    <3>1. s \in SUBSET Nat /\ \A l \in s : e <= l
      OBVIOUS
    <3>2. Min(s) = e
      BY <2>1, <3>1, MinIs
    <3>3. s \ {e} \in SUBSET T /\ s \ {e} \in SUBSET (T \cup {e}) /\ e \notin s \ {e}
      OBVIOUS
    <3>4. h[s \ {e}] = g[s \ {e}]
      BY <3>3
    <3>5. h[s] = Better(rating, e, g[s \ {e}])
      BY <2>1
    <3> QED BY <2>1, <3>2, <3>4, <3>5
  <2>2. CASE e \notin s
    <3>1. s \in SUBSET T
      BY <2>2
    <3>2. h[s] = g[s]
      BY <2>2
    <3>3. CASE s = {}
      BY <1>1, <3>1, <3>2, <3>3
    <3>4. CASE s # {}
      <4>1. s \ {Min(s)} \in SUBSET T /\ s \ {Min(s)} \in SUBSET (T \cup {e})
            /\ e \notin s \ {Min(s)}
        BY <2>2, <3>1
      <4>2. h[s \ {Min(s)}] = g[s \ {Min(s)}]
        BY <4>1
      <4> QED BY <1>1, <3>1, <3>2, <3>4, <4>2
    <3> QED BY <3>3, <3>4
  <2> QED BY <2>1, <2>2
<1>4. h = [s \in SUBSET (T \cup {e}) |->
              IF s = {} THEN newest
              ELSE Better(rating, Min(s), h[s \ {Min(s)}])]
  <2> HIDE DEF h
  <2>1. h = [s \in SUBSET (T \cup {e}) |-> h[s]]
    BY DEF h
  <2> QED BY <1>3, <2>1
<1> HIDE DEF h
<1>5. FoldsTo(h, T \cup {e}, newest, rating)
  BY <1>4, Zenon DEF FoldsTo
<1> QED BY <1>5

\* The members of S, of which all are at most N, that are larger than N - j.
Newest(S, N, j) == {x \in S : x > N - j}

\* Visiting one more creation number adds it, if it is that of a match.
LEMMA NewestGrow ==
    ASSUME NEW N \in Nat, NEW S \in SUBSET (0 .. N), NEW j \in Nat
    PROVE  /\ Newest(S, N, 0) = {}
           /\ Newest(S, N, N + 1) = S
           /\ Newest(S, N, j) \in SUBSET S
           /\ \/ Newest(S, N, j + 1) = Newest(S, N, j)
              \/ /\ Newest(S, N, j + 1) = Newest(S, N, j) \cup {N - j}
                 /\ N - j \in S
                 /\ \A f \in Newest(S, N, j) : N - j < f
<1>1. \A x \in S : x \in 0 .. N
  OBVIOUS
<1>2. Newest(S, N, 0) = {} /\ Newest(S, N, N + 1) = S
  <2>1. \A x \in S : ~(x > N - 0) /\ x > N - (N + 1)
    BY <1>1
  <2> QED BY <2>1, Zenon DEF Newest
<1>3. \A x \in S : x > N - (j + 1) <=> x > N - j \/ x = N - j
  BY <1>1
<1>4. CASE N - j \in S
  BY <1>2, <1>3, <1>4 DEF Newest
<1>5. CASE N - j \notin S
  BY <1>2, <1>3, <1>5 DEF Newest
<1> QED BY <1>4, <1>5

\* The fold is defined for every set of matches.
LEMMA BestExists ==
    ASSUME NEW N \in Nat, NEW S \in SUBSET (0 .. N), NEW newest, NEW rating
    PROVE  \E g : FoldsTo(g, S, newest, rating)
<1> DEFINE good == {j \in Nat : \E g : FoldsTo(g, Newest(S, N, j), newest, rating)}
<1>1. 0 \in good
  <2>1. [s \in SUBSET {} |-> newest]
            = [s \in SUBSET {} |-> IF s = {} THEN newest
                  ELSE Better(rating, Min(s), [t \in SUBSET {} |-> newest][s \ {Min(s)}])]
    OBVIOUS
  <2>2. FoldsTo([s \in SUBSET {} |-> newest], {}, newest, rating)
    BY <2>1, Zenon DEF FoldsTo
  <2>3. Newest(S, N, 0) = {}
    BY NewestGrow
  <2> QED BY <2>2, <2>3
<1>2. ASSUME NEW j \in good PROVE j + 1 \in good
  <2>1. PICK g : FoldsTo(g, Newest(S, N, j), newest, rating)
    OBVIOUS
  <2>2. CASE Newest(S, N, j + 1) = Newest(S, N, j)
    BY <2>1, <2>2
  <2>3. CASE /\ Newest(S, N, j + 1) = Newest(S, N, j) \cup {N - j}
             /\ N - j \in S
             /\ \A f \in Newest(S, N, j) : N - j < f
    <3>1. Newest(S, N, j) \in SUBSET Nat /\ N - j \in Nat
      <4>1. j \in Nat
        OBVIOUS
      <4> HIDE DEF good
      <4>2. Newest(S, N, j) \in SUBSET S
        BY <4>1, NewestGrow
      <4>3. S \in SUBSET Nat
        OBVIOUS
      <4> QED BY <2>3, <4>2, <4>3
    <3>2. \E h : FoldsTo(h, Newest(S, N, j) \cup {N - j}, newest, rating)
      BY <2>1, <2>3, <3>1, BestExtends
    <3> QED BY <2>3, <3>2
  <2> QED BY <2>2, <2>3, NewestGrow
<1>3. good \in SUBSET Nat
  OBVIOUS
<1> HIDE DEF good
<1>4. good = Nat
  BY <1>1, <1>2, <1>3, CountingUp
<1>5. N + 1 \in good
  BY <1>4
<1>6. Newest(S, N, N + 1) = S
  BY NewestGrow
<1> QED BY <1>5, <1>6 DEF good

\* FindBestMatch is such a fold over the matches beside the newest.
LEMMA FindBestMatchFolds ==
    ASSUME NEW N \in Nat, NEW matches \in SUBSET (0 .. N), matches # {}, NEW rating
    PROVE  LET newest == Max(matches)
               rest == matches \ {newest}
           IN  \E g : /\ FoldsTo(g, rest, newest, rating)
                      /\ FindBestMatch(matches, rating) = g[rest]
<1> DEFINE newest == Max(matches)
           rest == matches \ {newest}
           g == CHOOSE iter :
                    iter = [s \in SUBSET rest |->
                               IF s = {} THEN newest
                               ELSE Better(rating, Min(s), iter[s \ {Min(s)}])]
<1>1. rest \in SUBSET (0 .. N)
  OBVIOUS
<1>2. FindBestMatch(matches, rating) = g[rest]
  BY Zenon DEF FindBestMatch, MapThenFoldSet, Better
<1> HIDE DEF newest, rest
<1>3. \E h : FoldsTo(h, rest, newest, rating)
  BY <1>1, BestExists
<1>4. FoldsTo(g, rest, newest, rating)
  BY <1>3, Zenon DEF FoldsTo
<1> HIDE DEF g
<1> QED BY <1>2, <1>4, Zenon DEF newest, rest

\* A rule for proofs about find_best_match.  I relates the matches that were
\* visited to the best of them: it holds of the newest alone, and each older match
\* that is visited keeps it.
LEMMA BestMatchInduction ==
    ASSUME NEW N \in Nat, NEW matches \in SUBSET (0 .. N), matches # {}, NEW rating,
           NEW I,
           <<{Max(matches)}, Max(matches)>> \in I,
           \A visited \in SUBSET matches, best \in matches, e \in matches :
               <<visited, best>> \in I /\ (\A f \in visited : e < f)
                   => <<visited \cup {e}, Better(rating, e, best)>> \in I
    PROVE  /\ <<matches, FindBestMatch(matches, rating)>> \in I
           /\ FindBestMatch(matches, rating) \in matches
<1> DEFINE newest == Max(matches)
           rest == matches \ {newest}
<1>1. newest \in matches /\ \A k \in matches : k <= newest
  BY MaxProperties
<1>2. PICK g : /\ FoldsTo(g, rest, newest, rating)
               /\ FindBestMatch(matches, rating) = g[rest]
  BY FindBestMatchFolds
<1> DEFINE Kept(s) == g[s] \in matches /\ <<s \cup {newest}, g[s]>> \in I
           good == {j \in Nat : \A s \in SUBSET Newest(rest, N, j) : Kept(s)}
<1> HIDE DEF newest
<1>3. rest \in SUBSET (0 .. N) /\ \A x \in rest : x < newest
  BY <1>1
<1>4. <<{newest}, newest>> \in I
  BY DEF newest
<1>5. ASSUME NEW s \in SUBSET rest
      PROVE  g[s] = IF s = {} THEN newest
                    ELSE Better(rating, Min(s), g[s \ {Min(s)}])
  BY <1>2, Zenon DEF FoldsTo
<1> HIDE DEF rest
<1>6. 0 \in good
  <2>1. Newest(rest, N, 0) = {}
    BY <1>3, NewestGrow
  <2>2. g[{}] = newest
    BY <1>5
  <2>3. {} \cup {newest} = {newest}
    OBVIOUS
  <2>4. Kept({})
    BY <1>1, <1>4, <2>2, <2>3
  <2> HIDE DEF Kept
  <2> QED BY <2>1, <2>4
<1>7. ASSUME NEW j \in good PROVE j + 1 \in good
  <2>1. \A s \in SUBSET Newest(rest, N, j) : Kept(s)
    OBVIOUS
  <2>2. CASE Newest(rest, N, j + 1) = Newest(rest, N, j)
    <3> HIDE DEF Kept
    <3> QED BY <2>1, <2>2
  <2>3. CASE /\ Newest(rest, N, j + 1) = Newest(rest, N, j) \cup {N - j}
             /\ N - j \in rest
             /\ \A f \in Newest(rest, N, j) : N - j < f
    <3> DEFINE e == N - j
    <3>1. Newest(rest, N, j) \in SUBSET rest
      BY <1>3, NewestGrow
    <3>2. e \in rest /\ e \in Nat /\ e \in matches /\ e < newest
      BY <1>3, <2>3 DEF rest
    <3>3. /\ Newest(rest, N, j + 1) = Newest(rest, N, j) \cup {e}
          /\ \A f \in Newest(rest, N, j) : e < f
      BY <2>3
    <3> HIDE DEF e
    <3>4. ASSUME NEW s \in SUBSET (Newest(rest, N, j) \cup {e}), e \in s PROVE Kept(s)
      <4> DEFINE r == s \ {e}
      <4>1. r \in SUBSET Newest(rest, N, j) /\ s \in SUBSET rest
        BY <3>1, <3>2
      <4>2. \A f \in r : e < f
        BY <3>3, <4>1
      <4>3. s \in SUBSET Nat /\ \A f \in s : e <= f
        BY <1>3, <3>2, <4>1, <4>2
      <4>4. Min(s) = e
        BY <3>4, <4>3, MinIs
      <4>5. g[s] = Better(rating, e, g[r])
        BY <1>5, <3>4, <4>1, <4>4
      <4>6. g[r] \in matches /\ <<r \cup {newest}, g[r]>> \in I
        BY <2>1, <4>1
      <4>7. r \cup {newest} \in SUBSET matches /\ \A f \in r \cup {newest} : e < f
        BY <1>1, <3>2, <4>1, <4>2 DEF rest
      <4>8. <<(r \cup {newest}) \cup {e}, Better(rating, e, g[r])>> \in I
        BY <3>2, <4>6, <4>7
      <4>9. (r \cup {newest}) \cup {e} = s \cup {newest}
        BY <3>4
      <4>10. Better(rating, e, g[r]) \in matches
        BY <3>2, <4>6 DEF Better
      <4> QED BY <4>5, <4>8, <4>9, <4>10
    <3>5. ASSUME NEW s \in SUBSET (Newest(rest, N, j) \cup {e}), e \notin s PROVE Kept(s)
      <4>1. s \in SUBSET Newest(rest, N, j)
        BY <3>5
      <4> HIDE DEF Kept
      <4> QED BY <2>1, <4>1
    <3> HIDE DEF Kept
    <3> QED BY <3>3, <3>4, <3>5
  <2> QED BY <1>3, <2>2, <2>3, NewestGrow
<1>8. good \in SUBSET Nat
  OBVIOUS
<1> HIDE DEF good
<1>9. N + 1 \in good
  <2>1. good = Nat
    BY <1>6, <1>7, <1>8, CountingUp
  <2> QED BY <2>1
<1>10. Newest(rest, N, N + 1) = rest
  BY <1>3, NewestGrow
<1>11. Kept(rest)
  <2> HIDE DEF Kept
  <2> QED BY <1>9, <1>10 DEF good
<1>12. rest \cup {newest} = matches
  BY <1>1 DEF rest
<1> QED BY <1>2, <1>11, <1>12 DEF rest

-----------------------------------------------------------------------------

\* A step that uses an expectation is a full match, and the expectation is the
\* best of the matches.
LEMMA UsedIsBest ==
    ASSUME IInv, [Next]_vars, NEW e, Used(e)
    PROVE  /\ e \in DOMAIN exps
           /\ Candidates(e) \in SUBSET (0 .. Len(exps)) /\ Candidates(e) # {}
           /\ Candidates(e) \subseteq DOMAIN exps
           /\ \A c \in Candidates(e) : IsApplicable(exps[c])
           /\ e \in Candidates(e)
           /\ e = BestMatch(Candidates(e))
<1>1. TypeOK /\ e \in DOMAIN exps /\ exps'[e].count # exps[e].count
      /\ Len(exps) \in Nat /\ DOMAIN exps = 1 .. Len(exps)
  BY DEF IInv, Used, TypeOK
<1>2. PICK m \in Mocks, a \in Args, effect \in SideEffects : FullMatch(m, a, effect)
  <2>1. ASSUME NEW m \in Mocks, NEW S \in Attachments, NEW l \in Limits, NEW v \in Verdicts,
               Create(m, S, l, v)
        PROVE  FALSE
    <3>1. \E x : exps' = Append(exps, x)
      BY <2>1 DEF Create
    <3>2. exps'[e] = exps[e]
      BY <1>1, <3>1 DEF TypeOK
    <3> QED BY <1>1, <3>2
  <2>2. ASSUME NEW f \in DOMAIN exps, Remove(f) PROVE FALSE
    <3>1. exps'[e].count = exps[e].count
      BY <1>1, <2>2, TypeFacts DEF Remove, ExpectationRecords, TypeOK
    <3> QED BY <1>1, <3>1
  <2>3. ASSUME UNCHANGED exps PROVE FALSE
    BY <1>1, <2>3
  <2> QED BY <2>1, <2>2, <2>3 DEF Next, vars, CreateInFullSequence, Inapplicable, NoMatch
<1>3. PICK f \in Matches(m, a) :
          /\ f = BestMatch(Matches(m, a))
          /\ ConsumeExpectation(f, effect)
  BY <1>2 DEF FullMatch
<1>4. last'.arg = a
  BY <1>2 DEF FullMatch, Report
<1>5. f \in DOMAIN exps /\ exps[f].mock = m
      /\ Matches(m, a) \subseteq DOMAIN exps
      /\ \A c \in Matches(m, a) : IsApplicable(exps[c])
  BY <1>3 DEF Matches, Accepting, Live
<1>6. e = f
  <2> SUFFICES ASSUME e # f PROVE FALSE
    OBVIOUS
  <2>1. exps'[e] = exps[e]
    BY <1>1, <1>3, <1>5 DEF ConsumeExpectation
  <2> QED BY <1>1, <2>1
<1>7. Candidates(e) = Matches(m, a)
  BY <1>4, <1>5, <1>6 DEF Candidates
<1> QED BY <1>1, <1>3, <1>5, <1>6, <1>7

\* The rating of a candidate is about its sequences.
LEMMA RatedSequences ==
    ASSUME NEW c, NEW matches, c \in matches
    PROVE  LET rating == [e \in matches |-> SequenceRatings(exps[e])]
           IN  DOMAIN rating[c] = SequencesOf(exps[c])
  BY DEF SequenceRatings

-----------------------------------------------------------------------------
\* "If two or more expectations would match a call, the last created one is used",
\* as long as that one is in no sequence.
THEOREM NewestIsUsed == Spec => LastCreatedIsUsed
<1>1. IInv /\ [Next]_vars =>
        [\A e \in DOMAIN exps : Used(e) =>
            LET newest == Max(Candidates(e))
            IN  SequencesOf(exps[newest]) = {} => e = newest]_vars
  <2> SUFFICES ASSUME IInv, [Next]_vars, NEW e \in DOMAIN exps, Used(e),
                      SequencesOf(exps[Max(Candidates(e))]) = {}
               PROVE  e = Max(Candidates(e))
    OBVIOUS
  <2> DEFINE matches == Candidates(e)
             newest == Max(matches)
             rating == [c \in matches |-> SequenceRatings(exps[c])]
             I == {p \in (SUBSET matches) \X matches : p[2] = newest}
  <2>1. /\ matches \in SUBSET (0 .. Len(exps)) /\ matches # {} /\ Len(exps) \in Nat
        /\ e = FindBestMatch(matches, rating)
    BY UsedIsBest DEF BestMatch, IInv, TypeOK
  <2>2. newest \in matches
    <3> HIDE DEF matches
    <3> QED BY <2>1, MaxProperties
  <2>3. DOMAIN rating[newest] = {}
    BY <2>2, RatedSequences
  <2> HIDE DEF matches, rating, newest
  <2>4. <<{newest}, newest>> \in I
    BY <2>2
  <2>5. \A c : HasBetterRating(rating[newest], rating[c])
    BY <2>3, FS_EmptySet DEF HasBetterRating
  <2>6. \A visited \in SUBSET matches, best \in matches, c \in matches :
            <<visited, best>> \in I /\ (\A f \in visited : c < f)
                => <<visited \cup {c}, Better(rating, c, best)>> \in I
    BY <2>2, <2>5 DEF Better
  <2> HIDE DEF I
  <2>7. <<matches, FindBestMatch(matches, rating)>> \in I
    BY <2>1, <2>4, <2>6, BestMatchInduction DEF newest
  <2> QED BY <2>1, <2>7 DEF I, newest, matches
<1> QED BY <1>1, Bookkeeping, PTL DEF Spec, LastCreatedIsUsed

\* The newest candidate gives way only to one that is in all of its sequences,
\* through any chain of candidates in between (find_best_match, has_better_rating).
THEOREM NewestYields == Spec => NewestYieldsOnlyWithinItsSequences
<1>1. IInv /\ [Next]_vars =>
        [\A e \in DOMAIN exps : Used(e) =>
            SequencesOf(exps[Max(Candidates(e))]) \subseteq SequencesOf(exps[e])]_vars
  <2> SUFFICES ASSUME IInv, [Next]_vars, NEW e \in DOMAIN exps, Used(e)
               PROVE  SequencesOf(exps[Max(Candidates(e))]) \subseteq SequencesOf(exps[e])
    OBVIOUS
  <2> DEFINE matches == Candidates(e)
             newest == Max(matches)
             rating == [c \in matches |-> SequenceRatings(exps[c])]
             I == {p \in (SUBSET matches) \X matches :
                      DOMAIN rating[newest] \subseteq DOMAIN rating[p[2]]}
  <2>1. /\ matches \in SUBSET (0 .. Len(exps)) /\ matches # {} /\ Len(exps) \in Nat
        /\ e = FindBestMatch(matches, rating)
    BY UsedIsBest DEF BestMatch, IInv, TypeOK
  <2>2. newest \in matches
    <3> HIDE DEF matches
    <3> QED BY <2>1, MaxProperties
  <2>3. \A c \in matches : DOMAIN rating[c] = SequencesOf(exps[c])
    BY RatedSequences
  <2> HIDE DEF matches, rating, newest
  <2>4. <<{newest}, newest>> \in I
    BY <2>2
  <2>5. ASSUME NEW c, NEW best, ~HasBetterRating(rating[best], rating[c])
        PROVE  DOMAIN rating[best] \subseteq DOMAIN rating[c]
    BY <2>5 DEF HasBetterRating
  <2>6. \A visited \in SUBSET matches, best \in matches, c \in matches :
            <<visited, best>> \in I /\ (\A f \in visited : c < f)
                => <<visited \cup {c}, Better(rating, c, best)>> \in I
    BY <2>2, <2>5 DEF Better
  <2> HIDE DEF I
  <2>7. <<matches, FindBestMatch(matches, rating)>> \in I
    BY <2>1, <2>4, <2>6, BestMatchInduction DEF newest
  <2>8. DOMAIN rating[newest] \subseteq DOMAIN rating[e] /\ e \in matches
    BY <2>1, <2>7 DEF I
  <2> QED BY <2>2, <2>3, <2>8 DEF newest, matches
<1> QED BY <1>1, Bookkeeping, PTL DEF Spec, NewestYieldsOnlyWithinItsSequences

-----------------------------------------------------------------------------
\* Strategies.  An expectation in several sequences is chosen by their majority;
\* of a single sequence the strategy decides alone.

OneSequenceEach == \A S \in Attachments : \A s, t \in S : s = t

AttachedToOne ==
    \A e \in DOMAIN exps : \A s, t \in SequencesOf(exps[e]) : s = t

\* Only creating an expectation attaches it to sequences.
LEMMA StepKeepsAttachedToOne ==
    ASSUME OneSequenceEach, IInv, AttachedToOne, [Next]_vars
    PROVE  AttachedToOne'
<1>1. TypeOK /\ Len(exps) \in Nat /\ DOMAIN exps = 1 .. Len(exps)
  BY DEF IInv, TypeOK
<1>2. ASSUME NEW m \in Mocks, NEW S \in Attachments, NEW l \in Limits, NEW v \in Verdicts,
             Create(m, S, l, v)
      PROVE  AttachedToOne'
  <2> DEFINE x == NewExpectation(m, S, l, v)
  <2>1. exps' = Append(exps, x)
    BY <1>2 DEF Create
  <2>2. \A s \in SequencesOf(x) : s \in S
    BY DEF SequencesOf, NewExpectation
  <2>3. \A s, t \in SequencesOf(x) : s = t
    BY <2>2 DEF OneSequenceEach
  <2> HIDE DEF x
  <2>4. DOMAIN exps' = DOMAIN exps \cup {Len(exps) + 1}
        /\ exps'[Len(exps) + 1] = x
        /\ \A e \in DOMAIN exps : exps'[e] = exps[e]
    BY <1>1, <2>1 DEF TypeOK
  <2> QED BY <2>3, <2>4 DEF AttachedToOne, SequencesOf
<1>3. ASSUME DOMAIN exps' = DOMAIN exps, \A e \in DOMAIN exps : exps'[e].at = exps[e].at
      PROVE  AttachedToOne'
  BY <1>3 DEF AttachedToOne, SequencesOf
<1>4. ASSUME NEW m \in Mocks, NEW a \in Args, NEW effect \in SideEffects,
             FullMatch(m, a, effect)
      PROVE  AttachedToOne'
  <2>1. PICK e \in DOMAIN exps : ConsumeExpectation(e, effect)
    BY <1>4 DEF FullMatch, Matches, Accepting, Live
  <2>2. exps[e] \in ExpectationRecords
    BY <1>1 DEF TypeOK
  <2>3. exps' = [exps EXCEPT ![e] = [exps[e] EXCEPT !.count = @ + 1]]
    BY <2>1 DEF ConsumeExpectation
  <2>4. DOMAIN exps' = DOMAIN exps /\ \A f \in DOMAIN exps : exps'[f].at = exps[f].at
    BY <1>1, <2>2, <2>3 DEF ExpectationRecords
  <2> QED BY <1>3, <2>4
<1>5. ASSUME NEW e \in DOMAIN exps, Remove(e)
      PROVE  AttachedToOne'
  <2>1. exps[e] \in ExpectationRecords
    BY <1>1 DEF TypeOK
  <2>2. DOMAIN exps' = DOMAIN exps /\ \A f \in DOMAIN exps : exps'[f].at = exps[f].at
    BY <1>1, <1>5, <2>1 DEF Remove, ExpectationRecords
  <2> QED BY <1>3, <2>2
<1>6. ASSUME UNCHANGED exps PROVE AttachedToOne'
  BY <1>3, <1>6
<1> QED BY <1>2, <1>4, <1>5, <1>6
        DEF Next, vars, CreateInFullSequence, Inapplicable, NoMatch

\* No candidate is rated better by the sequence of the one that is used.
LEMMA BestRatedIsUsed ==
    ASSUME IInv, AttachedToOne, [Next]_vars, NEW e, Used(e),
           NEW s \in SequencesOf(exps[e]), NEW c \in Candidates(e),
           s \in SequencesOf(exps[c])
    PROVE  SequenceRatings(exps[c])[s] <= SequenceRatings(exps[e])[s]
<1> DEFINE matches == Candidates(e)
           rating == [x \in matches |-> SequenceRatings(exps[x])]
           NotWorse(x, best) ==
               \A t \in DOMAIN rating[best] \cap DOMAIN rating[x] :
                   rating[x][t] <= rating[best][t]
           I == {p \in (SUBSET matches) \X matches : \A x \in p[1] : NotWorse(x, p[2])}
<1>1. /\ matches \in SUBSET (0 .. Len(exps)) /\ matches # {} /\ Len(exps) \in Nat
      /\ matches \subseteq DOMAIN exps /\ TypeOK
      /\ e = FindBestMatch(matches, rating)
  BY UsedIsBest DEF BestMatch, IInv, TypeOK
<1>2. \A x \in matches : /\ DOMAIN rating[x] = SequencesOf(exps[x])
                         /\ \A t, u \in DOMAIN rating[x] : t = u
  BY <1>1, RatedSequences DEF AttachedToOne
<1>3. ASSUME NEW x \in matches, NEW t \in DOMAIN rating[x]
      PROVE  rating[x][t] \in Int
  <2>0. t \in Seqs /\ x \in DOMAIN exps /\ TypeOK
    <3> HIDE DEF matches, rating
    <3> QED BY <1>1, <1>2, <1>3 DEF SequencesOf
  <2>1. exps[x].at[t] \in Int /\ seqs[t].cursor \in Int
    BY <2>0, TypeFacts
  <2>2. rating[x][t] = Priority(Strategy[t], exps[x].at[t], seqs[t].cursor)
    BY <1>2, <1>3 DEF SequenceRatings
  <2> QED BY <2>1, <2>2, IntMaxAssumption DEF Priority
<1>4. Max(matches) \in matches
  <2> HIDE DEF matches
  <2> QED BY <1>1, MaxProperties
<1> HIDE DEF matches, rating
<1>5. ASSUME NEW best \in matches, NEW x \in matches, HasBetterRating(rating[best], rating[x])
      PROVE  NotWorse(x, best)
  <2> SUFFICES ASSUME NEW t \in DOMAIN rating[best] \cap DOMAIN rating[x],
                      ~(rating[x][t] <= rating[best][t])
               PROVE  FALSE
    OBVIOUS
  <2> DEFINE worse == {u \in DOMAIN rating[best] : rating[best][u] < rating[x][u]}
  <2>1. DOMAIN rating[best] = {t} /\ DOMAIN rating[best] \subseteq DOMAIN rating[x]
    BY <1>2
  <2>2. rating[best][t] < rating[x][t]
    BY <1>3
  <2>3. worse = {t} /\ DOMAIN rating[best] \ worse = {}
    BY <2>1, <2>2
  <2>4. Cardinality(worse) = 1 /\ Cardinality(DOMAIN rating[best] \ worse) = 0
    BY <2>3, FS_EmptySet, FS_Singleton
  <2> QED BY <1>5, <2>1, <2>4 DEF HasBetterRating
<1>6. ASSUME NEW best \in matches, NEW x \in matches, ~HasBetterRating(rating[best], rating[x])
      PROVE  /\ DOMAIN rating[x] = DOMAIN rating[best]
             /\ \A t \in DOMAIN rating[x] : rating[best][t] < rating[x][t]
  <2> DEFINE worse == {u \in DOMAIN rating[best] : rating[best][u] < rating[x][u]}
  <2>1. /\ DOMAIN rating[best] \subseteq DOMAIN rating[x]
        /\ ~(Cardinality(worse) <= Cardinality(DOMAIN rating[best] \ worse))
    BY <1>6 DEF HasBetterRating
  <2>2. worse # {}
    <3> SUFFICES ASSUME worse = {} PROVE FALSE
      OBVIOUS
    <3>1. \A t, u \in DOMAIN rating[best] : t = u
      BY <1>2
    <3>2. Cardinality(worse) = 0
      BY FS_EmptySet
    <3>3. CASE DOMAIN rating[best] = {}
      <4>1. DOMAIN rating[best] \ worse = {}
        BY <3>3
      <4>2. Cardinality(DOMAIN rating[best] \ worse) = 0
        BY <4>1, FS_EmptySet
      <4> QED BY <2>1, <3>2, <4>2
    <3>4. CASE DOMAIN rating[best] # {}
      <4>1. PICK t : DOMAIN rating[best] = {t}
        BY <3>1, <3>4
      <4>2. DOMAIN rating[best] \ worse = {t}
        BY <4>1
      <4>3. Cardinality(DOMAIN rating[best] \ worse) = 1
        BY <4>2, FS_Singleton
      <4> QED BY <2>1, <3>2, <4>3
    <3> QED BY <3>3, <3>4
  <2>3. PICK t : t \in DOMAIN rating[best] /\ rating[best][t] < rating[x][t]
    BY <2>2
  <2>4. DOMAIN rating[best] = {t}
    BY <1>2, <2>3
  <2>5. DOMAIN rating[x] = {t}
    BY <1>2, <2>1, <2>4
  <2> QED BY <2>3, <2>4, <2>5
<1>7. <<{Max(matches)}, Max(matches)>> \in I
  BY <1>3, <1>4
<1>8. ASSUME NEW visited \in SUBSET matches, NEW best \in matches, NEW x \in matches,
             <<visited, best>> \in I
      PROVE  <<visited \cup {x}, Better(rating, x, best)>> \in I
  <2>1. \A y \in visited : NotWorse(y, best)
    BY <1>8
  <2>2. CASE HasBetterRating(rating[best], rating[x])
    <3>1. \A y \in visited \cup {x} : NotWorse(y, best)
      BY <1>5, <2>1, <2>2
    <3> HIDE DEF NotWorse
    <3> QED BY <2>2, <3>1 DEF Better
  <2>3. CASE ~HasBetterRating(rating[best], rating[x])
    <3>1. ASSUME NEW y \in visited \cup {x},
                 NEW t \in DOMAIN rating[x] \cap DOMAIN rating[y]
          PROVE  rating[y][t] <= rating[x][t]
      <4>1. t \in DOMAIN rating[best] /\ rating[best][t] < rating[x][t]
        BY <1>6, <2>3
      <4>2. y \in matches /\ rating[y][t] \in Int /\ rating[x][t] \in Int
            /\ rating[best][t] \in Int
        BY <1>3, <4>1
      <4>3. CASE y = x
        BY <4>2, <4>3
      <4>4. CASE y # x
        <5>1. rating[y][t] <= rating[best][t]
          BY <2>1, <4>1, <4>4
        <5> QED BY <4>1, <4>2, <5>1
      <4> QED BY <4>3, <4>4
    <3> QED BY <2>3, <3>1 DEF Better
  <2> QED BY <2>2, <2>3
<1> HIDE DEF I
<1>9. <<matches, e>> \in I /\ e \in matches
  BY <1>1, <1>7, <1>8, BestMatchInduction
<1>10. c \in matches /\ s \in DOMAIN rating[e] \cap DOMAIN rating[c]
  BY <1>2, <1>9 DEF matches
<1>11. rating[c][s] <= rating[e][s]
  BY <1>9, <1>10 DEF I
<1> QED BY <1>9, <1>10, <1>11 DEF rating

LEMMA AttachedToOneHolds ==
    ASSUME OneSequenceEach
    PROVE  Spec => []AttachedToOne
<1>1. Init => AttachedToOne
  <2> SUFFICES ASSUME Init PROVE AttachedToOne
    OBVIOUS
  <2>1. exps = <<>>
    BY DEF Init
  <2> QED BY <2>1 DEF AttachedToOne
<1>2. IInv /\ AttachedToOne /\ [Next]_vars => AttachedToOne'
  BY StepKeepsAttachedToOne
<1> QED BY <1>1, <1>2, Bookkeeping, PTL DEF Spec

\* LazySequence makes the least possible progress: of the candidates in the
\* sequence of the one that is used, none has an earlier entry.
THEOREM LazyIsLazy ==
    ASSUME OneSequenceEach
    PROVE  Spec => LazyMakesLeastProgress
<1>1. IInv /\ AttachedToOne /\ [Next]_vars =>
        [\A e \in DOMAIN exps : Used(e) =>
            \A s \in SequencesOf(exps[e]), c \in Candidates(e) :
                Strategy[s] = "lazy" /\ s \in SequencesOf(exps[c])
                    => exps[e].at[s] <= exps[c].at[s]]_vars
  <2> SUFFICES ASSUME IInv, AttachedToOne, [Next]_vars, NEW e \in DOMAIN exps, Used(e),
                      NEW s \in SequencesOf(exps[e]), NEW c \in Candidates(e),
                      Strategy[s] = "lazy", s \in SequencesOf(exps[c])
               PROVE  exps[e].at[s] <= exps[c].at[s]
    OBVIOUS
  <2>1. SequenceRatings(exps[c])[s] <= SequenceRatings(exps[e])[s]
    BY BestRatedIsUsed
  <2>2. TypeOK /\ c \in DOMAIN exps /\ s \in Seqs
    BY UsedIsBest DEF IInv, SequencesOf
  <2>3. exps[e].at[s] \in Int /\ exps[c].at[s] \in Int /\ seqs[s].cursor \in Int
    BY <2>2, TypeFacts
  <2> QED BY <2>1, <2>3, IntMaxAssumption DEF SequenceRatings, Priority
<1> QED BY <1>1, Bookkeeping, AttachedToOneHolds, PTL DEF Spec, LazyMakesLeastProgress

\* GreedySequence makes the maximal possible progress: of the candidates in the
\* sequence of the one that is used, none has a later entry.
THEOREM GreedyIsGreedy ==
    ASSUME OneSequenceEach
    PROVE  Spec => GreedyMakesMostProgress
<1>1. IInv /\ AttachedToOne /\ [Next]_vars =>
        [\A e \in DOMAIN exps : Used(e) =>
            \A s \in SequencesOf(exps[e]), c \in Candidates(e) :
                Strategy[s] = "greedy" /\ s \in SequencesOf(exps[c])
                    => exps[e].at[s] >= exps[c].at[s]]_vars
  <2> SUFFICES ASSUME IInv, AttachedToOne, [Next]_vars, NEW e \in DOMAIN exps, Used(e),
                      NEW s \in SequencesOf(exps[e]), NEW c \in Candidates(e),
                      Strategy[s] = "greedy", s \in SequencesOf(exps[c])
               PROVE  exps[e].at[s] >= exps[c].at[s]
    OBVIOUS
  <2>1. SequenceRatings(exps[c])[s] <= SequenceRatings(exps[e])[s]
    BY BestRatedIsUsed
  <2>2. TypeOK /\ c \in DOMAIN exps /\ s \in Seqs
    BY UsedIsBest DEF IInv, SequencesOf
  <2>3. exps[e].at[s] \in Int /\ exps[c].at[s] \in Int /\ seqs[s].cursor \in Int
    BY <2>2, TypeFacts
  <2> QED BY <2>1, <2>3 DEF SequenceRatings, Priority
<1> QED BY <1>1, Bookkeeping, AttachedToOneHolds, PTL DEF Spec, GreedyMakesMostProgress
=============================================================================
