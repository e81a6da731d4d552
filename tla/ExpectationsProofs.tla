-------------------------- MODULE ExpectationsProofs --------------------------
(***************************************************************************)
(* The bookkeeping between counts, entry states and cursors, proved for    *)
(* every set of mocks, sequences, arguments and limits.                    *)
(***************************************************************************)
EXTENDS Expectations, TLAPS

\* Limits are those of a TimesConfig and no count exceeds its maximum.
CountsWithinLimits ==
    \A e \in DOMAIN exps :
        /\ exps[e].min <= exps[e].max
        /\ exps[e].count <= exps[e].max

\* Positions name entries, and grow with the age of the expectation.
PositionsOrdered ==
    \A s \in Seqs :
        /\ \A e \in DOMAIN exps : exps[e].at[s] <= Len(seqs[s].entries)
        /\ \A e, f \in DOMAIN exps :
              /\ e < f
              /\ exps[e].at[s] # NotAttached
              /\ exps[f].at[s] # NotAttached
              => exps[e].at[s] < exps[f].at[s]

\* Every entry belongs to an expectation.
EntriesOwned ==
    \A s \in Seqs : \A i \in 1 .. Len(seqs[s].entries) :
        \E e \in DOMAIN exps : exps[e].at[s] = i

\* The state update_sequence_states has published for the count of x.
StateOf(x) ==
    IF x.count = x.max THEN "saturated"
    ELSE IF x.min <= x.count THEN "satisfied" ELSE "unsatisfied"

StatesPublished ==
    \A e \in DOMAIN exps : \A s \in Seqs :
        exps[e].at[s] # NotAttached
            => seqs[s].entries[exps[e].at[s]] = StateOf(exps[e])

\* The cursor stands on the last entry used; only fulfilled ones precede it.
CursorOnLastUsed ==
    \A s \in Seqs :
        /\ \A i \in 1 .. (seqs[s].cursor - 1) :
              /\ i \in DOMAIN seqs[s].entries
              /\ IsFulfilled(seqs[s].entries[i])
        /\ seqs[s].cursor > 1 => \E e \in DOMAIN exps :
              exps[e].at[s] = seqs[s].cursor /\ exps[e].count > 0
        /\ \A e \in DOMAIN exps :
              exps[e].at[s] > seqs[s].cursor => exps[e].count = 0

IInv ==
    /\ TypeOK
    /\ CountsWithinLimits
    /\ PositionsOrdered
    /\ EntriesOwned
    /\ StatesPublished
    /\ CursorOnLastUsed
    /\ asserted = TRUE

-----------------------------------------------------------------------------
\* Counting a use changes nothing else of an expectation.
LEMMA CountedOnce ==
    ASSUME NEW r \in ExpectationRecords, r.count < r.max
    PROVE  /\ [r EXCEPT !.count = @ + 1] \in ExpectationRecords
           /\ [r EXCEPT !.count = @ + 1].at = r.at
           /\ [r EXCEPT !.count = @ + 1].min = r.min
           /\ [r EXCEPT !.count = @ + 1].max = r.max
           /\ [r EXCEPT !.count = @ + 1].count = r.count + 1
BY IntMaxAssumption DEF ExpectationRecords, Ints

\* The types of what the invariants talk about, taken apart once.
LEMMA TypeFacts ==
    ASSUME TypeOK
    PROVE  /\ \A e \in DOMAIN exps :
                 /\ e \in Nat \ {0}
                 /\ exps[e] \in ExpectationRecords
                 /\ exps[e].min \in Nat
                 /\ exps[e].max \in Nat
                 /\ exps[e].count \in Nat
                 /\ exps[e].at \in [Seqs -> Nat]
                 /\ \A s \in Seqs : exps[e].at[s] \in Nat
           /\ \A s \in Seqs :
                 /\ seqs[s] \in BasicSequences
                 /\ seqs[s].entries \in Seq(EntryStates)
                 /\ seqs[s].cursor \in Nat \ {0}
                 /\ Len(seqs[s].entries) \in Nat
                 /\ DOMAIN seqs[s].entries = 1 .. Len(seqs[s].entries)
<1>1. exps \in Seq(ExpectationRecords) /\ seqs \in [Seqs -> BasicSequences]
  BY DEF TypeOK
<1>2. ASSUME NEW e \in DOMAIN exps
      PROVE  e \in Nat \ {0} /\ exps[e] \in ExpectationRecords
  BY <1>1
<1>3. ASSUME NEW r \in ExpectationRecords
      PROVE  /\ r.min \in Nat /\ r.max \in Nat /\ r.count \in Nat
             /\ r.at \in [Seqs -> Nat] /\ \A s \in Seqs : r.at[s] \in Nat
  BY IntMaxAssumption, IdMaxAssumption DEF ExpectationRecords, Ints, Positions
<1>4. ASSUME NEW s \in Seqs
      PROVE  /\ seqs[s] \in BasicSequences
             /\ seqs[s].entries \in Seq(EntryStates)
             /\ seqs[s].cursor \in Nat \ {0}
             /\ Len(seqs[s].entries) \in Nat
             /\ DOMAIN seqs[s].entries = 1 .. Len(seqs[s].entries)
  BY <1>1 DEF BasicSequences
<1> QED BY <1>2, <1>3, <1>4

\* What consuming an applicable expectation does to the counts and entries.
CountsAfterUse(e) ==
    /\ exps' \in Seq(ExpectationRecords)
    /\ DOMAIN exps' = DOMAIN exps
    /\ \A f \in DOMAIN exps :
          /\ exps'[f].at = exps[f].at
          /\ exps'[f].min = exps[f].min
          /\ exps'[f].max = exps[f].max
          /\ f # e => exps'[f] = exps[f]
    /\ exps'[e].count = exps[e].count + 1
    /\ exps[e].count < exps[e].max

SequenceAfterUse(e, s) ==
    /\ exps[e].at[s] \in DOMAIN seqs[s].entries
    /\ seqs[s].cursor <= exps[e].at[s]
    /\ \A i \in seqs[s].cursor .. (exps[e].at[s] - 1) :
          IsFulfilled(seqs[s].entries[i])
    /\ seqs'[s].cursor = exps[e].at[s]
    /\ seqs'[s].entries = [seqs[s].entries EXCEPT
                             ![exps[e].at[s]] = StateOf(exps'[e])]

\* What the operations do to one sequence and its record.
LEMMA ConsumeEffect ==
    ASSUME IInv, NEW e \in DOMAIN exps, IsApplicable(exps[e]),
           NEW effect, ConsumeExpectation(e, effect)
    PROVE  /\ CountsAfterUse(e)
           /\ seqs' \in [Seqs -> BasicSequences]
           /\ \A s \in Seqs :
                 IF exps[e].at[s] = NotAttached THEN seqs'[s] = seqs[s]
                 ELSE SequenceAfterUse(e, s)
           /\ asserted'
<1> DEFINE x == [exps[e] EXCEPT !.count = @ + 1]
<1>1. /\ exps \in Seq(ExpectationRecords)
      /\ seqs \in [Seqs -> BasicSequences]
      /\ exps[e] \in ExpectationRecords
  BY DEF IInv, TypeOK
<1>2. /\ x \in ExpectationRecords
      /\ x.at = exps[e].at /\ x.min = exps[e].min /\ x.max = exps[e].max
      /\ x.count = exps[e].count + 1
  <2>1. exps[e].count < exps[e].max
    <3>1. exps[e].count \in Int /\ exps[e].max \in Int
      BY <1>1 DEF ExpectationRecords, Ints
    <3> QED BY <3>1 DEF IInv, CountsWithinLimits, IsApplicable, IsSaturated
  <2> QED BY <1>1, <2>1, CountedOnce
<1>3. exps' = [exps EXCEPT ![e] = x]
  BY DEF ConsumeExpectation
<1>4. /\ exps' \in Seq(ExpectationRecords)
      /\ DOMAIN exps' = DOMAIN exps
      /\ exps'[e] = x
      /\ \A f \in DOMAIN exps : f # e => exps'[f] = exps[f]
  BY <1>1, <1>2, <1>3
<1>5. /\ exps[e].min <= exps[e].max /\ exps[e].count < exps[e].max
      /\ exps[e].min \in Nat /\ exps[e].max \in Nat /\ exps[e].count \in Nat
      /\ exps[e].at \in [Seqs -> Nat]
  BY <1>1, TypeFacts DEF IInv, CountsWithinLimits, IsApplicable, IsSaturated
<1>6. ASSUME NEW s \in Seqs, exps[e].at[s] = NotAttached
      PROVE  seqs'[s] = seqs[s]
  BY <1>2, <1>6 DEF ConsumeExpectation, SequencesOf
<1>7. ASSUME NEW s \in Seqs, exps[e].at[s] # NotAttached
      PROVE  /\ exps[e].at[s] \in DOMAIN seqs[s].entries
             /\ seqs[s].cursor <= exps[e].at[s]
             /\ \A i \in seqs[s].cursor .. (exps[e].at[s] - 1) :
                   IsFulfilled(seqs[s].entries[i])
             /\ seqs'[s].cursor = exps[e].at[s]
             /\ seqs'[s].entries = [seqs[s].entries EXCEPT
                                      ![exps[e].at[s]] = StateOf(x)]
             /\ seqs'[s] \in BasicSequences
             /\ IsConsumable(seqs[s], x.at[s])
             /\ UpdateAsserts(Consume(seqs[s], x.at[s]), x, s)
  <2> DEFINE i == exps[e].at[s]
             q == seqs[s]
  <2>1. q \in BasicSequences /\ i \in Nat \ {0} /\ i <= Len(q.entries)
    BY <1>1, <1>5, <1>7 DEF IInv, PositionsOrdered, NotAttached
  <2>2. /\ q.entries \in Seq(EntryStates) /\ q.cursor \in Nat \ {0}
        /\ i \in DOMAIN q.entries
    BY <2>1 DEF BasicSequences
  <2>3. IsConsumable(q, i)
    BY <1>7 DEF IsApplicable, SequencesOf
  <2>4. q.entries[i] = StateOf(exps[e])
    BY <1>7 DEF IInv, StatesPublished
  <2>5. seqs'[s] = ConsumedSequence(x, s)
    BY <1>2, <1>7 DEF ConsumeExpectation, SequencesOf
  <2>6. Consume(q, i) = [entries |-> q.entries, cursor |-> i]
    BY <2>1 DEF Consume, BasicSequences
  <2>7. seqs'[s] = [entries |-> [q.entries EXCEPT ![i] = StateOf(x)], cursor |-> i]
    <3>1. CASE x.count = x.max
      BY <3>1, <1>2, <2>5, <2>6 DEF ConsumedSequence, UpdateSequenceState, IsSaturated,
         SetSaturated, StateOf
    <3>2. CASE x.count # x.max /\ x.count = x.min
      BY <3>2, <1>2, <1>5, <2>5, <2>6 DEF ConsumedSequence, UpdateSequenceState, IsSaturated,
         SetSatisfied, StateOf
    <3>3. CASE x.count # x.max /\ x.count # x.min
      <4>1. StateOf(x) = q.entries[i]
        BY <3>3, <1>2, <1>5, <2>4 DEF StateOf
      <4>2. [q.entries EXCEPT ![i] = StateOf(x)] = q.entries
        BY <4>1, <2>2
      <4>3. seqs'[s] = Consume(q, i)
        BY <3>3, <1>2, <2>5 DEF ConsumedSequence, UpdateSequenceState, IsSaturated
      <4> QED BY <4>2, <4>3, <2>6
    <3> QED BY <3>1, <3>2, <3>3
  <2>8. StateOf(x) \in EntryStates
    BY DEF StateOf, EntryStates
  <2>9. [q.entries EXCEPT ![i] = StateOf(x)] \in Seq(EntryStates)
    BY <2>2, <2>8
  <2>10. UpdateAsserts(Consume(q, x.at[s]), x, s)
    BY <1>2, <1>5, <2>2, <2>3, <2>4, <2>6 DEF UpdateAsserts, SetSaturatedAsserts,
       SetSatisfiedAsserts, IsSaturated, IsConsumable, StateOf, IsActive
  <2> QED BY <1>2, <2>2, <2>3, <2>7, <2>9, <2>10 DEF IsConsumable, BasicSequences
<1>8. seqs' \in [Seqs -> BasicSequences]
  <2>1. \A s \in Seqs : seqs'[s] \in BasicSequences
    BY <1>1, <1>6, <1>7
  <2>2. seqs' = [s \in Seqs |-> seqs'[s]]
    BY DEF ConsumeExpectation
  <2> QED BY <2>1, <2>2
<1>9. asserted'
  <2>1. \A s \in SequencesOf(x) :
           /\ IsConsumable(seqs[s], x.at[s])
           /\ UpdateAsserts(Consume(seqs[s], x.at[s]), x, s)
    BY <1>2, <1>7 DEF SequencesOf
  <2> QED BY <2>1, <1>5 DEF ConsumeExpectation, IInv
<1> QED BY <1>2, <1>4, <1>5, <1>6, <1>7, <1>8, <1>9
       DEF CountsAfterUse, SequenceAfterUse

\* Consuming an applicable expectation keeps the bookkeeping.
LEMMA ConsumeKeepsBookkeeping ==
    ASSUME IInv, NEW e \in DOMAIN exps, IsApplicable(exps[e]),
           NEW effect, ConsumeExpectation(e, effect)
    PROVE  (/\ CountsWithinLimits
            /\ PositionsOrdered
            /\ EntriesOwned
            /\ StatesPublished
            /\ CursorOnLastUsed
            /\ asserted = TRUE)'
<1>0. /\ CountsAfterUse(e)
      /\ seqs' \in [Seqs -> BasicSequences]
      /\ asserted'
      /\ \A s \in Seqs :
            IF exps[e].at[s] = NotAttached THEN seqs'[s] = seqs[s]
            ELSE SequenceAfterUse(e, s)
  BY ConsumeEffect
<1> USE DEF CountsAfterUse
<1>2. TypeOK
  BY DEF IInv
<1> USE TypeFacts
<1>3. \A s \in Seqs : /\ DOMAIN seqs'[s].entries = DOMAIN seqs[s].entries
                      /\ Len(seqs'[s].entries) = Len(seqs[s].entries)
  <2> SUFFICES ASSUME NEW s \in Seqs
               PROVE  /\ DOMAIN seqs'[s].entries = DOMAIN seqs[s].entries
                      /\ Len(seqs'[s].entries) = Len(seqs[s].entries)
    OBVIOUS
  <2>1. CASE exps[e].at[s] = NotAttached
    BY <1>0, <2>1
  <2>2. CASE exps[e].at[s] # NotAttached
    <3>1. seqs'[s].entries = [seqs[s].entries EXCEPT
                                ![exps[e].at[s]] = StateOf(exps'[e])]
      BY <1>0, <2>2 DEF SequenceAfterUse
    <3>2. seqs'[s].entries \in Seq(EntryStates)
      BY <1>0 DEF BasicSequences
    <3>3. DOMAIN seqs'[s].entries = DOMAIN seqs[s].entries
      BY <3>1
    <3> QED BY <1>2, <3>2, <3>3
  <2> QED BY <2>1, <2>2
<1>4. CountsWithinLimits'
  <2> SUFFICES ASSUME NEW f \in DOMAIN exps
               PROVE  /\ exps'[f].min <= exps'[f].max
                      /\ exps'[f].count <= exps'[f].max
    BY <1>0 DEF CountsWithinLimits
  <2>1. exps[f].min <= exps[f].max /\ exps[f].count <= exps[f].max
    BY DEF IInv, CountsWithinLimits
  <2>2. CASE f = e
    BY <1>0, <1>2, <2>1, <2>2
  <2>3. CASE f # e
    BY <1>0, <2>1, <2>3
  <2> QED BY <2>2, <2>3
<1>5. PositionsOrdered'
  BY <1>0, <1>3 DEF IInv, PositionsOrdered
<1>6. EntriesOwned'
  <2> SUFFICES ASSUME NEW s \in Seqs, NEW i \in 1 .. Len(seqs[s].entries)
               PROVE  \E f \in DOMAIN exps : exps'[f].at[s] = i
    BY <1>0, <1>3 DEF EntriesOwned
  <2>1. PICK f \in DOMAIN exps : exps[f].at[s] = i
    BY DEF IInv, EntriesOwned
  <2> QED BY <1>0, <2>1
<1>7. StatesPublished'
  <2> SUFFICES ASSUME NEW f \in DOMAIN exps, NEW s \in Seqs,
                      exps[f].at[s] # NotAttached
               PROVE  seqs'[s].entries[exps[f].at[s]] = StateOf(exps'[f])
    BY <1>0 DEF StatesPublished
  <2>1. exps[f].at[s] \in DOMAIN seqs[s].entries
    BY <1>2 DEF IInv, PositionsOrdered, NotAttached
  <2>2. seqs[s].entries[exps[f].at[s]] = StateOf(exps[f])
    BY DEF IInv, StatesPublished
  <2>3. CASE f = e
    BY <1>0, <1>3, <2>1, <2>3 DEF SequenceAfterUse
  <2>4. CASE f # e /\ exps[e].at[s] = NotAttached
    BY <1>0, <2>2, <2>4
  <2>5. CASE f # e /\ exps[e].at[s] # NotAttached
    <3>1. exps[f].at[s] # exps[e].at[s]
      BY <1>2, <2>5 DEF IInv, PositionsOrdered
    <3> QED BY <1>0, <1>3, <2>1, <2>2, <2>5, <3>1 DEF SequenceAfterUse
  <2> QED BY <2>3, <2>4, <2>5
<1>8. CursorOnLastUsed'
  <2> SUFFICES ASSUME NEW s \in Seqs
               PROVE  /\ \A i \in 1 .. (seqs'[s].cursor - 1) :
                            /\ i \in DOMAIN seqs'[s].entries
                            /\ IsFulfilled(seqs'[s].entries[i])
                      /\ seqs'[s].cursor > 1 => \E f \in DOMAIN exps :
                            exps'[f].at[s] = seqs'[s].cursor /\ exps'[f].count > 0
                      /\ \A f \in DOMAIN exps :
                            exps'[f].at[s] > seqs'[s].cursor => exps'[f].count = 0
    BY <1>0 DEF CursorOnLastUsed
  <2>1. /\ \A i \in 1 .. (seqs[s].cursor - 1) :
              /\ i \in DOMAIN seqs[s].entries
              /\ IsFulfilled(seqs[s].entries[i])
        /\ seqs[s].cursor > 1 => \E f \in DOMAIN exps :
              exps[f].at[s] = seqs[s].cursor /\ exps[f].count > 0
        /\ \A f \in DOMAIN exps :
              exps[f].at[s] > seqs[s].cursor => exps[f].count = 0
    BY DEF IInv, CursorOnLastUsed
  <2>2. exps'[e].count > 0
    BY <1>0, <1>2
  <2>3. CASE exps[e].at[s] = NotAttached
    <3>1. \A f \in DOMAIN exps : exps[f].count > 0 => exps'[f].count > 0
      BY <1>0, <2>2
    <3>2. \A f \in DOMAIN exps :
             exps[f].at[s] > seqs[s].cursor => exps'[f].count = 0
      <4> SUFFICES ASSUME NEW f \in DOMAIN exps, exps[f].at[s] > seqs[s].cursor
                   PROVE  exps'[f].count = 0
        OBVIOUS
      <4>1. f # e
        BY <1>2, <2>3 DEF NotAttached
      <4> QED BY <1>0, <2>1, <4>1
    <3> QED BY <1>0, <2>1, <2>3, <3>1, <3>2
  <2>4. CASE exps[e].at[s] # NotAttached
    <3> DEFINE p == exps[e].at[s]
    <3>1. p \in DOMAIN seqs[s].entries /\ p \in Nat /\ seqs[s].cursor <= p
      BY <1>0, <1>2, <2>4 DEF SequenceAfterUse
    <3>2. ASSUME NEW i \in 1 .. (p - 1)
          PROVE  /\ i \in DOMAIN seqs[s].entries
                 /\ IsFulfilled(seqs[s].entries[i])
                 /\ seqs'[s].entries[i] = seqs[s].entries[i]
      <4>1. i \in DOMAIN seqs[s].entries /\ i # p
        BY <1>2, <3>1
      <4>2. IsFulfilled(seqs[s].entries[i])
        <5>1. seqs[s].cursor \in Nat /\ i \in Nat /\ 1 <= i /\ i <= p - 1
          BY <1>2, <3>1
        <5>2. CASE i <= seqs[s].cursor - 1
          BY <2>1, <5>1, <5>2
        <5>3. CASE ~(i <= seqs[s].cursor - 1)
          <6>1. i \in seqs[s].cursor .. (p - 1)
            BY <1>2, <3>1, <5>1, <5>3
          <6> QED BY <1>0, <2>4, <6>1 DEF SequenceAfterUse
        <5> QED BY <5>2, <5>3
      <4>4. seqs'[s].entries[i] = seqs[s].entries[i]
        BY <1>0, <1>2, <2>4, <4>1 DEF SequenceAfterUse
      <4> QED BY <4>1, <4>2, <4>4
    <3>3. seqs'[s].cursor = p
      BY <1>0, <2>4 DEF SequenceAfterUse
    <3>4. ASSUME NEW f \in DOMAIN exps, exps[f].at[s] > p
          PROVE  exps'[f].count = 0
      <4>1. f # e /\ exps[f].at[s] > seqs[s].cursor
        BY <1>2, <3>1, <3>4
      <4> QED BY <1>0, <2>1, <4>1
    <3> QED BY <1>0, <1>3, <2>2, <2>4, <3>1, <3>2, <3>3, <3>4
  <2> QED BY <2>3, <2>4
<1> QED BY <1>0, <1>4, <1>5, <1>6, <1>7, <1>8

-----------------------------------------------------------------------------
\* The operations of BasicSequence on a sequence written as a record.
LEMMA AddResult ==
    ASSUME NEW q \in BasicSequences
    PROVE  Add(q) = [entries |-> Append(q.entries, "unsatisfied"),
                     cursor |-> q.cursor]
BY DEF Add, BasicSequences

LEMMA SetStateResult ==
    ASSUME NEW entries, NEW cursor, NEW pos
    PROVE  /\ SetSaturated([entries |-> entries, cursor |-> cursor], pos) =
                 [entries |-> [entries EXCEPT ![pos] = "saturated"],
                  cursor |-> cursor]
           /\ SetSatisfied([entries |-> entries, cursor |-> cursor], pos) =
                 [entries |-> [entries EXCEPT ![pos] = "satisfied"],
                  cursor |-> cursor]
BY DEF SetSaturated, SetSatisfied

\* Replacing the element just appended.
LEMMA ReplaceAppended ==
    ASSUME NEW q \in Seq(EntryStates),
           NEW u \in EntryStates, NEW v \in EntryStates
    PROVE  [Append(q, u) EXCEPT ![Len(q) + 1] = v] = Append(q, v)
<1> DEFINE f == [Append(q, u) EXCEPT ![Len(q) + 1] = v]
<1>1. Append(q, u) \in Seq(EntryStates) /\ Len(Append(q, u)) = Len(q) + 1 /\ Len(q) \in Nat
  OBVIOUS
<1>2. f \in Seq(EntryStates) /\ Len(f) = Len(q) + 1
  BY <1>1
<1>3. Append(q, v) \in Seq(EntryStates) /\ Len(Append(q, v)) = Len(q) + 1
  OBVIOUS
<1>4. ASSUME NEW i \in 1 .. (Len(q) + 1)
      PROVE  f[i] = Append(q, v)[i]
  <2>1. CASE i = Len(q) + 1
    BY <1>1, <2>1
  <2>2. CASE i # Len(q) + 1
    <3>1. i \in 1 .. Len(q)
      BY <1>1, <2>2
    <3>2. f[i] = Append(q, u)[i]
      <4> DEFINE g == Append(q, u)
      <4>1. g \in Seq(EntryStates) /\ i \in DOMAIN g /\ i # Len(q) + 1
        BY <1>1, <2>2
      <4> HIDE DEF g
      <4>2. [g EXCEPT ![Len(q) + 1] = v][i] = g[i]
        BY <4>1
      <4> QED BY <4>2 DEF g
    <3> HIDE DEF f
    <3> QED BY <3>1, <3>2
  <2> QED BY <2>1, <2>2
<1> HIDE DEF f
<1>5. f = Append(q, v)
  BY <1>2, <1>3, <1>4
<1> QED BY <1>5 DEF f

\* Publishing a state for the entry just added.
LEMMA AddThenSetState ==
    ASSUME NEW q \in BasicSequences
    PROVE  /\ SetSaturated(Add(q), Len(q.entries) + 1) =
                 [entries |-> Append(q.entries, "saturated"), cursor |-> q.cursor]
           /\ SetSatisfied(Add(q), Len(q.entries) + 1) =
                 [entries |-> Append(q.entries, "satisfied"), cursor |-> q.cursor]
<1> DEFINE n == Len(q.entries) + 1
           added == Append(q.entries, "unsatisfied")
<1>1. q.entries \in Seq(EntryStates)
  BY DEF BasicSequences
<1>2. /\ [added EXCEPT ![n] = "saturated"] = Append(q.entries, "saturated")
      /\ [added EXCEPT ![n] = "satisfied"] = Append(q.entries, "satisfied")
  <2>1. "unsatisfied" \in EntryStates /\ "satisfied" \in EntryStates
        /\ "saturated" \in EntryStates
    BY DEF EntryStates
  <2>2. [added EXCEPT ![n] = "saturated"] = Append(q.entries, "saturated")
    BY <1>1, <2>1, ReplaceAppended, Zenon
  <2>3. [added EXCEPT ![n] = "satisfied"] = Append(q.entries, "satisfied")
    BY <1>1, <2>1, ReplaceAppended, Zenon
  <2> QED BY <2>2, <2>3
<1>3. Add(q) = [entries |-> added, cursor |-> q.cursor]
  BY AddResult
<1> HIDE DEF n, added
<1>4. /\ SetSaturated([entries |-> added, cursor |-> q.cursor], n) =
             [entries |-> [added EXCEPT ![n] = "saturated"], cursor |-> q.cursor]
      /\ SetSatisfied([entries |-> added, cursor |-> q.cursor], n) =
             [entries |-> [added EXCEPT ![n] = "satisfied"], cursor |-> q.cursor]
  BY SetStateResult
<1>5. /\ SetSaturated(Add(q), n) =
             [entries |-> [added EXCEPT ![n] = "saturated"], cursor |-> q.cursor]
      /\ SetSatisfied(Add(q), n) =
             [entries |-> [added EXCEPT ![n] = "satisfied"], cursor |-> q.cursor]
  BY <1>3, <1>4, Zenon
<1> QED BY <1>2, <1>5 DEF n

\* What creating an expectation x does to the sequences it is attached to.
EntryAdded(x, s) ==
    /\ x.at[s] = Len(seqs[s].entries) + 1
    /\ seqs'[s].cursor = seqs[s].cursor
    /\ seqs'[s].entries = Append(seqs[s].entries, StateOf(x))

\* A new expectation has the type of its fellows.
LEMMA NewExpectationType ==
    ASSUME TypeOK, NEW m \in Mocks, NEW S \in Attachments,
           NEW limits \in Limits, NEW verdict \in Verdicts,
           \A s \in S : HasRoom(seqs[s])
    PROVE  LET x == NewExpectation(m, S, limits, verdict)
           IN  /\ x \in ExpectationRecords
               /\ x.min \in Nat /\ x.max \in Nat
               /\ x.min <= x.max /\ x.count = 0
               /\ \A s \in Seqs : /\ x.at[s] \in Nat
                                  /\ x.at[s] = IF s \in S
                                               THEN Len(seqs[s].entries) + 1
                                               ELSE NotAttached
<1>1. /\ limits[1] \in Ints /\ limits[2] \in Ints /\ limits[1] <= limits[2]
      /\ limits[1] \in Nat /\ limits[2] \in Nat /\ 0 \in Ints
  BY LimitsAssumption, IntMaxAssumption DEF TimesConfigs, Ints
<1>2. verdict \in [Args -> VerdictValues]
  BY VerdictsAssumption
<1>3. ASSUME NEW s \in Seqs
      PROVE  /\ NotAttached \in Positions /\ NotAttached \in Nat
             /\ Len(seqs[s].entries) + 1 \in Nat
             /\ s \in S => Len(seqs[s].entries) + 1 \in Positions
  BY TypeFacts, IdMaxAssumption DEF NotAttached, Positions, HasRoom
<1>4. [s \in Seqs |-> IF s \in S THEN Len(seqs[s].entries) + 1
                                  ELSE NotAttached] \in [Seqs -> Positions]
  BY <1>3
<1> QED BY <1>1, <1>2, <1>3, <1>4 DEF NewExpectation, ExpectationRecords

LEMMA CreateEffect ==
    ASSUME IInv, NEW m \in Mocks, NEW S \in Attachments,
           NEW limits \in Limits, NEW verdict \in Verdicts,
           Create(m, S, limits, verdict)
    PROVE  LET x == NewExpectation(m, S, limits, verdict)
           IN  /\ exps' = Append(exps, x)
               /\ seqs' \in [Seqs -> BasicSequences]
               /\ asserted'
               /\ \A s \in Seqs : IF s \in S THEN EntryAdded(x, s)
                                             ELSE seqs'[s] = seqs[s]
<1> DEFINE x == NewExpectation(m, S, limits, verdict)
<1>1. TypeOK
  BY DEF IInv
<1>2. /\ x \in ExpectationRecords
      /\ x.min \in Nat /\ x.max \in Nat /\ x.min <= x.max /\ x.count = 0
      /\ \A s \in Seqs : /\ x.at[s] \in Nat
                         /\ x.at[s] = IF s \in S THEN Len(seqs[s].entries) + 1
                                                 ELSE NotAttached
  <2>1. \A s \in S : HasRoom(seqs[s])
    BY DEF Create
  <2> QED BY <1>1, <2>1, NewExpectationType
<1>3. /\ exps' = Append(exps, x)
      /\ seqs' = [s \in Seqs |-> IF s \in S
                                 THEN UpdateSequenceState(Add(seqs[s]), x, s)
                                 ELSE seqs[s]]
      /\ asserted' = (asserted /\ \A s \in S : UpdateAsserts(Add(seqs[s]), x, s))
  BY DEF Create
<1> HIDE DEF x
<1>4. ASSUME NEW s \in Seqs, s \in S
      PROVE  /\ EntryAdded(x, s)
             /\ seqs'[s] \in BasicSequences
             /\ UpdateAsserts(Add(seqs[s]), x, s)
  <2> DEFINE q == seqs[s]
             n == Len(q.entries) + 1
  <2>1. /\ q \in BasicSequences /\ q.entries \in Seq(EntryStates)
        /\ q.cursor \in Nat \ {0} /\ n \in Nat
    BY <1>1, TypeFacts
  <2>2. Add(q) = [entries |-> Append(q.entries, "unsatisfied"), cursor |-> q.cursor]
    BY <2>1, AddResult
  <2>3. x.at[s] = n
    BY <1>2, <1>4
  <2>4. seqs'[s] = UpdateSequenceState(Add(q), x, s)
    BY <1>3, <1>4
  <2>5. /\ SetSaturated(Add(q), n) =
              [entries |-> Append(q.entries, "saturated"), cursor |-> q.cursor]
        /\ SetSatisfied(Add(q), n) =
              [entries |-> Append(q.entries, "satisfied"), cursor |-> q.cursor]
    BY <2>1, AddThenSetState
  <2>6. seqs'[s] = [entries |-> Append(q.entries, StateOf(x)), cursor |-> q.cursor]
    <3>1. CASE x.count = x.max
      <4>1. seqs'[s] = SetSaturated(Add(q), n)
        BY <3>1, <2>3, <2>4 DEF UpdateSequenceState, IsSaturated
      <4>2. StateOf(x) = "saturated"
        BY <3>1 DEF StateOf
      <4> QED BY <4>1, <4>2, <2>5, Zenon
    <3>2. CASE x.count # x.max /\ x.count = x.min
      <4>1. seqs'[s] = SetSatisfied(Add(q), n)
        BY <3>2, <2>3, <2>4 DEF UpdateSequenceState, IsSaturated
      <4>2. StateOf(x) = "satisfied"
        BY <3>2, <1>2 DEF StateOf
      <4> QED BY <4>1, <4>2, <2>5, Zenon
    <3>3. CASE x.count # x.max /\ x.count # x.min
      <4>1. seqs'[s] = Add(q)
        BY <3>3, <2>4 DEF UpdateSequenceState, IsSaturated
      <4>2. StateOf(x) = "unsatisfied"
        BY <3>3, <1>2 DEF StateOf
      <4> QED BY <4>1, <4>2, <2>2, Zenon
    <3> QED BY <3>1, <3>2, <3>3
  <2>7. StateOf(x) \in EntryStates
    BY DEF StateOf, EntryStates
  <2>8. q.cursor <= n
    <3>1. CASE q.cursor = 1
      BY <3>1, <2>1
    <3>2. CASE q.cursor > 1
      <4>1. q.cursor - 1 \in DOMAIN q.entries
        BY <3>2, <2>1 DEF IInv, CursorOnLastUsed
      <4> QED BY <4>1, <2>1
    <3> QED BY <3>1, <3>2, <2>1
  <2>9. UpdateAsserts(Add(q), x, s)
    BY <2>1, <2>2, <2>3, <2>8
       DEF UpdateAsserts, SetSaturatedAsserts, SetSatisfiedAsserts, IsActive
  <2> QED BY <2>1, <2>3, <2>6, <2>7, <2>9 DEF EntryAdded, BasicSequences
<1>5. seqs' \in [Seqs -> BasicSequences]
  BY <1>1, <1>3, <1>4, TypeFacts
<1>6. \A s \in S : UpdateAsserts(Add(seqs[s]), x, s)
  BY <1>4, AttachmentsAssumption
<1>7. asserted'
  BY <1>3, <1>6 DEF IInv
<1> QED BY <1>3, <1>4, <1>5, <1>7 DEF x

\* A new expectation keeps the bookkeeping.
LEMMA CreateKeepsBookkeeping ==
    ASSUME IInv, NEW m \in Mocks, NEW S \in Attachments,
           NEW limits \in Limits, NEW verdict \in Verdicts,
           Create(m, S, limits, verdict)
    PROVE  IInv'
<1> DEFINE x == NewExpectation(m, S, limits, verdict)
           n == Len(exps) + 1
<1>1. TypeOK
  BY DEF IInv
<1>2. /\ x \in ExpectationRecords
      /\ x.min \in Nat /\ x.max \in Nat /\ x.min <= x.max /\ x.count = 0
      /\ \A s \in Seqs : /\ x.at[s] \in Nat
                         /\ x.at[s] = IF s \in S THEN Len(seqs[s].entries) + 1
                                                 ELSE NotAttached
  <2>1. \A s \in S : HasRoom(seqs[s])
    BY DEF Create
  <2> QED BY <1>1, <2>1, NewExpectationType
<1>3. /\ exps' = Append(exps, x)
      /\ seqs' \in [Seqs -> BasicSequences]
      /\ asserted'
      /\ \A s \in Seqs : IF s \in S THEN EntryAdded(x, s) ELSE seqs'[s] = seqs[s]
  BY CreateEffect
<1> HIDE DEF x
<1>4. /\ exps' \in Seq(ExpectationRecords)
      /\ DOMAIN exps' = DOMAIN exps \cup {n}
      /\ n \in Nat /\ \A e \in DOMAIN exps : e < n /\ exps'[e] = exps[e]
      /\ exps'[n] = x
  BY <1>1, <1>2, <1>3 DEF TypeOK
<1>5. TypeOK'
  <2>1. last' \in Reports /\ asserted' \in BOOLEAN /\ terminated' \in BOOLEAN
    BY <1>1 DEF Create, TypeOK, Report, Reports
  <2> QED BY <1>3, <1>4, <2>1 DEF TypeOK
<1>6. \A s \in Seqs :
         /\ seqs'[s].cursor = seqs[s].cursor
         /\ Len(seqs[s].entries) <= Len(seqs'[s].entries)
         /\ x.at[s] <= Len(seqs'[s].entries)
         /\ \A i \in 1 .. Len(seqs[s].entries) :
               /\ i \in DOMAIN seqs'[s].entries
               /\ seqs'[s].entries[i] = seqs[s].entries[i]
         /\ \A i \in 1 .. Len(seqs'[s].entries) :
               i \in 1 .. Len(seqs[s].entries) \/ i = x.at[s]
         /\ x.at[s] # NotAttached =>
               /\ seqs'[s].entries[x.at[s]] = StateOf(x)
               /\ x.at[s] > Len(seqs[s].entries)
  <2> SUFFICES ASSUME NEW s \in Seqs
      PROVE /\ seqs'[s].cursor = seqs[s].cursor
            /\ Len(seqs[s].entries) <= Len(seqs'[s].entries)
            /\ x.at[s] <= Len(seqs'[s].entries)
            /\ \A i \in 1 .. Len(seqs[s].entries) :
                  /\ i \in DOMAIN seqs'[s].entries
                  /\ seqs'[s].entries[i] = seqs[s].entries[i]
            /\ \A i \in 1 .. Len(seqs'[s].entries) :
                  i \in 1 .. Len(seqs[s].entries) \/ i = x.at[s]
            /\ x.at[s] # NotAttached =>
                  /\ seqs'[s].entries[x.at[s]] = StateOf(x)
                  /\ x.at[s] > Len(seqs[s].entries)
    OBVIOUS
  <2>1. /\ seqs[s].entries \in Seq(EntryStates)
        /\ Len(seqs[s].entries) \in Nat
        /\ DOMAIN seqs[s].entries = 1 .. Len(seqs[s].entries)
        /\ StateOf(x) \in EntryStates
    BY <1>1, TypeFacts DEF StateOf, EntryStates
  <2>2. CASE s \in S
    <3>1. /\ x.at[s] = Len(seqs[s].entries) + 1
          /\ seqs'[s].cursor = seqs[s].cursor
          /\ seqs'[s].entries = Append(seqs[s].entries, StateOf(x))
      BY <1>3, <2>2 DEF EntryAdded
    <3> QED BY <2>1, <3>1
  <2>3. CASE s \notin S
    BY <1>2, <1>3, <2>1, <2>3 DEF NotAttached
  <2> QED BY <2>2, <2>3
<1>7. CountsWithinLimits'
  BY <1>2, <1>4 DEF IInv, CountsWithinLimits
<1>8. PositionsOrdered'
  <2> SUFFICES ASSUME NEW s \in Seqs
      PROVE /\ \A e \in DOMAIN exps' : exps'[e].at[s] <= Len(seqs'[s].entries)
            /\ \A e, f \in DOMAIN exps' :
                  /\ e < f
                  /\ exps'[e].at[s] # NotAttached
                  /\ exps'[f].at[s] # NotAttached
                  => exps'[e].at[s] < exps'[f].at[s]
    BY DEF PositionsOrdered
  <2>1. /\ Len(seqs[s].entries) \in Nat /\ Len(seqs'[s].entries) \in Nat
        /\ x.at[s] \in Nat
    BY <1>1, <1>2, <1>3, TypeFacts DEF BasicSequences
  <2>2. ASSUME NEW e \in DOMAIN exps
        PROVE  exps[e].at[s] \in Nat /\ exps[e].at[s] <= Len(seqs[s].entries)
    BY <1>1, TypeFacts DEF IInv, PositionsOrdered
  <2>3. ASSUME NEW e \in DOMAIN exps, NEW f \in DOMAIN exps, e < f,
               exps[e].at[s] # NotAttached, exps[f].at[s] # NotAttached
        PROVE  exps[e].at[s] < exps[f].at[s]
    BY <2>3 DEF IInv, PositionsOrdered
  <2>4. ASSUME NEW e \in DOMAIN exps'
        PROVE  exps'[e].at[s] <= Len(seqs'[s].entries)
    BY <1>4, <1>6, <2>1, <2>2
  <2>5. ASSUME NEW e \in DOMAIN exps', NEW f \in DOMAIN exps', e < f,
               exps'[e].at[s] # NotAttached, exps'[f].at[s] # NotAttached
        PROVE  exps'[e].at[s] < exps'[f].at[s]
    <3>1. e \in DOMAIN exps /\ (f \in DOMAIN exps \/ f = n)
      BY <1>1, <1>4, <2>5, TypeFacts
    <3>2. CASE f \in DOMAIN exps
      BY <1>4, <2>3, <2>5, <3>1, <3>2
    <3>3. CASE f = n
      BY <1>4, <1>6, <2>1, <2>2, <2>5, <3>1, <3>3
    <3> QED BY <3>1, <3>2, <3>3
  <2> QED BY <2>4, <2>5
<1>9. EntriesOwned'
  <2> SUFFICES ASSUME NEW s \in Seqs, NEW i \in 1 .. Len(seqs'[s].entries)
               PROVE  \E e \in DOMAIN exps' : exps'[e].at[s] = i
    BY DEF EntriesOwned
  <2>1. CASE i \in 1 .. Len(seqs[s].entries)
    <3>1. PICK e \in DOMAIN exps : exps[e].at[s] = i
      BY <2>1 DEF IInv, EntriesOwned
    <3> QED BY <1>4, <3>1
  <2>2. CASE i = x.at[s]
    BY <1>4, <2>2
  <2> QED BY <1>6, <2>1, <2>2
<1>10. StatesPublished'
  <2> SUFFICES ASSUME NEW e \in DOMAIN exps', NEW s \in Seqs,
                      exps'[e].at[s] # NotAttached
               PROVE  seqs'[s].entries[exps'[e].at[s]] = StateOf(exps'[e])
    BY DEF StatesPublished
  <2>1. CASE e \in DOMAIN exps
    <3>1. /\ exps[e].at[s] \in 1 .. Len(seqs[s].entries)
          /\ seqs[s].entries[exps[e].at[s]] = StateOf(exps[e])
      BY <1>1, <1>4, <2>1, TypeFacts
         DEF IInv, PositionsOrdered, StatesPublished, NotAttached
    <3> QED BY <1>4, <1>6, <2>1, <3>1
  <2>2. CASE e = n
    BY <1>4, <1>6, <2>2
  <2> QED BY <1>4, <2>1, <2>2
<1>11. CursorOnLastUsed'
  <2> SUFFICES ASSUME NEW s \in Seqs
      PROVE  /\ \A i \in 1 .. (seqs'[s].cursor - 1) :
                   /\ i \in DOMAIN seqs'[s].entries
                   /\ IsFulfilled(seqs'[s].entries[i])
             /\ seqs'[s].cursor > 1 => \E e \in DOMAIN exps' :
                   exps'[e].at[s] = seqs'[s].cursor /\ exps'[e].count > 0
             /\ \A e \in DOMAIN exps' :
                   exps'[e].at[s] > seqs'[s].cursor => exps'[e].count = 0
    BY DEF CursorOnLastUsed
  <2>1. /\ \A i \in 1 .. (seqs[s].cursor - 1) :
              /\ i \in 1 .. Len(seqs[s].entries)
              /\ IsFulfilled(seqs[s].entries[i])
        /\ seqs[s].cursor > 1 => \E e \in DOMAIN exps :
              exps[e].at[s] = seqs[s].cursor /\ exps[e].count > 0
        /\ \A e \in DOMAIN exps :
              exps[e].at[s] > seqs[s].cursor => exps[e].count = 0
    BY <1>1, TypeFacts DEF IInv, CursorOnLastUsed
  <2>2. \A i \in 1 .. (seqs'[s].cursor - 1) :
           i \in DOMAIN seqs'[s].entries /\ IsFulfilled(seqs'[s].entries[i])
    BY <1>6, <2>1
  <2>3. seqs'[s].cursor > 1 => \E e \in DOMAIN exps' :
           exps'[e].at[s] = seqs'[s].cursor /\ exps'[e].count > 0
    BY <1>4, <1>6, <2>1
  <2>4. \A e \in DOMAIN exps' :
           exps'[e].at[s] > seqs'[s].cursor => exps'[e].count = 0
    BY <1>2, <1>4, <1>6, <2>1
  <2> QED BY <2>2, <2>3, <2>4
<1>12. asserted' = TRUE
  BY <1>3, <1>5 DEF TypeOK
<1> QED BY <1>5, <1>7, <1>8, <1>9, <1>10, <1>11, <1>12 DEF IInv

-----------------------------------------------------------------------------
\* The bookkeeping holds at first and always.
LEMMA InitBookkeeping == Init => IInv
<1> SUFFICES ASSUME Init PROVE IInv
  OBVIOUS
<1> USE DEF Init
<1>1. /\ exps \in Seq(ExpectationRecords) /\ DOMAIN exps = {}
  OBVIOUS
<1>2. ASSUME NEW s \in Seqs
      PROVE  /\ seqs[s] \in BasicSequences
             /\ seqs[s].entries = <<>> /\ seqs[s].cursor = 1
  BY DEF EmptySequence, BasicSequences
<1>3. TypeOK
  BY <1>1, <1>2 DEF TypeOK, Reports, Report
<1> QED BY <1>1, <1>2, <1>3 DEF IInv, CountsWithinLimits, PositionsOrdered,
           EntriesOwned, StatesPublished, CursorOnLastUsed

\* Removal only clears the flag "live".
LEMMA RemoveKeepsBookkeeping ==
    ASSUME IInv, NEW e \in DOMAIN exps, Remove(e)
    PROVE  IInv'
<1>1. TypeOK
  BY DEF IInv
<1>2. ASSUME NEW r \in ExpectationRecords
      PROVE  /\ [r EXCEPT !.live = FALSE] \in ExpectationRecords
             /\ [r EXCEPT !.live = FALSE].at = r.at
             /\ [r EXCEPT !.live = FALSE].min = r.min
             /\ [r EXCEPT !.live = FALSE].max = r.max
             /\ [r EXCEPT !.live = FALSE].count = r.count
  BY DEF ExpectationRecords
<1>3. /\ exps' = [exps EXCEPT ![e] = [exps[e] EXCEPT !.live = FALSE]]
      /\ seqs' = seqs /\ asserted' = asserted /\ terminated' = terminated
      /\ last' \in Reports
  BY DEF Remove, Report, Reports
<1>4. /\ exps \in Seq(ExpectationRecords) /\ exps[e] \in ExpectationRecords
      /\ [exps[e] EXCEPT !.live = FALSE] \in ExpectationRecords
  BY <1>1, <1>2 DEF TypeOK
<1>5. exps' \in Seq(ExpectationRecords) /\ DOMAIN exps' = DOMAIN exps
  BY <1>3, <1>4
<1>6. ASSUME NEW f \in DOMAIN exps
      PROVE  /\ exps'[f].at = exps[f].at
             /\ exps'[f].min = exps[f].min
             /\ exps'[f].max = exps[f].max
             /\ exps'[f].count = exps[f].count
             /\ StateOf(exps'[f]) = StateOf(exps[f])
  <2>1. /\ exps'[f].at = exps[f].at
        /\ exps'[f].min = exps[f].min
        /\ exps'[f].max = exps[f].max
        /\ exps'[f].count = exps[f].count
    <3>1. CASE f = e
      BY <1>2, <1>3, <1>4, <3>1
    <3>2. CASE f # e
      BY <1>3, <1>4, <3>2
    <3> QED BY <3>1, <3>2
  <2> QED BY <2>1 DEF StateOf
<1>7. TypeOK'
  BY <1>1, <1>3, <1>5 DEF TypeOK
<1>8. CountsWithinLimits' /\ PositionsOrdered' /\ EntriesOwned'
  BY <1>3, <1>5, <1>6 DEF IInv, CountsWithinLimits, PositionsOrdered, EntriesOwned
<1>9. StatesPublished'
  <2> SUFFICES ASSUME NEW f \in DOMAIN exps, NEW s \in Seqs,
                      exps'[f].at[s] # NotAttached
               PROVE  seqs'[s].entries[exps'[f].at[s]] = StateOf(exps'[f])
    BY <1>5 DEF StatesPublished
  <2>1. seqs[s].entries[exps[f].at[s]] = StateOf(exps[f])
    BY <1>6 DEF IInv, StatesPublished
  <2> QED BY <1>3, <1>6, <2>1
<1>10. CursorOnLastUsed'
  <2> SUFFICES ASSUME NEW s \in Seqs
      PROVE  /\ \A i \in 1 .. (seqs[s].cursor - 1) :
                   /\ i \in DOMAIN seqs[s].entries
                   /\ IsFulfilled(seqs[s].entries[i])
             /\ seqs[s].cursor > 1 => \E f \in DOMAIN exps :
                   exps'[f].at[s] = seqs[s].cursor /\ exps'[f].count > 0
             /\ \A f \in DOMAIN exps :
                   exps'[f].at[s] > seqs[s].cursor => exps'[f].count = 0
    BY <1>3, <1>5 DEF CursorOnLastUsed
  <2> QED BY <1>6 DEF IInv, CursorOnLastUsed
<1> QED BY <1>3, <1>7, <1>8, <1>9, <1>10 DEF IInv

\* Steps that touch neither expectations nor sequences.
LEMMA OtherStepsKeepBookkeeping ==
    ASSUME IInv, UNCHANGED <<seqs, exps, asserted>>,
           last' \in Reports, terminated' \in BOOLEAN
    PROVE  IInv'
BY DEF IInv, TypeOK, CountsWithinLimits, PositionsOrdered, EntriesOwned,
       StatesPublished, CursorOnLastUsed, StateOf

\* The bookkeeping is inductive.
LEMMA StepKeepsBookkeeping == IInv /\ [Next]_vars => IInv'
<1> SUFFICES ASSUME IInv, [Next]_vars PROVE IInv'
  OBVIOUS
<1> USE DEF Report, Reports
<1>1. ASSUME NEW m \in Mocks, NEW S \in Attachments, NEW l \in Limits,
             NEW v \in Verdicts, Create(m, S, l, v)
      PROVE  IInv'
  BY <1>1, CreateKeepsBookkeeping
<1>2. ASSUME NEW S \in Attachments, CreateInFullSequence(S)
      PROVE  IInv'
  BY <1>2, OtherStepsKeepBookkeeping DEF CreateInFullSequence
<1>3. ASSUME NEW m \in Mocks, NEW a \in Args, NEW effect \in SideEffects,
             FullMatch(m, a, effect)
      PROVE  IInv'
  <2>1. PICK e \in Matches(m, a) : ConsumeExpectation(e, effect)
    BY <1>3 DEF FullMatch
  <2>2. e \in DOMAIN exps /\ IsApplicable(exps[e])
    BY DEF Matches, Accepting, Live
  <2>3. (/\ CountsWithinLimits
         /\ PositionsOrdered
         /\ EntriesOwned
         /\ StatesPublished
         /\ CursorOnLastUsed
         /\ asserted = TRUE)'
    BY <2>1, <2>2, ConsumeKeepsBookkeeping
  <2>4. exps' \in Seq(ExpectationRecords) /\ seqs' \in [Seqs -> BasicSequences]
    BY <2>1, <2>2, ConsumeEffect DEF CountsAfterUse
  <2>5. last' \in Reports /\ terminated' \in BOOLEAN
    BY <1>3, <2>1 DEF FullMatch, ConsumeExpectation
  <2> QED BY <2>3, <2>4, <2>5 DEF IInv, TypeOK
<1>4. ASSUME NEW m \in Mocks, NEW a \in Args, Inapplicable(m, a) \/ NoMatch(m, a)
      PROVE  IInv'
  <2>1. UNCHANGED <<seqs, exps, asserted, terminated>> /\ last' \in Reports
    BY <1>4 DEF Inapplicable, NoMatch
  <2>2. terminated' \in BOOLEAN
    <3>1. terminated' = terminated
      BY <2>1
    <3>2. terminated \in BOOLEAN
      BY DEF IInv, TypeOK
    <3> QED BY <3>1, <3>2, Zenon
  <2> QED BY <2>1, <2>2, OtherStepsKeepBookkeeping
<1>5. ASSUME NEW e \in DOMAIN exps, Remove(e)
      PROVE  IInv'
  BY <1>5, RemoveKeepsBookkeeping
<1>6. CASE UNCHANGED vars
  <2>1. terminated' \in BOOLEAN /\ last' \in Reports
    <3>1. terminated' = terminated /\ last' = last
      BY <1>6 DEF vars
    <3>2. terminated \in BOOLEAN /\ last \in Reports
      BY DEF IInv, TypeOK
    <3> QED BY <3>1, <3>2, Zenon
  <2> QED BY <1>6, <2>1, OtherStepsKeepBookkeeping DEF vars
<1> QED BY <1>1, <1>2, <1>3, <1>4, <1>5, <1>6 DEF Next

LEMMA Bookkeeping == Spec => []IInv
BY InitBookkeeping, StepKeepsBookkeeping, PTL DEF Spec

-----------------------------------------------------------------------------
\* Every variable keeps its type.
THEOREM TypeCorrect == Spec => []TypeOK
<1>1. IInv => TypeOK
  BY DEF IInv
<1> QED BY <1>1, Bookkeeping, PTL

\* No assertion of BasicSequence or ControlPolicy is ever violated, whatever
\* expectations are attached where and whatever calls arrive.
THEOREM AssertionsNeverFail == Spec => []AssertionsHold
<1>1. IInv => AssertionsHold
  BY DEF IInv, AssertionsHold
<1> QED BY <1>1, Bookkeeping, PTL

\* A cursor never leaves an unsatisfied entry behind, which is what the
\* destructor of BasicSequence asserts.
THEOREM CursorNeverSkips == Spec => []CursorSkipsOnlyFulfilled
<1>1. IInv => CursorSkipsOnlyFulfilled
  BY DEF IInv, CursorOnLastUsed, CursorSkipsOnlyFulfilled
<1> QED BY <1>1, Bookkeeping, PTL

\* The entry of an expectation shows, in every sequence, the state its count
\* calls for.
THEOREM EntriesTrackCounts == Spec => []EntriesFollowCounts
<1>1. ASSUME IInv PROVE EntriesFollowCounts
  <2> SUFFICES ASSUME NEW e \in DOMAIN exps, NEW s \in SequencesOf(exps[e])
      PROVE LET state == seqs[s].entries[exps[e].at[s]]
            IN  /\ IsFulfilled(state) <=> IsSatisfied(exps[e])
                /\ IsActive(state) <=> ~IsSaturated(exps[e])
    BY DEF EntriesFollowCounts
  <2>1. seqs[s].entries[exps[e].at[s]] = StateOf(exps[e])
    BY <1>1 DEF SequencesOf, IInv, StatesPublished
  <2>2. /\ exps[e].min \in Nat /\ exps[e].max \in Nat /\ exps[e].count \in Nat
        /\ exps[e].min <= exps[e].max /\ exps[e].count <= exps[e].max
    BY <1>1, TypeFacts DEF IInv, CountsWithinLimits
  <2> QED BY <2>1, <2>2 DEF StateOf, IsFulfilled, IsActive, IsSatisfied, IsSaturated
<1> QED BY <1>1, Bookkeeping, PTL

\* A sequence refuses the use of an expectation only where the promise of
\* sequences forbids it: the cursor blocks nothing else.
THEOREM NothingElseRefused == Spec => []RefusesOnlyWhatPromiseForbids
<1>1. ASSUME IInv PROVE RefusesOnlyWhatPromiseForbids
  <2> SUFFICES ASSUME NEW e \in DOMAIN exps, Promise!MayBeUsed(e)
               PROVE  IsApplicable(exps[e])
    BY DEF RefusesOnlyWhatPromiseForbids
  <2>1. TypeOK
    BY <1>1 DEF IInv
  <2>2. DOMAIN exps = 1 .. Len(exps) /\ Len(exps) \in Nat
    BY <2>1 DEF TypeOK
  <2>3. /\ exps[e].count < exps[e].max
        /\ \A f \in DOMAIN exps : Promise!ShareSequence(e, f) =>
              /\ f < e => exps[f].count >= exps[f].min
              /\ f > e => exps[f].count = 0
    BY <2>1, <2>2, TypeFacts DEF Promise!MayBeUsed, Attachment
  <2>4. ASSUME NEW f \in DOMAIN exps, NEW s \in Seqs,
               exps[e].at[s] # NotAttached, exps[f].at[s] # NotAttached
        PROVE  Promise!ShareSequence(e, f)
    BY <2>4 DEF Promise!ShareSequence, Attachment, SequencesOf
  <2>5. ASSUME NEW s \in SequencesOf(exps[e])
        PROVE  IsConsumable(seqs[s], exps[e].at[s])
    <3> DEFINE p == exps[e].at[s]
               q == seqs[s]
    <3>1. /\ s \in Seqs /\ p # NotAttached
          /\ p \in 1 .. Len(q.entries) /\ q.cursor \in Nat \ {0}
      BY <1>1, <2>1, TypeFacts DEF SequencesOf, IInv, PositionsOrdered, NotAttached
    <3>2. q.cursor <= p
      <4> SUFFICES ASSUME q.cursor > p PROVE FALSE
        BY <3>1
      <4>1. PICK f \in DOMAIN exps : exps[f].at[s] = q.cursor /\ exps[f].count > 0
        BY <1>1, <3>1 DEF IInv, CursorOnLastUsed
      <4>2. Promise!ShareSequence(e, f)
        BY <2>4, <3>1, <4>1 DEF NotAttached
      <4>3. e < f
        BY <1>1, <2>2, <3>1, <4>1 DEF IInv, PositionsOrdered, NotAttached
      <4> QED BY <2>2, <2>3, <4>1, <4>2, <4>3
    <3>3. ASSUME NEW i \in q.cursor .. (p - 1)
          PROVE  IsFulfilled(q.entries[i])
      <4>1. i \in 1 .. Len(q.entries) /\ i < p
        BY <3>1
      <4>2. PICK f \in DOMAIN exps : exps[f].at[s] = i
        BY <1>1, <3>1, <4>1 DEF IInv, EntriesOwned
      <4>3. Promise!ShareSequence(e, f)
        BY <2>4, <3>1, <4>1, <4>2 DEF NotAttached
      <4>4. f < e
        BY <1>1, <2>2, <3>1, <4>1, <4>2 DEF IInv, PositionsOrdered, NotAttached
      <4>5. exps[f].count >= exps[f].min
        BY <2>2, <2>3, <4>3, <4>4
      <4>6. q.entries[i] = StateOf(exps[f])
        BY <1>1, <3>1, <4>1, <4>2 DEF IInv, StatesPublished, NotAttached
      <4> QED BY <4>5, <4>6 DEF StateOf, IsFulfilled
    <3>4. IsActive(q.entries[p])
      <4>1. q.entries[p] = StateOf(exps[e])
        BY <1>1, <3>1 DEF IInv, StatesPublished
      <4>2. exps[e].count # exps[e].max
        BY <2>1, <2>3, TypeFacts
      <4> QED BY <4>1, <4>2 DEF StateOf, IsActive
    <3> QED BY <3>2, <3>3, <3>4 DEF IsConsumable
  <2> QED BY <2>1, <2>3, <2>5, TypeFacts DEF IsApplicable, IsSaturated
<1> QED BY <1>1, Bookkeeping, PTL

-----------------------------------------------------------------------------
\* An applicable expectation is one the promise allows to be used.
LEMMA ApplicableIsPromised ==
    ASSUME IInv, NEW e \in DOMAIN exps, IsApplicable(exps[e])
    PROVE  Promise!MayBeUsed(e)
<1>1. TypeOK
  BY DEF IInv
<1>2. DOMAIN exps = 1 .. Len(exps) /\ Len(exps) \in Nat
  BY <1>1 DEF TypeOK
<1>3. exps[e].count < exps[e].max
  BY <1>1, TypeFacts DEF IInv, CountsWithinLimits, IsApplicable, IsSaturated
<1>4. ASSUME NEW f \in DOMAIN exps, Promise!ShareSequence(e, f)
      PROVE  \E s \in Seqs : /\ exps[e].at[s] # NotAttached
                             /\ exps[f].at[s] # NotAttached
                             /\ IsConsumable(seqs[s], exps[e].at[s])
  BY <1>4 DEF Promise!ShareSequence, Attachment, SequencesOf, IsApplicable
<1>5. ASSUME NEW f \in DOMAIN exps, f < e, Promise!ShareSequence(e, f)
      PROVE  exps[f].count >= exps[f].min
  <2>1. PICK s \in Seqs : /\ exps[e].at[s] # NotAttached
                          /\ exps[f].at[s] # NotAttached
                          /\ IsConsumable(seqs[s], exps[e].at[s])
    BY <1>4, <1>5
  <2>2. /\ exps[f].at[s] < exps[e].at[s]
        /\ exps[f].at[s] \in Nat \ {0} /\ exps[e].at[s] \in Nat
        /\ seqs[s].cursor \in Nat \ {0}
    BY <1>1, <1>5, <2>1, TypeFacts DEF IInv, PositionsOrdered, NotAttached
  <2>3. IsFulfilled(seqs[s].entries[exps[f].at[s]])
    <3>1. CASE exps[f].at[s] < seqs[s].cursor
      BY <2>2, <3>1 DEF IInv, CursorOnLastUsed
    <3>2. CASE ~(exps[f].at[s] < seqs[s].cursor)
      BY <2>1, <2>2, <3>2 DEF IsConsumable
    <3> QED BY <3>1, <3>2
  <2>4. seqs[s].entries[exps[f].at[s]] = StateOf(exps[f])
    BY <2>1 DEF IInv, StatesPublished
  <2>5. exps[f].min \in Nat /\ exps[f].max \in Nat /\ exps[f].count \in Nat
        /\ exps[f].min <= exps[f].max
    BY <1>1, TypeFacts DEF IInv, CountsWithinLimits
  <2> QED BY <2>3, <2>4, <2>5 DEF StateOf, IsFulfilled
<1>6. ASSUME NEW f \in DOMAIN exps, f > e, Promise!ShareSequence(e, f)
      PROVE  exps[f].count = 0
  <2>1. PICK s \in Seqs : /\ exps[e].at[s] # NotAttached
                          /\ exps[f].at[s] # NotAttached
                          /\ IsConsumable(seqs[s], exps[e].at[s])
    BY <1>4, <1>6
  <2>2. /\ exps[e].at[s] < exps[f].at[s] /\ seqs[s].cursor <= exps[e].at[s]
        /\ exps[f].at[s] \in Nat /\ exps[e].at[s] \in Nat /\ seqs[s].cursor \in Nat
    BY <1>1, <1>6, <2>1, TypeFacts DEF IInv, PositionsOrdered, IsConsumable
  <2> QED BY <2>2 DEF IInv, CursorOnLastUsed
<1> QED BY <1>1, <1>2, <1>3, <1>5, <1>6, TypeFacts DEF Promise!MayBeUsed, Attachment

\* The mocking framework keeps the promise of sequences: seen through limits,
\* attachments and counts alone, every behaviour is one of SequencePromise.
THEOREM SequencePromiseKept == Spec => KeepsSequencePromise
<1> DEFINE attached == [e \in DOMAIN exps |-> Attachment(e)]
           count == [e \in DOMAIN exps |-> exps[e].count]
<1>1. Init => Promise!Init
  <2> SUFFICES ASSUME Init PROVE Promise!Init
    OBVIOUS
  <2>1. exps = <<>>
    BY DEF Init
  <2> QED BY <2>1 DEF Promise!Init
<1>2. IInv /\ [Next]_vars => [Promise!Next]_(Promise!vars)
  <2> SUFFICES ASSUME IInv, [Next]_vars
               PROVE  [Promise!Next]_(Promise!vars)
    OBVIOUS
  <2>1. TypeOK /\ DOMAIN exps = 1 .. Len(exps) /\ Len(exps) \in Nat
    BY DEF IInv, TypeOK
  <2>2. ASSUME UNCHANGED exps PROVE UNCHANGED Promise!vars
    BY <2>2 DEF Promise!vars, Attachment, SequencesOf
  <2>3. ASSUME NEW m \in Mocks, NEW S \in Attachments, NEW l \in Limits,
               NEW v \in Verdicts, Create(m, S, l, v)
        PROVE  Promise!Next
    <3> DEFINE x == NewExpectation(m, S, l, v)
               n == Len(exps)
               a == [min |-> l[1], max |-> l[2], in |-> S]
    <3>1. /\ exps' = Append(exps, x) /\ x \in ExpectationRecords
      BY <2>1, <2>3, NewExpectationType DEF Create
    <3>2. /\ DOMAIN exps' = 1 .. (n + 1)
          /\ \A e \in 1 .. n : exps'[e] = exps[e]
          /\ exps'[n + 1] = x
      BY <2>1, <3>1 DEF TypeOK
    <3>3. x.count = 0 /\ x.min = l[1] /\ x.max = l[2]
      BY DEF NewExpectation
    <3>4. SequencesOf(x) = S
      BY <2>1, TypeFacts, AttachmentsAssumption
         DEF NewExpectation, SequencesOf, NotAttached
    <3> HIDE DEF x
    <3>5. count' = Append(count, 0)
      BY <2>1, <3>2, <3>3
    <3>6. attached' = Append(attached, a)
      BY <2>1, <3>2, <3>3, <3>4 DEF Attachment
    <3>7. Promise!Attach(a)
      BY <3>5, <3>6 DEF Promise!Attach
    <3> QED BY <3>7 DEF Promise!Next
  <2>4. ASSUME NEW m \in Mocks, NEW a \in Args, NEW effect \in SideEffects,
               FullMatch(m, a, effect)
        PROVE  Promise!Next
    <3>1. PICK e \in Matches(m, a) : ConsumeExpectation(e, effect)
      BY <2>4 DEF FullMatch
    <3>2. e \in DOMAIN exps /\ IsApplicable(exps[e])
      BY DEF Matches, Accepting, Live
    <3>3. CountsAfterUse(e)
      BY <3>1, <3>2, ConsumeEffect
    <3>4. Promise!MayBeUsed(e)
      BY <3>2, ApplicableIsPromised
    <3>5. UNCHANGED attached
      BY <3>3 DEF CountsAfterUse, Attachment, SequencesOf
    <3>6. count' = [count EXCEPT ![e] = @ + 1]
      BY <3>2, <3>3 DEF CountsAfterUse
    <3>7. Promise!Use(e)
      BY <3>4, <3>5, <3>6 DEF Promise!Use
    <3> QED BY <3>2, <3>7 DEF Promise!Next
  <2>5. ASSUME NEW e \in DOMAIN exps, Remove(e)
        PROVE  UNCHANGED Promise!vars
    <3>1. ASSUME NEW r \in ExpectationRecords
          PROVE  /\ [r EXCEPT !.live = FALSE].at = r.at
                 /\ [r EXCEPT !.live = FALSE].min = r.min
                 /\ [r EXCEPT !.live = FALSE].max = r.max
                 /\ [r EXCEPT !.live = FALSE].count = r.count
      BY DEF ExpectationRecords
    <3>2. exps' = [exps EXCEPT ![e] = [exps[e] EXCEPT !.live = FALSE]]
      BY <2>5 DEF Remove
    <3>3. exps[e] \in ExpectationRecords
      BY <2>1, TypeFacts
    <3>4. DOMAIN exps' = DOMAIN exps
      BY <3>2
    <3>5. ASSUME NEW f \in DOMAIN exps
          PROVE  /\ exps'[f].at = exps[f].at
                 /\ exps'[f].min = exps[f].min
                 /\ exps'[f].max = exps[f].max
                 /\ exps'[f].count = exps[f].count
      <4>1. CASE f = e
        BY <3>1, <3>2, <3>3, <4>1
      <4>2. CASE f # e
        BY <3>2, <4>2
      <4> QED BY <4>1, <4>2
    <3> QED BY <3>4, <3>5 DEF Promise!vars, Attachment, SequencesOf
  <2>6. ASSUME NEW S \in Attachments, CreateInFullSequence(S)
        PROVE  UNCHANGED exps
    BY <2>6 DEF CreateInFullSequence
  <2>7. ASSUME NEW m \in Mocks, NEW a \in Args, Inapplicable(m, a) \/ NoMatch(m, a)
        PROVE  UNCHANGED exps
    BY <2>7 DEF Inapplicable, NoMatch
  <2>8. CASE UNCHANGED vars
    BY <2>2, <2>8 DEF vars
  <2> QED BY <2>2, <2>3, <2>4, <2>5, <2>6, <2>7, <2>8 DEF Next
<1> QED BY <1>1, <1>2, Bookkeeping, PTL DEF Spec, KeepsSequencePromise, Promise!Spec

=============================================================================
