--------------------------- MODULE LifetimesProofs ---------------------------
(***************************************************************************)
(* Who owns what while blocks are left, and what the destructors report,   *)
(* proved for any number of sequences, objects and expectations.           *)
(***************************************************************************)
EXTENDS Lifetimes, WellFoundedInduction, SequenceTheorems, TLAPS

\* An object owns living expectations only, a ScopedSequence those that were
\* added to it.
OwnedAreAlive ==
    \A i \in DOMAIN stack : \A k \in DOMAIN stack[i].owned :
        /\ stack[i].owned[k] \in DOMAIN exps
        /\ exps[stack[i].owned[k]].alive
        /\ exps[stack[i].owned[k]].scoped = stack[i].seq

\* unique_ptr: no two objects own the same expectation.
OwnedByOne ==
    \A i, j \in DOMAIN stack :
        \A k \in DOMAIN stack[i].owned, l \in DOMAIN stack[j].owned :
            stack[i].owned[k] = stack[j].owned[l] => i = j

\* A ScopedSequence holds its expectations in the order of their creation.
OwnedInOrder ==
    \A i \in DOMAIN stack : \A k, l \in DOMAIN stack[i].owned :
        k < l => stack[i].owned[k] < stack[i].owned[l]

\* No expectation leaks.
AliveAreOwned ==
    \A e \in DOMAIN exps : exps[e].alive =>
        \E i \in DOMAIN stack : \E k \in DOMAIN stack[i].owned :
            stack[i].owned[k] = e

\* No two objects are interfaces of the same sequence.
SequencesHeldByOne ==
    \A i, j \in DOMAIN stack :
        stack[i].seq # None /\ stack[i].seq = stack[j].seq => i = j

ScopedAreAttached ==
    \A e \in DOMAIN exps :
        exps[e].scoped # None => exps[e].scoped \in exps[e].in

TryBlocksOwnNothing ==
    \A i \in DOMAIN stack :
        stack[i].kind = "try" => stack[i].seq = None /\ stack[i].owned = <<>>

\* An unsatisfied expectation ends before its ScopedSequence only if that one
\* is being destroyed, while an exception is in flight.
AbandonedWhileThrowing ==
    \A e \in DOMAIN exps, i \in DOMAIN stack :
        /\ ~exps[e].alive /\ Unsatisfied(e)
        /\ exps[e].scoped # None /\ exps[e].scoped = stack[i].seq
        => i = Len(stack) /\ inFlight = 1

ThrownMeansLeaving == inFlight > 0 => leaving

\* What ended unsatisfied has thrown.
FailuresWereThrown ==
    inFlight = 0 /\ ~caught /\ ~terminated =>
        \A e \in DOMAIN exps : exps[e].alive \/ exps[e].satisfied

OwnershipInv ==
    /\ TypeOK
    /\ OwnedAreAlive
    /\ OwnedByOne
    /\ OwnedInOrder
    /\ AliveAreOwned
    /\ SequencesHeldByOne
    /\ ScopedAreAttached
    /\ TryBlocksOwnNothing

IInv ==
    /\ OwnershipInv
    /\ AbandonedWhileThrowing
    /\ ThrownMeansLeaving
    /\ FailuresWereThrown
    /\ ScopedReportsFirst
    /\ UnwindingIsSafe

-----------------------------------------------------------------------------
\* What the types of the variables say of their parts.
LEMMA TypeFacts ==
    ASSUME TypeOK
    PROVE  /\ Len(stack) \in Nat /\ DOMAIN stack = 1 .. Len(stack)
           /\ \A i \in DOMAIN stack :
                 /\ stack[i] \in Objects
                 /\ stack[i].seq \in Seqs \cup {None}
                 /\ stack[i].owned \in Seq(Nat)
                 /\ Len(stack[i].owned) \in Nat
                 /\ DOMAIN stack[i].owned = 1 .. Len(stack[i].owned)
           /\ Len(exps) \in Nat /\ DOMAIN exps = 1 .. Len(exps)
           /\ \A e \in DOMAIN exps : exps[e] \in ExpectationRecords
<1>1. stack \in Seq(Objects) /\ exps \in Seq(ExpectationRecords)
  BY DEF TypeOK
<1>2. ASSUME NEW o \in Objects
      PROVE  /\ o.seq \in Seqs \cup {None} /\ o.owned \in Seq(Nat)
             /\ Len(o.owned) \in Nat /\ DOMAIN o.owned = 1 .. Len(o.owned)
  BY DEF Objects
<1> QED BY <1>1, <1>2

\* What the updates of the stack of objects do.
LEMMA ReplaceTop ==
    ASSUME NEW S, NEW s \in Seq(S), Len(s) > 0, NEW x \in S
    PROVE  /\ Front(s) \o <<x>> \in Seq(S)
           /\ DOMAIN (Front(s) \o <<x>>) = DOMAIN s
           /\ Len(Front(s) \o <<x>>) = Len(s)
           /\ (Front(s) \o <<x>>)[Len(s)] = x
           /\ \A i \in DOMAIN s : i # Len(s) => (Front(s) \o <<x>>)[i] = s[i]
BY DEF Front

LEMMA DropTop ==
    ASSUME NEW S, NEW s \in Seq(S), Len(s) > 0
    PROVE  /\ Front(s) \in Seq(S)
           /\ Len(Front(s)) = Len(s) - 1
           /\ DOMAIN Front(s) = DOMAIN s \ {Len(s)}
           /\ \A i \in DOMAIN Front(s) : Front(s)[i] = s[i]
<1>1. Len(s) \in Nat /\ DOMAIN s = 1 .. Len(s)
  OBVIOUS
<1>2. /\ Front(s) \in Seq(S) /\ Len(Front(s)) = Len(s) - 1
      /\ \A i \in 1 .. (Len(s) - 1) : Front(s)[i] = s[i]
  BY <1>1 DEF Front
<1>3. DOMAIN Front(s) = 1 .. (Len(s) - 1)
  BY <1>2
<1>4. DOMAIN Front(s) = DOMAIN s \ {Len(s)}
  BY <1>1, <1>3
<1> QED BY <1>2, <1>3, <1>4

\* The end of expectations is all that changes in them.
LEMMA BuryResult ==
    ASSUME TypeOK, NEW gone
    PROVE  /\ Bury(gone) \in Seq(ExpectationRecords)
           /\ DOMAIN Bury(gone) = DOMAIN exps
           /\ \A e \in DOMAIN exps :
                 /\ Bury(gone)[e].in = exps[e].in
                 /\ Bury(gone)[e].scoped = exps[e].scoped
                 /\ Bury(gone)[e].satisfied = exps[e].satisfied
                 /\ Bury(gone)[e].alive <=> exps[e].alive /\ e \notin gone
<1>1. exps \in Seq(ExpectationRecords)
  BY DEF TypeOK
<1>2. ASSUME NEW r \in ExpectationRecords
      PROVE  LET x == [r EXCEPT !.alive = FALSE]
             IN  /\ x \in ExpectationRecords /\ x.in = r.in
                 /\ x.scoped = r.scoped /\ x.satisfied = r.satisfied
                 /\ ~x.alive
  BY DEF ExpectationRecords
<1>3. DOMAIN Bury(gone) = 1 .. Len(exps) /\ Len(exps) \in Nat
  BY <1>1 DEF Bury
<1>4. ASSUME NEW e \in DOMAIN exps
      PROVE  /\ Bury(gone)[e] \in ExpectationRecords
             /\ Bury(gone)[e].in = exps[e].in
             /\ Bury(gone)[e].scoped = exps[e].scoped
             /\ Bury(gone)[e].satisfied = exps[e].satisfied
             /\ Bury(gone)[e].alive <=> exps[e].alive /\ e \notin gone
  <2>1. Bury(gone)[e] = IF e \in gone THEN [exps[e] EXCEPT !.alive = FALSE]
                                      ELSE exps[e]
    BY DEF Bury
  <2>2. exps[e] \in ExpectationRecords
    BY <1>1
  <2>3. CASE e \in gone
    BY <1>2, <2>1, <2>2, <2>3
  <2>4. CASE e \notin gone
    BY <2>1, <2>2, <2>4
  <2> QED BY <2>3, <2>4
<1>5. /\ Bury(gone) = [e \in 1 .. Len(exps) |-> Bury(gone)[e]]
      /\ DOMAIN exps = 1 .. Len(exps)
  BY <1>1 DEF Bury
<1>6. Bury(gone) \in Seq(ExpectationRecords)
  <2>1. Bury(gone) \in [1 .. Len(exps) -> ExpectationRecords]
    BY <1>4, <1>5
  <2> QED BY <1>3, <2>1, SeqDef
<1> QED BY <1>1, <1>3, <1>4, <1>6

\* An object that owns something else is otherwise the same.
LEMMA OwnedReplaced ==
    ASSUME NEW r \in Objects, NEW q \in Seq(Nat)
    PROVE  LET o == [r EXCEPT !.owned = q]
           IN  /\ o \in Objects /\ o.seq = r.seq /\ o.kind = r.kind
               /\ o.owned = q
BY DEF Objects

\* The first of some positions is one of them, and none comes before it.
LEMMA FirstExists ==
    ASSUME NEW S \in SUBSET Nat, S # {}
    PROVE  Min(S) \in S /\ \A k \in S : Min(S) <= k
<1>1. PICK x \in S : \A y \in S : ~(<<y, x>> \in OpToRel(<, Nat))
  BY NatLessThanWellFounded, WFMin
<1>2. \A y \in S : x <= y
  <2> SUFFICES ASSUME NEW y \in S, ~(x <= y) PROVE FALSE
    OBVIOUS
  <2>1. y < x /\ x \in Nat /\ y \in Nat
    OBVIOUS
  <2> QED BY <1>1, <2>1 DEF OpToRel
<1> QED BY <1>2 DEF Min

-----------------------------------------------------------------------------
\* Owners and owned, action by action.

LEMMA InitOwnership == Init => OwnershipInv
<1> SUFFICES ASSUME Init PROVE OwnershipInv
  OBVIOUS
<1>1. DOMAIN exps = {} /\ DOMAIN stack = {}
  BY DEF Init
<1>2. TypeOK
  <2>1. \A S : <<>> \in Seq(S)
    OBVIOUS
  <2>2. reports \in Seq(DOMAIN exps)
    BY <2>1 DEF Init
  <2> QED BY <2>1, <2>2 DEF Init, TypeOK
<1> QED BY <1>1, <1>2 DEF OwnershipInv, OwnedAreAlive, OwnedByOne,
           OwnedInOrder, AliveAreOwned, SequencesHeldByOne, ScopedAreAttached,
           TryBlocksOwnNothing

\* Nothing that an expectation or an object is made of changes.
LEMMA FlagsKeepOwnership ==
    ASSUME OwnershipInv, UNCHANGED <<exps, stack, reports>>,
           leaving' \in BOOLEAN, inFlight' \in {0, 1}, caught' \in BOOLEAN,
           overwrote' \in BOOLEAN, terminated' \in BOOLEAN
    PROVE  OwnershipInv'
BY DEF OwnershipInv, TypeOK, OwnedAreAlive, OwnedByOne, OwnedInOrder,
   AliveAreOwned, SequencesHeldByOne, ScopedAreAttached, TryBlocksOwnNothing

\* A new object that owns nothing.
LEMMA DeclareKeepsOwnership ==
    ASSUME OwnershipInv, NEW o \in Objects, o.owned = <<>>,
           o.kind = "try" => o.seq = None,
           o.seq # None => \A i \in DOMAIN stack : stack[i].seq # o.seq,
           stack' = Append(stack, o),
           UNCHANGED <<exps, leaving, inFlight, reports, caught, overwrote,
                       terminated>>
    PROVE  OwnershipInv'
<1>1. TypeOK /\ stack \in Seq(Objects)
  BY DEF OwnershipInv, TypeOK
<1>2. /\ DOMAIN stack' = DOMAIN stack \cup {Len(stack) + 1}
      /\ (Len(stack) + 1) \notin DOMAIN stack
      /\ \A i \in DOMAIN stack : stack'[i] = stack[i]
      /\ stack'[Len(stack) + 1] = o
      /\ stack' \in Seq(Objects)
  BY <1>1
<1>3. DOMAIN o.owned = {}
  OBVIOUS
<1>4. TypeOK'
  BY <1>1, <1>2 DEF TypeOK
<1>5. OwnedAreAlive' /\ OwnedByOne' /\ OwnedInOrder'
  BY <1>2, <1>3 DEF OwnershipInv, OwnedAreAlive, OwnedByOne, OwnedInOrder
<1>6. AliveAreOwned'
  BY <1>2 DEF OwnershipInv, AliveAreOwned
<1>7. SequencesHeldByOne'
  BY <1>2 DEF OwnershipInv, SequencesHeldByOne
<1>8. ScopedAreAttached' /\ TryBlocksOwnNothing'
  BY <1>2 DEF OwnershipInv, ScopedAreAttached, TryBlocksOwnNothing
<1> QED BY <1>4, <1>5, <1>6, <1>7, <1>8 DEF OwnershipInv

LEMMA DeclareExpectationKeepsOwnership ==
    ASSUME OwnershipInv, NEW S \in SUBSET Seqs, NEW satisfied \in BOOLEAN,
           DeclareExpectation(S, satisfied)
    PROVE  OwnershipInv'
<1> DEFINE n == Len(exps) + 1
           x == NewExpectation(S, satisfied, None)
           o == Object("expectation", None, <<n>>)
<1>1. /\ TypeOK /\ stack \in Seq(Objects) /\ exps \in Seq(ExpectationRecords)
      /\ n \in Nat
  BY DEF OwnershipInv, TypeOK
<1>2. /\ x \in ExpectationRecords /\ x.in = S /\ x.scoped = None
      /\ x.alive = TRUE
  BY DEF NewExpectation, ExpectationRecords
<1>3. /\ o \in Objects /\ o.seq = None /\ o.kind = "expectation"
      /\ DOMAIN o.owned = {1} /\ o.owned[1] = n
  BY <1>1 DEF Object, Objects
<1>4. exps' = Append(exps, x) /\ stack' = Append(stack, o)
  BY DEF DeclareExpectation, Declare
<1> HIDE DEF x, o
<1>5. /\ DOMAIN stack' = DOMAIN stack \cup {Len(stack) + 1}
      /\ (Len(stack) + 1) \notin DOMAIN stack
      /\ \A i \in DOMAIN stack : stack'[i] = stack[i]
      /\ stack'[Len(stack) + 1] = o
      /\ stack' \in Seq(Objects)
  BY <1>1, <1>3, <1>4
<1>6. /\ DOMAIN exps' = DOMAIN exps \cup {n} /\ n \notin DOMAIN exps
      /\ \A e \in DOMAIN exps : exps'[e] = exps[e]
      /\ exps'[n] = x
      /\ exps' \in Seq(ExpectationRecords)
  BY <1>1, <1>2, <1>4
<1>7. TypeOK'
  <2>1. UNCHANGED <<leaving, inFlight, reports, caught, overwrote, terminated>>
    BY DEF DeclareExpectation
  <2>2. reports' \in Seq(DOMAIN exps')
    <3>1. reports \in Seq(DOMAIN exps)
      BY <1>1 DEF TypeOK
    <3> QED BY <1>6, <2>1, <3>1
  <2> QED BY <1>1, <1>5, <1>6, <2>1, <2>2 DEF TypeOK
<1>8. OwnedAreAlive'
  BY <1>2, <1>3, <1>5, <1>6 DEF OwnershipInv, OwnedAreAlive
<1>9. OwnedByOne' /\ OwnedInOrder'
  BY <1>3, <1>5, <1>6 DEF OwnershipInv, OwnedAreAlive, OwnedByOne, OwnedInOrder
<1>10. AliveAreOwned'
  BY <1>3, <1>5, <1>6 DEF OwnershipInv, AliveAreOwned
<1>11. SequencesHeldByOne'
  BY <1>3, <1>5 DEF OwnershipInv, SequencesHeldByOne
<1>12. ScopedAreAttached' /\ TryBlocksOwnNothing'
  BY <1>2, <1>3, <1>5, <1>6 DEF OwnershipInv, ScopedAreAttached,
     TryBlocksOwnNothing
<1> QED BY <1>7, <1>8, <1>9, <1>10, <1>11, <1>12 DEF OwnershipInv

LEMMA AddToScopedKeepsOwnership ==
    ASSUME OwnershipInv, NEW i \in DOMAIN stack, NEW S \in SUBSET Seqs,
           NEW satisfied \in BOOLEAN, AddToScoped(i, S, satisfied)
    PROVE  OwnershipInv'
<1> DEFINE n == Len(exps) + 1
           s == stack[i].seq
           x == NewExpectation(S \cup {s}, satisfied, s)
           o == [stack[i] EXCEPT !.owned = Append(@, n)]
           m == Len(stack[i].owned) + 1
<1>1. /\ TypeOK /\ stack \in Seq(Objects) /\ exps \in Seq(ExpectationRecords)
      /\ n \in Nat /\ s # None /\ stack[i].kind = "scoped"
  BY DEF OwnershipInv, TypeOK, AddToScoped
<1>2. /\ stack[i] \in Objects /\ s \in Seqs
      /\ stack[i].owned \in Seq(Nat) /\ m \in Nat
  BY <1>1, TypeFacts
<1>3. /\ x \in ExpectationRecords /\ x.in = S \cup {s} /\ x.scoped = s
      /\ x.alive = TRUE
  BY <1>2 DEF NewExpectation, ExpectationRecords
<1>4. /\ o \in Objects /\ o.seq = s /\ o.kind = "scoped"
      /\ o.owned = Append(stack[i].owned, n)
  <2>1. Append(stack[i].owned, n) \in Seq(Nat)
    BY <1>1, <1>2
  <2> QED BY <1>1, <1>2, <2>1, OwnedReplaced
<1>5. /\ DOMAIN o.owned = DOMAIN stack[i].owned \cup {m}
      /\ m \notin DOMAIN stack[i].owned
      /\ \A k \in DOMAIN stack[i].owned : k < m
      /\ \A k \in DOMAIN stack[i].owned : ~(m < k)
      /\ \A k \in DOMAIN stack[i].owned : o.owned[k] = stack[i].owned[k]
      /\ o.owned[m] = n
      /\ ~(m < m)
  BY <1>1, <1>2, <1>4
<1>6. exps' = Append(exps, x) /\ stack' = [stack EXCEPT ![i] = o]
  BY DEF AddToScoped
<1> HIDE DEF x, o, m
<1>7. /\ DOMAIN stack' = DOMAIN stack /\ stack'[i] = o
      /\ \A j \in DOMAIN stack : j # i => stack'[j] = stack[j]
      /\ \A j \in DOMAIN stack : /\ stack'[j].seq = stack[j].seq
                                 /\ stack'[j].kind = stack[j].kind
      /\ stack' \in Seq(Objects)
  BY <1>1, <1>4, <1>6
<1>8. /\ DOMAIN exps' = DOMAIN exps \cup {n} /\ n \notin DOMAIN exps
      /\ \A e \in DOMAIN exps : exps'[e] = exps[e] /\ e < n
      /\ exps'[n] = x
      /\ exps' \in Seq(ExpectationRecords)
  BY <1>1, <1>3, <1>6
<1>9. TypeOK'
  <2>1. UNCHANGED <<leaving, inFlight, reports, caught, overwrote, terminated>>
    BY DEF AddToScoped
  <2>2. reports' \in Seq(DOMAIN exps')
    <3>1. reports \in Seq(DOMAIN exps)
      BY <1>1 DEF TypeOK
    <3> QED BY <1>8, <2>1, <3>1
  <2> QED BY <1>1, <1>7, <1>8, <2>1, <2>2 DEF TypeOK
\* What an object owns is what it owned before, or the new expectation.
<1>10. ASSUME NEW j \in DOMAIN stack', NEW k \in DOMAIN stack'[j].owned
       PROVE  \/ /\ k \in DOMAIN stack[j].owned
                 /\ stack'[j].owned[k] = stack[j].owned[k]
                 /\ stack[j].owned[k] \in DOMAIN exps
              \/ j = i /\ k = m /\ stack'[j].owned[k] = n
  BY <1>5, <1>7 DEF OwnershipInv, OwnedAreAlive
<1>11. OwnedAreAlive'
  <2> SUFFICES ASSUME NEW j \in DOMAIN stack', NEW k \in DOMAIN stack'[j].owned
               PROVE  /\ stack'[j].owned[k] \in DOMAIN exps'
                      /\ exps'[stack'[j].owned[k]].alive
                      /\ exps'[stack'[j].owned[k]].scoped = stack'[j].seq
    BY DEF OwnedAreAlive
  <2>1. CASE j = i /\ k = m /\ stack'[j].owned[k] = n
    BY <1>3, <1>4, <1>7, <1>8, <2>1
  <2>2. CASE /\ k \in DOMAIN stack[j].owned
             /\ stack'[j].owned[k] = stack[j].owned[k]
    BY <1>7, <1>8, <2>2 DEF OwnershipInv, OwnedAreAlive
  <2> QED BY <1>10, <2>1, <2>2
<1>12. OwnedByOne'
  <2> SUFFICES ASSUME NEW j \in DOMAIN stack', NEW h \in DOMAIN stack',
                      NEW k \in DOMAIN stack'[j].owned,
                      NEW l \in DOMAIN stack'[h].owned,
                      stack'[j].owned[k] = stack'[h].owned[l]
               PROVE  j = h
    BY DEF OwnedByOne
  <2> QED BY <1>7, <1>8, <1>10 DEF OwnershipInv, OwnedByOne
<1>13. OwnedInOrder'
  <2> SUFFICES ASSUME NEW j \in DOMAIN stack', NEW k \in DOMAIN stack'[j].owned,
                      NEW l \in DOMAIN stack'[j].owned, k < l
               PROVE  stack'[j].owned[k] < stack'[j].owned[l]
    BY DEF OwnedInOrder
  <2>1. CASE j # i
    BY <1>7, <2>1 DEF OwnershipInv, OwnedInOrder
  <2>2. CASE j = i
    BY <1>5, <1>7, <1>8, <1>10, <2>2 DEF OwnershipInv, OwnedInOrder
  <2> QED BY <2>1, <2>2
<1>14. AliveAreOwned'
  <2> SUFFICES ASSUME NEW e \in DOMAIN exps', exps'[e].alive
               PROVE  \E j \in DOMAIN stack' : \E k \in DOMAIN stack'[j].owned :
                          stack'[j].owned[k] = e
    BY DEF AliveAreOwned
  <2>1. CASE e = n
    BY <1>5, <1>7, <2>1
  <2>2. CASE e \in DOMAIN exps
    <3>1. PICK j \in DOMAIN stack :
              \E k \in DOMAIN stack[j].owned : stack[j].owned[k] = e
      BY <1>8, <2>2 DEF OwnershipInv, AliveAreOwned
    <3>2. PICK k \in DOMAIN stack[j].owned : stack[j].owned[k] = e
      BY <3>1
    <3>3. k \in DOMAIN stack'[j].owned /\ stack'[j].owned[k] = e
      BY <1>5, <1>7, <3>2
    <3> QED BY <1>7, <3>3
  <2> QED BY <1>8, <2>1, <2>2
<1>15. SequencesHeldByOne'
  BY <1>7 DEF OwnershipInv, SequencesHeldByOne
<1>16. ScopedAreAttached'
  BY <1>3, <1>8 DEF OwnershipInv, ScopedAreAttached
<1>17. TryBlocksOwnNothing'
  BY <1>1, <1>7 DEF OwnershipInv, TryBlocksOwnNothing
<1> QED BY <1>9, <1>11, <1>12, <1>13, <1>14, <1>15, <1>16, <1>17
        DEF OwnershipInv

LEMMA SatisfyKeepsOwnership ==
    ASSUME OwnershipInv, NEW e \in DOMAIN exps, Satisfy(e)
    PROVE  OwnershipInv'
<1>1. TypeOK /\ exps \in Seq(ExpectationRecords)
  BY DEF OwnershipInv, TypeOK
<1>2. exps' = [exps EXCEPT ![e] = [exps[e] EXCEPT !.satisfied = TRUE]]
  BY DEF Satisfy
<1>3. ASSUME NEW r \in ExpectationRecords
      PROVE  LET x == [r EXCEPT !.satisfied = TRUE]
             IN  /\ x \in ExpectationRecords /\ x.in = r.in
                 /\ x.scoped = r.scoped /\ x.alive = r.alive
  BY DEF ExpectationRecords
<1>4. /\ exps' \in Seq(ExpectationRecords) /\ DOMAIN exps' = DOMAIN exps
      /\ \A f \in DOMAIN exps : /\ exps'[f].in = exps[f].in
                                /\ exps'[f].scoped = exps[f].scoped
                                /\ exps'[f].alive = exps[f].alive
  BY <1>1, <1>2, <1>3
<1>5. UNCHANGED <<stack, leaving, inFlight, reports, caught, overwrote,
                  terminated>>
  BY DEF Satisfy
<1>6. TypeOK'
  BY <1>1, <1>4, <1>5 DEF TypeOK
<1> QED BY <1>4, <1>5, <1>6 DEF OwnershipInv, OwnedAreAlive, OwnedByOne,
           OwnedInOrder, AliveAreOwned, SequencesHeldByOne, ScopedAreAttached,
           TryBlocksOwnNothing

\* The last object, which owns nothing any more, is gone.
LEMMA PopKeepsOwnership ==
    ASSUME OwnershipInv, stack # <<>>, Top.owned = <<>>,
           stack' = Front(stack), UNCHANGED <<exps, reports>>,
           leaving' \in BOOLEAN, inFlight' \in {0, 1}, caught' \in BOOLEAN,
           overwrote' \in BOOLEAN, terminated' \in BOOLEAN
    PROVE  OwnershipInv'
<1>1. /\ TypeOK /\ stack \in Seq(Objects) /\ Len(stack) > 0
      /\ Top = stack[Len(stack)] /\ Len(stack) \in DOMAIN stack
  BY DEF OwnershipInv, TypeOK, Top, Last
<1>2. /\ DOMAIN stack' = DOMAIN stack \ {Len(stack)}
      /\ \A i \in DOMAIN stack' : stack'[i] = stack[i]
      /\ stack' \in Seq(Objects)
  BY <1>1, DropTop
<1>3. TypeOK'
  BY <1>1, <1>2 DEF TypeOK
<1>4. AliveAreOwned'
  <2> SUFFICES ASSUME NEW e \in DOMAIN exps, exps[e].alive
               PROVE  \E i \in DOMAIN stack' : \E k \in DOMAIN stack'[i].owned :
                          stack'[i].owned[k] = e
    BY DEF AliveAreOwned
  <2>1. PICK i \in DOMAIN stack :
            \E k \in DOMAIN stack[i].owned : stack[i].owned[k] = e
    BY DEF OwnershipInv, AliveAreOwned
  <2>2. i # Len(stack)
    BY <1>1, <2>1
  <2> QED BY <1>2, <2>1, <2>2
<1> QED BY <1>2, <1>3, <1>4 DEF OwnershipInv, OwnedAreAlive, OwnedByOne,
           OwnedInOrder, SequencesHeldByOne, ScopedAreAttached,
           TryBlocksOwnNothing

\* What DestroyOwned finds, and what it leaves of the last object.
LEMMA DestroyResult ==
    ASSUME OwnershipInv, DestroyOwned
    PROVE  LET n == Len(stack)
           IN  /\ n \in DOMAIN stack /\ Top = stack[n]
               /\ NextOwned = stack[n].owned[1] /\ 1 \in DOMAIN stack[n].owned
               /\ NextOwned \in DOMAIN exps
               /\ stack' \in Seq(Objects) /\ DOMAIN stack' = DOMAIN stack
               /\ Len(stack') = n
               /\ \A i \in DOMAIN stack : i # n => stack'[i] = stack[i]
               /\ \A i \in DOMAIN stack : stack'[i].seq = stack[i].seq
               /\ \A i \in DOMAIN stack : stack'[i].kind = stack[i].kind
               /\ \A k : k \in DOMAIN stack'[n].owned =>
                     /\ k + 1 \in DOMAIN stack[n].owned
                     /\ k \in Nat /\ 1 < k + 1
                     /\ stack'[n].owned[k] = stack[n].owned[k + 1]
               /\ \A k \in DOMAIN stack[n].owned : k # 1 =>
                     /\ k - 1 \in DOMAIN stack'[n].owned
                     /\ stack'[n].owned[k - 1] = stack[n].owned[k]
               /\ exps' = Bury({NextOwned})
<1> DEFINE n == Len(stack)
           q == Tail(Top.owned)
           o == [Top EXCEPT !.owned = q]
<1>1. /\ TypeOK /\ stack \in Seq(Objects) /\ stack # <<>> /\ Top.owned # <<>>
      /\ stack' = Front(stack) \o <<o>> /\ exps' = Bury({NextOwned})
  BY DEF OwnershipInv, TypeOK, DestroyOwned, OthersOwned
<1>2. /\ n \in DOMAIN stack /\ Top = stack[n] /\ n > 0 /\ n \in Nat
  BY <1>1 DEF Top, Last
<1>3. Top.owned \in Seq(Nat) /\ Top \in Objects
  BY <1>1, <1>2, TypeFacts
<1>4. /\ Len(Top.owned) > 0 /\ 1 \in DOMAIN Top.owned
      /\ NextOwned = Top.owned[1]
      /\ q \in Seq(Nat)
      /\ DOMAIN q = 1 .. (Len(Top.owned) - 1)
      /\ DOMAIN Top.owned = 1 .. Len(Top.owned) /\ Len(Top.owned) \in Nat
      /\ \A k \in DOMAIN q : q[k] = Top.owned[k + 1]
  BY <1>1, <1>3 DEF NextOwned
<1> HIDE DEF q
<1>5. o \in Objects /\ o.seq = Top.seq /\ o.kind = Top.kind /\ o.owned = q
  BY <1>3, <1>4, OwnedReplaced
<1> HIDE DEF o
<1>6. /\ stack' \in Seq(Objects) /\ DOMAIN stack' = DOMAIN stack
      /\ Len(stack') = n /\ stack'[n] = o
      /\ \A i \in DOMAIN stack : i # n => stack'[i] = stack[i]
  BY <1>1, <1>2, <1>5, ReplaceTop
<1>7. NextOwned \in DOMAIN exps
  BY <1>2, <1>4 DEF OwnershipInv, OwnedAreAlive
<1>8. \A k : k \in DOMAIN q =>
         /\ k + 1 \in DOMAIN Top.owned /\ k \in Nat /\ 1 < k + 1
         /\ q[k] = Top.owned[k + 1]
  BY <1>4
<1>9. \A k \in DOMAIN Top.owned : k # 1 =>
         k - 1 \in DOMAIN q /\ q[k - 1] = Top.owned[k]
  BY <1>4
<1> QED BY <1>1, <1>2, <1>4, <1>5, <1>6, <1>7, <1>8, <1>9

LEMMA DestroyKeepsOwnership ==
    ASSUME OwnershipInv, DestroyOwned
    PROVE  OwnershipInv'
<1> DEFINE n == Len(stack)
           e == NextOwned
<1>1. TypeOK /\ n \in Nat /\ DOMAIN stack = 1 .. n
  BY TypeFacts DEF OwnershipInv
<1>2. /\ n \in DOMAIN stack /\ Top = stack[n]
      /\ e = stack[n].owned[1] /\ 1 \in DOMAIN stack[n].owned
      /\ e \in DOMAIN exps
      /\ stack' \in Seq(Objects) /\ DOMAIN stack' = DOMAIN stack
      /\ \A i \in DOMAIN stack : i # n => stack'[i] = stack[i]
      /\ \A i \in DOMAIN stack : stack'[i].seq = stack[i].seq
      /\ \A i \in DOMAIN stack : stack'[i].kind = stack[i].kind
      /\ \A k : k \in DOMAIN stack'[n].owned =>
            /\ k + 1 \in DOMAIN stack[n].owned
            /\ k \in Nat /\ 1 < k + 1
            /\ stack'[n].owned[k] = stack[n].owned[k + 1]
      /\ \A k \in DOMAIN stack[n].owned : k # 1 =>
            /\ k - 1 \in DOMAIN stack'[n].owned
            /\ stack'[n].owned[k - 1] = stack[n].owned[k]
      /\ exps' = Bury({e})
  BY DestroyResult
<1> HIDE DEF e
<1>3. /\ exps' \in Seq(ExpectationRecords) /\ DOMAIN exps' = DOMAIN exps
      /\ \A f \in DOMAIN exps :
            /\ exps'[f].in = exps[f].in
            /\ exps'[f].scoped = exps[f].scoped
            /\ exps'[f].alive <=> exps[f].alive /\ f # e
  BY <1>1, <1>2, BuryResult
<1>4. TypeOK'
  <2>1. inFlight' \in {0, 1}
    BY <1>1 DEF DestroyOwned, ReporterThrows, TypeOK
  <2>2. reports' \in Seq(DOMAIN exps)
    <3>1. reports \in Seq(DOMAIN exps)
      BY <1>1 DEF TypeOK
    <3>2. reports' = reports \/ reports' = Append(reports, e)
      BY DEF DestroyOwned, e
    <3> QED BY <1>2, <3>1, <3>2
  <2>3. /\ terminated' \in BOOLEAN
        /\ UNCHANGED <<leaving, caught, overwrote>>
    BY DEF DestroyOwned
  <2> QED BY <1>1, <1>2, <1>3, <2>1, <2>2, <2>3 DEF TypeOK
\* What is owned was owned before by the same object, and is not e.
<1>5. ASSUME NEW i \in DOMAIN stack', NEW k \in DOMAIN stack'[i].owned
      PROVE  \E l \in DOMAIN stack[i].owned :
                 /\ stack'[i].owned[k] = stack[i].owned[l]
                 /\ l = IF i = n THEN k + 1 ELSE k
                 /\ stack[i].owned[l] # e
  <2>1. CASE i = n
    <3>1. /\ k + 1 \in DOMAIN stack[n].owned /\ 1 < k + 1
          /\ stack'[n].owned[k] = stack[n].owned[k + 1]
      BY <1>2, <2>1
    <3>2. stack[n].owned[1] < stack[n].owned[k + 1]
      BY <1>2, <3>1 DEF OwnershipInv, OwnedInOrder
    <3>3. stack[n].owned[1] \in Nat
      BY <1>1, <1>2, TypeFacts
    <3>4. stack[n].owned[k + 1] # e
      BY <1>2, <3>2, <3>3
    <3> QED BY <2>1, <3>1, <3>4
  <2>2. CASE i # n
    <3>1. stack'[i] = stack[i] /\ k \in DOMAIN stack[i].owned
      BY <1>2, <2>2
    <3>2. stack[i].owned[k] # e
      BY <1>2, <2>2, <3>1 DEF OwnershipInv, OwnedByOne
    <3> QED BY <2>2, <3>1, <3>2
  <2> QED BY <2>1, <2>2
<1>6. OwnedAreAlive'
  <2> SUFFICES ASSUME NEW i \in DOMAIN stack', NEW k \in DOMAIN stack'[i].owned
               PROVE  /\ stack'[i].owned[k] \in DOMAIN exps'
                      /\ exps'[stack'[i].owned[k]].alive
                      /\ exps'[stack'[i].owned[k]].scoped = stack'[i].seq
    BY DEF OwnedAreAlive
  <2>1. PICK l \in DOMAIN stack[i].owned :
            /\ stack'[i].owned[k] = stack[i].owned[l]
            /\ stack[i].owned[l] # e
    BY <1>5
  <2>2. i \in DOMAIN stack /\ stack'[i].seq = stack[i].seq
    BY <1>2
  <2>3. /\ stack[i].owned[l] \in DOMAIN exps
        /\ exps[stack[i].owned[l]].alive
        /\ exps[stack[i].owned[l]].scoped = stack[i].seq
    BY <2>2 DEF OwnershipInv, OwnedAreAlive
  <2> QED BY <1>3, <2>1, <2>2, <2>3
<1>7. OwnedByOne'
  <2> SUFFICES ASSUME NEW i \in DOMAIN stack', NEW j \in DOMAIN stack',
                      NEW k \in DOMAIN stack'[i].owned,
                      NEW l \in DOMAIN stack'[j].owned,
                      stack'[i].owned[k] = stack'[j].owned[l]
               PROVE  i = j
    BY DEF OwnedByOne
  <2>1. PICK x \in DOMAIN stack[i].owned :
            stack'[i].owned[k] = stack[i].owned[x]
    BY <1>5
  <2>2. PICK y \in DOMAIN stack[j].owned :
            stack'[j].owned[l] = stack[j].owned[y]
    BY <1>5
  <2>3. i \in DOMAIN stack /\ j \in DOMAIN stack
    BY <1>2
  <2> QED BY <2>1, <2>2, <2>3 DEF OwnershipInv, OwnedByOne
<1>8. OwnedInOrder'
  <2> SUFFICES ASSUME NEW i \in DOMAIN stack', NEW k \in DOMAIN stack'[i].owned,
                      NEW l \in DOMAIN stack'[i].owned, k < l
               PROVE  stack'[i].owned[k] < stack'[i].owned[l]
    BY DEF OwnedInOrder
  <2>1. CASE i = n
    <3>1. /\ k + 1 \in DOMAIN stack[n].owned /\ l + 1 \in DOMAIN stack[n].owned
          /\ k + 1 < l + 1
          /\ stack'[n].owned[k] = stack[n].owned[k + 1]
          /\ stack'[n].owned[l] = stack[n].owned[l + 1]
      BY <1>2, <2>1
    <3> QED BY <1>2, <2>1, <3>1 DEF OwnershipInv, OwnedInOrder
  <2>2. CASE i # n
    BY <1>2, <2>2 DEF OwnershipInv, OwnedInOrder
  <2> QED BY <2>1, <2>2
<1>9. AliveAreOwned'
  <2> SUFFICES ASSUME NEW f \in DOMAIN exps, exps[f].alive, f # e
               PROVE  \E i \in DOMAIN stack' : \E k \in DOMAIN stack'[i].owned :
                          stack'[i].owned[k] = f
    BY <1>3 DEF AliveAreOwned
  <2>1. PICK i \in DOMAIN stack :
            \E k \in DOMAIN stack[i].owned : stack[i].owned[k] = f
    BY DEF OwnershipInv, AliveAreOwned
  <2>2. CASE i = n
    BY <1>2, <2>1, <2>2
  <2>3. CASE i # n
    BY <1>2, <2>1, <2>3
  <2> QED BY <2>2, <2>3
<1>10. SequencesHeldByOne'
  BY <1>2 DEF OwnershipInv, SequencesHeldByOne
<1>11. ScopedAreAttached'
  BY <1>3 DEF OwnershipInv, ScopedAreAttached
<1>12. TryBlocksOwnNothing'
  <2>1. stack[n].owned # <<>>
    BY <1>2 DEF DestroyOwned
  <2> QED BY <1>2, <2>1 DEF OwnershipInv, TryBlocksOwnNothing
<1> QED BY <1>4, <1>6, <1>7, <1>8, <1>9, <1>10, <1>11, <1>12 DEF OwnershipInv

\* What MoveAssign moves, destroys and reports.
LEMMA MoveResult ==
    ASSUME OwnershipInv, NEW i \in DOMAIN stack, NEW j \in DOMAIN stack,
           MoveAssign(i, j)
    PROVE  /\ i # j /\ stack[i].kind = stack[j].kind /\ stack[i].kind # "try"
           /\ ~leaving /\ ~terminated
           /\ UNCHANGED <<leaving, inFlight, caught>> /\ overwrote' = TRUE
           /\ stack' \in Seq(Objects) /\ DOMAIN stack' = DOMAIN stack
           /\ Len(stack') = Len(stack)
           /\ stack'[i] = stack[j]
           /\ stack'[j].seq = None /\ stack'[j].owned = <<>>
           /\ \A h \in DOMAIN stack : stack'[h].kind = stack[h].kind
           /\ \A h \in DOMAIN stack : h # i /\ h # j => stack'[h] = stack[h]
           /\ exps' = Bury(ToSet(stack[i].owned))
           /\ \A e \in ToSet(stack[i].owned) :
                 Unsatisfied(e) => terminated' /\ reports' # reports
           /\ terminated' \in BOOLEAN
           /\ \/ reports' = reports
              \/ \E k \in DOMAIN stack[i].owned :
                    /\ reports' = Append(reports, stack[i].owned[k])
                    /\ \A l \in DOMAIN stack[i].owned :
                          l < k => ~Unsatisfied(stack[i].owned[l])
<1> DEFINE source == stack[j]
           target == stack[i]
           left == Object(source.kind, None, <<>>)
           unsatisfied == {k \in DOMAIN target.owned :
                              Unsatisfied(target.owned[k])}
<1>1. /\ TypeOK /\ stack \in Seq(Objects) /\ source \in Objects
      /\ target \in Objects /\ DOMAIN target.owned \subseteq Nat
      /\ target.owned \in Seq(Nat) /\ reports \in Seq(DOMAIN exps)
  BY TypeFacts DEF OwnershipInv, TypeOK
<1>2. left \in Objects /\ left.seq = None /\ left.owned = <<>>
      /\ left.kind = source.kind
  BY <1>1 DEF Object, Objects
<1>3. /\ i # j /\ target.kind = source.kind /\ target.kind # "try"
      /\ ~leaving /\ ~terminated
      /\ UNCHANGED <<leaving, inFlight, caught>> /\ overwrote' = TRUE
      /\ stack' = [stack EXCEPT ![i] = source, ![j] = left]
      /\ exps' = Bury(ToSet(target.owned))
      /\ reports' = IF unsatisfied = {} THEN reports
                    ELSE Append(reports, target.owned[Min(unsatisfied)])
      /\ unsatisfied # {} => terminated'
      /\ terminated' \in BOOLEAN
  BY DEF MoveAssign, Running
<1>4. unsatisfied \subseteq DOMAIN target.owned
  OBVIOUS
<1>5. \A k \in DOMAIN target.owned :
         Unsatisfied(target.owned[k]) <=> k \in unsatisfied
  OBVIOUS
<1> HIDE DEF left, unsatisfied
<1>6. /\ stack' \in Seq(Objects) /\ DOMAIN stack' = DOMAIN stack
      /\ Len(stack') = Len(stack) /\ stack'[i] = source /\ stack'[j] = left
      /\ \A h \in DOMAIN stack : h # i /\ h # j => stack'[h] = stack[h]
  BY <1>1, <1>2, <1>3
<1>7. \A h \in DOMAIN stack : stack'[h].kind = stack[h].kind
  BY <1>2, <1>3, <1>6
<1>8. CASE unsatisfied = {}
  <2>1. reports' = reports
    BY <1>3, <1>8
  <2>2. \A e \in ToSet(target.owned) : ~Unsatisfied(e)
    BY <1>5, <1>8 DEF ToSet
  <2> QED BY <1>2, <1>3, <1>6, <1>7, <2>1, <2>2
<1>9. CASE unsatisfied # {}
  <2> DEFINE k == Min(unsatisfied)
  <2>1. unsatisfied \in SUBSET Nat
    BY <1>1, <1>4
  <2>2. k \in unsatisfied /\ \A l \in unsatisfied : k <= l
    BY <1>9, <2>1, FirstExists
  <2> HIDE DEF k
  <2>3. ASSUME NEW l \in DOMAIN target.owned, l < k
        PROVE  ~Unsatisfied(target.owned[l])
    <3>1. l \in Nat /\ k \in Nat
      BY <1>1, <2>1, <2>2
    <3>2. l \notin unsatisfied
      BY <2>2, <2>3, <3>1
    <3> QED BY <1>5, <3>2
  <2>4. reports' = Append(reports, target.owned[k]) /\ terminated'
    BY <1>3, <1>9 DEF k
  <2>5. reports' # reports
    <3>1. Len(reports') = Len(reports) + 1 /\ Len(reports) \in Nat
      BY <1>1, <2>4
    <3> QED BY <3>1
  <2>6. k \in DOMAIN target.owned
    BY <1>4, <2>2
  <2> QED BY <1>2, <1>3, <1>6, <1>7, <2>3, <2>4, <2>5, <2>6
<1> QED BY <1>8, <1>9

LEMMA MoveKeepsOwnership ==
    ASSUME OwnershipInv, NEW i \in DOMAIN stack, NEW j \in DOMAIN stack,
           MoveAssign(i, j)
    PROVE  OwnershipInv'
<1> DEFINE gone == ToSet(stack[i].owned)
           From(h) == IF h = i THEN j ELSE h
<1>1. TypeOK /\ ToSet(stack[i].owned) = gone
  BY DEF OwnershipInv
<1>2. /\ i # j /\ stack[i].kind # "try" /\ stack[i].kind = stack[j].kind
      /\ UNCHANGED <<leaving, inFlight, caught>> /\ overwrote' = TRUE
      /\ stack' \in Seq(Objects) /\ DOMAIN stack' = DOMAIN stack
      /\ stack'[i] = stack[j]
      /\ stack'[j].seq = None /\ stack'[j].owned = <<>>
      /\ \A h \in DOMAIN stack : h # i /\ h # j => stack'[h] = stack[h]
      /\ \A h \in DOMAIN stack : stack'[h].kind = stack[h].kind
      /\ exps' = Bury(gone)
      /\ terminated' \in BOOLEAN
      /\ \/ reports' = reports
         \/ \E k \in DOMAIN stack[i].owned :
               reports' = Append(reports, stack[i].owned[k])
  BY MoveResult
<1>3. /\ \A k \in DOMAIN stack[i].owned : stack[i].owned[k] \in gone
      /\ \A e \in gone : \E k \in DOMAIN stack[i].owned : stack[i].owned[k] = e
  BY DEF ToSet
<1> HIDE DEF gone
<1>4. /\ exps' \in Seq(ExpectationRecords) /\ DOMAIN exps' = DOMAIN exps
      /\ \A f \in DOMAIN exps :
            /\ exps'[f].in = exps[f].in
            /\ exps'[f].scoped = exps[f].scoped
            /\ exps'[f].alive <=> exps[f].alive /\ f \notin gone
  BY <1>1, <1>2, BuryResult
<1>5. TypeOK'
  <2>1. reports' \in Seq(DOMAIN exps)
    <3>1. reports \in Seq(DOMAIN exps)
      BY <1>1 DEF TypeOK
    <3>2. \A k \in DOMAIN stack[i].owned : stack[i].owned[k] \in DOMAIN exps
      BY DEF OwnershipInv, OwnedAreAlive
    <3> QED BY <1>2, <3>1, <3>2
  <2> QED BY <1>1, <1>2, <1>4, <2>1 DEF TypeOK
\* What is owned was owned by an object that was not overwritten.
<1>6. ASSUME NEW h \in DOMAIN stack', h # j
      PROVE  /\ stack'[h] = stack[From(h)]
             /\ From(h) \in DOMAIN stack /\ From(h) # i
  BY <1>2, <1>6
<1>7. DOMAIN stack'[j].owned = {}
  BY <1>2
<1>8. \A h, g : From(h) = From(g) /\ h # j /\ g # j => h = g
  OBVIOUS
<1> HIDE DEF From
<1>9. OwnedAreAlive'
  <2> SUFFICES ASSUME NEW h \in DOMAIN stack', NEW k \in DOMAIN stack'[h].owned
               PROVE  /\ stack'[h].owned[k] \in DOMAIN exps'
                      /\ exps'[stack'[h].owned[k]].alive
                      /\ exps'[stack'[h].owned[k]].scoped = stack'[h].seq
    BY DEF OwnedAreAlive
  <2>1. h # j
    BY <1>7
  <2> DEFINE g == From(h)
             e == stack[g].owned[k]
  <2>2. /\ g \in DOMAIN stack /\ g # i /\ stack'[h] = stack[g]
        /\ k \in DOMAIN stack[g].owned
    BY <1>6, <2>1
  <2>3. e \in DOMAIN exps /\ exps[e].alive /\ exps[e].scoped = stack[g].seq
    BY <2>2 DEF OwnershipInv, OwnedAreAlive
  <2>4. e \notin gone
    BY <1>3, <2>2 DEF OwnershipInv, OwnedByOne
  <2> QED BY <1>4, <2>2, <2>3, <2>4
<1>10. OwnedByOne'
  <2> SUFFICES ASSUME NEW h \in DOMAIN stack', NEW g \in DOMAIN stack',
                      NEW k \in DOMAIN stack'[h].owned,
                      NEW l \in DOMAIN stack'[g].owned,
                      stack'[h].owned[k] = stack'[g].owned[l]
               PROVE  h = g
    BY DEF OwnedByOne
  <2>1. h # j /\ g # j
    BY <1>7
  <2>2. /\ From(h) \in DOMAIN stack /\ stack'[h] = stack[From(h)]
        /\ From(g) \in DOMAIN stack /\ stack'[g] = stack[From(g)]
    BY <1>6, <2>1
  <2>3. From(h) = From(g)
    BY <2>2 DEF OwnershipInv, OwnedByOne
  <2> QED BY <1>8, <2>1, <2>3
<1>11. OwnedInOrder'
  <2> SUFFICES ASSUME NEW h \in DOMAIN stack', NEW k \in DOMAIN stack'[h].owned,
                      NEW l \in DOMAIN stack'[h].owned, k < l
               PROVE  stack'[h].owned[k] < stack'[h].owned[l]
    BY DEF OwnedInOrder
  <2>1. stack'[h] = stack[From(h)] /\ From(h) \in DOMAIN stack
    BY <1>6, <1>7
  <2> QED BY <2>1 DEF OwnershipInv, OwnedInOrder
<1>12. AliveAreOwned'
  <2> SUFFICES ASSUME NEW e \in DOMAIN exps, exps[e].alive, e \notin gone
               PROVE  \E h \in DOMAIN stack' : \E k \in DOMAIN stack'[h].owned :
                          stack'[h].owned[k] = e
    BY <1>4 DEF AliveAreOwned
  <2>1. PICK g \in DOMAIN stack :
            \E k \in DOMAIN stack[g].owned : stack[g].owned[k] = e
    BY DEF OwnershipInv, AliveAreOwned
  <2>2. g # i
    BY <1>3, <2>1
  <2>3. CASE g = j
    BY <1>2, <2>1, <2>3
  <2>4. CASE g # j
    BY <1>2, <2>1, <2>2, <2>4
  <2> QED BY <2>3, <2>4
<1>13. SequencesHeldByOne'
  <2> SUFFICES ASSUME NEW h \in DOMAIN stack', NEW g \in DOMAIN stack',
                      stack'[h].seq # None, stack'[h].seq = stack'[g].seq
               PROVE  h = g
    BY DEF SequencesHeldByOne
  <2>1. h # j /\ g # j
    BY <1>2
  <2>2. /\ From(h) \in DOMAIN stack /\ stack'[h] = stack[From(h)]
        /\ From(g) \in DOMAIN stack /\ stack'[g] = stack[From(g)]
    BY <1>6, <2>1
  <2>3. From(h) = From(g)
    BY <2>2 DEF OwnershipInv, SequencesHeldByOne
  <2> QED BY <1>8, <2>1, <2>3
<1>14. ScopedAreAttached'
  BY <1>4 DEF OwnershipInv, ScopedAreAttached
<1>15. TryBlocksOwnNothing'
  BY <1>2 DEF OwnershipInv, TryBlocksOwnNothing
<1> QED BY <1>5, <1>9, <1>10, <1>11, <1>12, <1>13, <1>14, <1>15
        DEF OwnershipInv

\* All actions together.
LEMMA StepKeepsOwnership == OwnershipInv /\ [Next]_vars => OwnershipInv'
<1> SUFFICES ASSUME OwnershipInv, [Next]_vars PROVE OwnershipInv'
  OBVIOUS
<1>1. /\ leaving \in BOOLEAN /\ inFlight \in {0, 1} /\ caught \in BOOLEAN
      /\ overwrote \in BOOLEAN /\ terminated \in BOOLEAN
  BY DEF OwnershipInv, TypeOK
<1>2. ASSUME NEW kind \in {"sequence", "scoped"}, NEW s \in Seqs,
             DeclareSequence(kind, s)
      PROVE  OwnershipInv'
  <2> DEFINE o == Object(kind, s, <<>>)
  <2>1. o \in Objects /\ o.owned = <<>> /\ o.kind # "try" /\ o.seq = s
    BY DEF Object, Objects
  <2>2. stack' = Append(stack, o)
    BY <1>2 DEF DeclareSequence, Declare
  <2> HIDE DEF o
  <2>3. \A i \in DOMAIN stack : stack[i].seq # s
    BY <1>2 DEF DeclareSequence, Declared
  <2> QED BY <1>2, <2>1, <2>2, <2>3, DeclareKeepsOwnership DEF DeclareSequence
<1>3. CASE OpenTry
  <2> DEFINE o == Object("try", None, <<>>)
  <2>1. o \in Objects /\ o.owned = <<>> /\ o.seq = None
    BY DEF Object, Objects
  <2>2. stack' = Append(stack, o)
    BY <1>3 DEF OpenTry, Declare
  <2> HIDE DEF o
  <2> QED BY <1>3, <2>1, <2>2, DeclareKeepsOwnership DEF OpenTry
<1>4. CASE Throw \/ LeaveBlock
  <2>1. UNCHANGED <<exps, stack, reports, caught, overwrote, terminated>>
    BY <1>4 DEF Throw, LeaveBlock
  <2>2. leaving' \in BOOLEAN /\ inFlight' \in {0, 1}
    BY <1>1, <1>4 DEF Throw, LeaveBlock
  <2> QED BY <1>1, <2>1, <2>2, FlagsKeepOwnership
<1>5. CASE ReleaseInterface
  <2>1. /\ stack # <<>> /\ Top.owned = <<>> /\ stack' = Front(stack)
        /\ UNCHANGED <<exps, leaving, inFlight, reports, caught, overwrote>>
        /\ terminated' \in BOOLEAN
    BY <1>5 DEF ReleaseInterface
  <2> QED BY <1>1, <2>1, PopKeepsOwnership
<1>6. CASE CloseTry
  <2>1. /\ stack # <<>> /\ Top.kind = "try" /\ stack' = Front(stack)
        /\ leaving' = FALSE /\ inFlight' = 0 /\ caught' \in BOOLEAN
        /\ UNCHANGED <<exps, reports, overwrote, terminated>>
    BY <1>6 DEF CloseTry
  <2>2. Top = stack[Len(stack)] /\ Len(stack) \in DOMAIN stack
    BY <2>1, TypeFacts DEF Top, Last, OwnershipInv, TypeOK
  <2>3. Top.owned = <<>>
    BY <2>1, <2>2 DEF OwnershipInv, TryBlocksOwnNothing
  <2> QED BY <1>1, <2>1, <2>3, PopKeepsOwnership
<1>7. CASE UNCHANGED vars
  BY <1>1, <1>7, FlagsKeepOwnership DEF vars
<1>8. ASSUME NEW S \in SUBSET Seqs, NEW satisfied \in BOOLEAN,
             \/ DeclareExpectation(S, satisfied)
             \/ \E i \in DOMAIN stack : AddToScoped(i, S, satisfied)
      PROVE  OwnershipInv'
  BY <1>8, DeclareExpectationKeepsOwnership, AddToScopedKeepsOwnership
<1>9. CASE \/ \E e \in DOMAIN exps : Satisfy(e)
           \/ \E i, j \in DOMAIN stack : MoveAssign(i, j)
           \/ DestroyOwned
  BY <1>9, SatisfyKeepsOwnership, MoveKeepsOwnership, DestroyKeepsOwnership
<1> QED BY <1>2, <1>3, <1>4, <1>5, <1>6, <1>7, <1>8, <1>9 DEF Next

-----------------------------------------------------------------------------
\* Reports and exceptions, action by action.

\* Reports stay in order if expectations only become satisfied.
LEMMA ReportsKept ==
    ASSUME TypeOK, ScopedReportsFirst, reports' = reports,
           \A e \in DOMAIN exps :
              /\ e \in DOMAIN exps' /\ exps'[e].scoped = exps[e].scoped
              /\ exps[e].satisfied => exps'[e].satisfied
    PROVE  ScopedReportsFirst'
<1>1. /\ reports \in Seq(DOMAIN exps)
      /\ DOMAIN exps = 1 .. Len(exps) /\ Len(exps) \in Nat
  BY TypeFacts DEF TypeOK
<1>2. ASSUME NEW i \in DOMAIN reports, NEW f \in 1 .. (reports[i] - 1)
      PROVE  reports[i] \in DOMAIN exps /\ f \in DOMAIN exps
  <2>1. reports[i] \in DOMAIN exps
    BY <1>1
  <2> QED BY <1>1, <2>1
<1> QED BY <1>2 DEF ScopedReportsFirst

\* A report at the end keeps the order of those before it.
LEMMA ReportAdded ==
    ASSUME TypeOK, ScopedReportsFirst, NEW e \in DOMAIN exps,
           reports' = Append(reports, e),
           \A f \in DOMAIN exps :
              /\ f \in DOMAIN exps' /\ exps'[f].scoped = exps[f].scoped
              /\ exps[f].satisfied => exps'[f].satisfied,
           \A f \in DOMAIN exps :
              f < e /\ exps[f].scoped # None /\ exps[f].scoped = exps[e].scoped
                 => exps[f].satisfied
    PROVE  ScopedReportsFirst'
<1>1. /\ reports \in Seq(DOMAIN exps)
      /\ DOMAIN exps = 1 .. Len(exps) /\ Len(exps) \in Nat
  BY TypeFacts DEF TypeOK
<1>2. /\ DOMAIN reports' = DOMAIN reports \cup {Len(reports) + 1}
      /\ \A i \in DOMAIN reports : /\ reports'[i] = reports[i]
                                   /\ reports[i] \in DOMAIN exps
      /\ reports'[Len(reports) + 1] = e
  BY <1>1
<1> SUFFICES ASSUME NEW i \in DOMAIN reports',
                    NEW f \in 1 .. (reports'[i] - 1),
                    exps'[f].scoped # None,
                    exps'[f].scoped = exps'[reports'[i]].scoped
             PROVE  exps'[f].satisfied
  BY DEF ScopedReportsFirst
<1>3. CASE i \in DOMAIN reports
  <2>1. reports'[i] = reports[i] /\ reports[i] \in DOMAIN exps
    BY <1>2, <1>3
  <2>2. f \in DOMAIN exps
    BY <1>1, <2>1
  <2> QED BY <1>3, <2>1, <2>2 DEF ScopedReportsFirst
<1>4. CASE reports'[i] = e
  <2>1. f \in DOMAIN exps /\ f < e
    BY <1>1, <1>4
  <2> QED BY <1>4, <2>1
<1> QED BY <1>2, <1>3, <1>4

\* While no block is left, every unsatisfied expectation of a living
\* ScopedSequence is alive.
LEMMA NothingAbandoned ==
    ASSUME IInv, ~leaving
    PROVE  /\ inFlight = 0
           /\ \A e \in DOMAIN exps, i \in DOMAIN stack :
                 exps[e].scoped # None /\ exps[e].scoped = stack[i].seq
                    => exps[e].alive \/ exps[e].satisfied
<1>1. inFlight = 0
  BY DEF IInv, OwnershipInv, TypeOK, ThrownMeansLeaving
<1> QED BY <1>1 DEF IInv, AbandonedWhileThrowing, Unsatisfied

\* Declarations, uses and the beginning of an end.
LEMMA RunningStepKeepsInvariant ==
    ASSUME IInv, OwnershipInv', Running, reports' = reports,
           UNCHANGED <<caught, overwrote, terminated>>,
           (leaving' = leaving /\ inFlight' = inFlight) \/ leaving' = TRUE,
           \A e \in DOMAIN exps :
              /\ e \in DOMAIN exps' /\ exps'[e].scoped = exps[e].scoped
              /\ exps'[e].alive = exps[e].alive
              /\ exps[e].satisfied => exps'[e].satisfied,
           \A e \in DOMAIN exps' : e \notin DOMAIN exps => exps'[e].alive,
           \A i \in DOMAIN stack' :
              \/ i \in DOMAIN stack /\ stack'[i].seq = stack[i].seq
              \/ \A e \in DOMAIN exps : \/ exps[e].scoped # stack'[i].seq
                                        \/ exps[e].scoped = None,
           inFlight' = inFlight \/ inFlight' = 1
    PROVE  IInv'
<1>1. /\ ~leaving /\ ~terminated /\ TypeOK /\ inFlight = 0
      /\ \A e \in DOMAIN exps, i \in DOMAIN stack :
            exps[e].scoped # None /\ exps[e].scoped = stack[i].seq
               => exps[e].alive \/ exps[e].satisfied
  BY NothingAbandoned DEF Running, IInv, OwnershipInv
<1>2. AbandonedWhileThrowing'
  <2> SUFFICES ASSUME NEW e \in DOMAIN exps', NEW i \in DOMAIN stack',
                      ~exps'[e].alive, ~exps'[e].satisfied,
                      exps'[e].scoped # None,
                      exps'[e].scoped = stack'[i].seq
               PROVE  FALSE
    BY DEF AbandonedWhileThrowing, Unsatisfied
  <2>1. e \in DOMAIN exps /\ ~exps[e].alive /\ ~exps[e].satisfied
    OBVIOUS
  <2>2. i \in DOMAIN stack /\ stack'[i].seq = stack[i].seq
    BY <2>1
  <2> QED BY <1>1, <2>1, <2>2
<1>3. ThrownMeansLeaving'
  BY <1>1 DEF IInv, ThrownMeansLeaving
<1>4. FailuresWereThrown'
  BY <1>1 DEF IInv, FailuresWereThrown
<1>5. ScopedReportsFirst'
  BY <1>1, ReportsKept DEF IInv
<1>6. UnwindingIsSafe'
  BY DEF IInv, UnwindingIsSafe
<1> QED BY <1>2, <1>3, <1>4, <1>5, <1>6 DEF IInv

\* Reports and exceptions, for each of the actions.
LEMMA MoveKeepsInvariant ==
    ASSUME IInv, NEW i \in DOMAIN stack, NEW j \in DOMAIN stack,
           MoveAssign(i, j)
    PROVE  IInv'
<1> DEFINE gone == ToSet(stack[i].owned)
<1>1. OwnershipInv /\ TypeOK /\ OwnershipInv'
  BY MoveKeepsOwnership DEF IInv, OwnershipInv
<1>2. /\ i # j /\ ~leaving /\ ~terminated
      /\ UNCHANGED <<leaving, inFlight, caught>> /\ overwrote' = TRUE
      /\ DOMAIN stack' = DOMAIN stack
      /\ stack'[i] = stack[j] /\ stack'[j].seq = None
      /\ \A h \in DOMAIN stack : h # i /\ h # j => stack'[h] = stack[h]
      /\ exps' = Bury(gone)
      /\ \A e \in gone : Unsatisfied(e) => terminated'
      /\ \/ reports' = reports
         \/ \E k \in DOMAIN stack[i].owned :
               /\ reports' = Append(reports, stack[i].owned[k])
               /\ \A l \in DOMAIN stack[i].owned :
                     l < k => ~Unsatisfied(stack[i].owned[l])
  BY <1>1, MoveResult
<1>3. \A e \in gone : \E k \in DOMAIN stack[i].owned : stack[i].owned[k] = e
  BY DEF ToSet
<1> HIDE DEF gone
<1>4. /\ DOMAIN exps' = DOMAIN exps
      /\ \A f \in DOMAIN exps :
            /\ exps'[f].scoped = exps[f].scoped
            /\ exps'[f].satisfied = exps[f].satisfied
            /\ exps'[f].alive <=> exps[f].alive /\ f \notin gone
  BY <1>1, <1>2, BuryResult
<1>5. /\ inFlight = 0
      /\ \A e \in DOMAIN exps, h \in DOMAIN stack :
            exps[e].scoped # None /\ exps[e].scoped = stack[h].seq
               => exps[e].alive \/ exps[e].satisfied
  BY <1>2, NothingAbandoned
<1>6. AbandonedWhileThrowing'
  <2> SUFFICES ASSUME NEW e \in DOMAIN exps, NEW h \in DOMAIN stack,
                      ~exps'[e].alive, ~exps[e].satisfied,
                      exps[e].scoped # None, exps[e].scoped = stack'[h].seq
               PROVE  FALSE
    BY <1>2, <1>4 DEF AbandonedWhileThrowing, Unsatisfied
  <2>1. PICK g \in DOMAIN stack : stack'[h] = stack[g] /\ g # i
    BY <1>2
  <2>2. e \in gone
    BY <1>4, <1>5, <2>1
  <2>3. exps[e].scoped = stack[i].seq
    BY <1>1, <1>3, <2>2 DEF OwnershipInv, OwnedAreAlive
  <2> QED BY <1>1, <2>1, <2>3 DEF OwnershipInv, SequencesHeldByOne
<1>7. ThrownMeansLeaving'
  BY <1>2 DEF IInv, ThrownMeansLeaving
<1>8. FailuresWereThrown'
  <2> SUFFICES ASSUME ~caught, ~terminated', NEW e \in DOMAIN exps,
                      ~exps'[e].alive
               PROVE  exps[e].satisfied
    BY <1>2, <1>4 DEF FailuresWereThrown
  <2>1. CASE e \in gone
    BY <1>2, <2>1 DEF Unsatisfied
  <2>2. CASE e \notin gone
    BY <1>2, <1>4, <1>5, <2>2 DEF IInv, FailuresWereThrown
  <2> QED BY <2>1, <2>2
<1>9. ScopedReportsFirst'
  <2>1. CASE reports' = reports
    BY <1>1, <1>4, <2>1, ReportsKept DEF IInv
  <2>2. ASSUME NEW k \in DOMAIN stack[i].owned,
               reports' = Append(reports, stack[i].owned[k]),
               \A l \in DOMAIN stack[i].owned :
                  l < k => ~Unsatisfied(stack[i].owned[l])
        PROVE  ScopedReportsFirst'
    <3> DEFINE e == stack[i].owned[k]
    <3>1. e \in DOMAIN exps /\ exps[e].scoped = stack[i].seq
      BY <1>1 DEF OwnershipInv, OwnedAreAlive
    <3>2. ASSUME NEW f \in DOMAIN exps, f < e, exps[f].scoped # None,
                 exps[f].scoped = exps[e].scoped, ~exps[f].satisfied
          PROVE  FALSE
      <4>1. exps[f].alive
        BY <1>5, <3>1, <3>2
      <4>2. PICK h \in DOMAIN stack :
                \E l \in DOMAIN stack[h].owned : stack[h].owned[l] = f
        BY <1>1, <4>1 DEF OwnershipInv, AliveAreOwned
      <4>3. PICK l \in DOMAIN stack[h].owned : stack[h].owned[l] = f
        BY <4>2
      <4>4. exps[f].scoped = stack[h].seq
        BY <1>1, <4>3 DEF OwnershipInv, OwnedAreAlive
      <4>5. h = i
        BY <1>1, <3>1, <3>2, <4>4 DEF OwnershipInv, SequencesHeldByOne
      <4>6. ~(l < k)
        BY <2>2, <3>2, <4>3, <4>5 DEF Unsatisfied
      <4>7. ~(k < l)
        <5>1. f \in Nat /\ e \in Nat
          BY <1>1, <3>1, TypeFacts
        <5>2. k < l => e < f
          BY <1>1, <4>3, <4>5 DEF OwnershipInv, OwnedInOrder
        <5> QED BY <3>2, <5>1, <5>2
      <4>8. k = l
        BY <1>1, <4>3, <4>5, <4>6, <4>7, TypeFacts
      <4>9. e = f /\ e \in Nat
        BY <1>1, <3>1, <4>3, <4>5, <4>8, TypeFacts
      <4> QED BY <3>2, <4>9
    <3> HIDE DEF e
    <3>3. reports' = Append(reports, e)
      BY <2>2 DEF e
    <3> QED BY <1>1, <1>4, <3>1, <3>2, <3>3, ReportAdded DEF IInv
  <2> QED BY <1>2, <2>1, <2>2
<1>10. UnwindingIsSafe'
  BY <1>2 DEF UnwindingIsSafe
<1> QED BY <1>1, <1>6, <1>7, <1>8, <1>9, <1>10 DEF IInv

\* A sequence that dies after no exception has only satisfied expectations.
LEMMA DyingAreFulfilled ==
    ASSUME IInv, inFlight = 0, ~caught, ~terminated,
           NEW gone, \A e \in gone : e \in DOMAIN exps => exps[e].satisfied,
           NEW s, NEW objects, NEW q \in Dying(gone, s, objects)
    PROVE  ~Unfulfilled(q)
<1> SUFFICES ASSUME NEW e \in AttachedTo(q), ~exps[e].satisfied PROVE FALSE
  BY DEF Unfulfilled, Unsatisfied
<1>1. e \in DOMAIN exps
  BY DEF AttachedTo
<1>2. exps[e].alive
  BY <1>1 DEF IInv, FailuresWereThrown
<1>3. e \in gone
  BY <1>2 DEF Dying
<1> QED BY <1>1, <1>3

LEMMA DestroyKeepsInvariant ==
    ASSUME IInv, DestroyOwned
    PROVE  IInv'
<1> DEFINE n == Len(stack)
           e == NextOwned
           rest == Front(stack) \o <<[Top EXCEPT !.owned = OthersOwned]>>
           reported == Unsatisfied(e) /\ inFlight = 0
           uncaught == IF reported THEN inFlight + 1 ELSE inFlight
<1>1. /\ OwnershipInv /\ TypeOK /\ OwnershipInv' /\ inFlight \in {0, 1}
      /\ DOMAIN exps = 1 .. Len(exps) /\ Len(exps) \in Nat
  BY DestroyKeepsOwnership, TypeFacts DEF IInv, OwnershipInv, TypeOK
<1>2. /\ n \in DOMAIN stack /\ Len(stack') = n
      /\ e = stack[n].owned[1] /\ 1 \in DOMAIN stack[n].owned
      /\ e \in DOMAIN exps
      /\ DOMAIN stack' = DOMAIN stack
      /\ \A i \in DOMAIN stack : stack'[i].seq = stack[i].seq
      /\ exps' = Bury({e})
  BY <1>1, DestroyResult
<1>3. /\ leaving /\ ~terminated
      /\ reports' = IF reported THEN Append(reports, e) ELSE reports
      /\ inFlight' = uncaught
      /\ UNCHANGED <<leaving, caught, overwrote>>
      /\ terminated' = \/ uncaught > 1
                       \/ \E s \in Dying({e}, None, rest) :
                             Unfulfilled(s) /\ uncaught = 0
  BY DEF DestroyOwned, ReporterThrows
<1> HIDE DEF e, rest
<1>4. /\ DOMAIN exps' = DOMAIN exps
      /\ \A f \in DOMAIN exps :
            /\ exps'[f].scoped = exps[f].scoped
            /\ exps'[f].satisfied = exps[f].satisfied
            /\ exps'[f].alive <=> exps[f].alive /\ f # e
  BY <1>1, <1>2, BuryResult
<1>5. exps[e].alive /\ exps[e].scoped = stack[n].seq
  BY <1>1, <1>2 DEF OwnershipInv, OwnedAreAlive
<1>6. /\ ~exps[e].satisfied => inFlight' = 1
      /\ inFlight = 1 => inFlight' = 1
      /\ uncaught \in {0, 1}
      /\ inFlight' = 0 => inFlight = 0
  BY <1>1, <1>3 DEF Unsatisfied
<1>7. AbandonedWhileThrowing'
  <2> SUFFICES ASSUME NEW f \in DOMAIN exps', NEW i \in DOMAIN stack',
                      ~exps'[f].alive, ~exps'[f].satisfied,
                      exps'[f].scoped # None, exps'[f].scoped = stack'[i].seq
               PROVE  i = Len(stack') /\ inFlight' = 1
    BY DEF AbandonedWhileThrowing, Unsatisfied
  <2>0. /\ f \in DOMAIN exps /\ i \in DOMAIN stack /\ ~exps[f].satisfied
        /\ exps[f].scoped # None /\ exps[f].scoped = stack[i].seq
    BY <1>2, <1>4
  <2>1. CASE f = e
    <3>1. i = n
      BY <1>1, <1>2, <1>5, <2>0, <2>1 DEF OwnershipInv, SequencesHeldByOne
    <3> QED BY <1>2, <1>6, <2>0, <2>1, <3>1
  <2>2. CASE f # e
    <3>1. ~exps[f].alive
      BY <1>4, <2>0, <2>2
    <3>2. i = n /\ inFlight = 1
      BY <2>0, <3>1 DEF IInv, AbandonedWhileThrowing, Unsatisfied
    <3> QED BY <1>2, <1>6, <3>2
  <2> QED BY <2>1, <2>2
<1>8. ThrownMeansLeaving'
  BY <1>3 DEF ThrownMeansLeaving
<1>9. FailuresWereThrown'
  <2> SUFFICES ASSUME inFlight' = 0, ~caught, NEW f \in DOMAIN exps,
                      ~exps'[f].alive
               PROVE  exps[f].satisfied
    BY <1>3, <1>4 DEF FailuresWereThrown
  <2>1. inFlight = 0 /\ exps[e].satisfied
    BY <1>6
  <2> QED BY <1>3, <1>4, <2>1 DEF IInv, FailuresWereThrown
<1>10. ScopedReportsFirst'
  <2>1. CASE ~reported
    BY <1>1, <1>3, <1>4, <2>1, ReportsKept DEF IInv
  <2>2. CASE reported
    <3>1. inFlight = 0 /\ reports' = Append(reports, e)
      BY <1>3, <2>2
    <3>2. ASSUME NEW f \in DOMAIN exps, f < e, exps[f].scoped # None,
                 exps[f].scoped = exps[e].scoped, ~exps[f].satisfied
          PROVE  FALSE
      <4>1. exps[f].alive
        BY <1>2, <1>5, <3>1, <3>2 DEF IInv, AbandonedWhileThrowing, Unsatisfied
      <4>2. PICK h \in DOMAIN stack :
                \E l \in DOMAIN stack[h].owned : stack[h].owned[l] = f
        BY <1>1, <4>1 DEF OwnershipInv, AliveAreOwned
      <4>3. PICK l \in DOMAIN stack[h].owned : stack[h].owned[l] = f
        BY <4>2
      <4>4. exps[f].scoped = stack[h].seq
        BY <1>1, <4>3 DEF OwnershipInv, OwnedAreAlive
      <4>5. h = n
        BY <1>1, <1>2, <1>5, <3>2, <4>4 DEF OwnershipInv, SequencesHeldByOne
      <4>6. l = 1 \/ 1 < l
        BY <1>1, <4>3, TypeFacts
      <4>7. 1 < l => e < f
        BY <1>1, <1>2, <4>3, <4>5 DEF OwnershipInv, OwnedInOrder
      <4>8. l = 1 => e = f
        BY <1>2, <4>3, <4>5
      <4>9. f \in Nat /\ e \in Nat
        BY <1>1, <1>2
      <4> QED BY <3>2, <4>6, <4>7, <4>8, <4>9
    <3> QED BY <1>1, <1>2, <1>4, <3>1, <3>2, ReportAdded DEF IInv
  <2> QED BY <2>1, <2>2
<1>11. UnwindingIsSafe'
  <2> SUFFICES ASSUME terminated', ~caught PROVE FALSE
    BY <1>3 DEF UnwindingIsSafe
  <2>0. uncaught > 1 \/ \E s \in Dying({e}, None, rest) :
                            Unfulfilled(s) /\ uncaught = 0
    BY <1>3, Zenon
  <2>1. PICK s \in Dying({e}, None, rest) : Unfulfilled(s) /\ uncaught = 0
    <3>1. ~(uncaught > 1)
      BY <1>6
    <3> QED BY <2>0, <3>1, Zenon
  <2>2. inFlight = 0 /\ exps[e].satisfied
    BY <1>3, <1>6, <2>1
  <2> QED BY <1>3, <2>1, <2>2, DyingAreFulfilled
<1> QED BY <1>1, <1>7, <1>8, <1>9, <1>10, <1>11 DEF IInv

LEMMA ReleaseKeepsInvariant ==
    ASSUME IInv, OwnershipInv', ReleaseInterface
    PROVE  IInv'
<1>1. /\ TypeOK /\ leaving /\ ~terminated /\ Len(stack) > 0
      /\ stack \in Seq(Objects) /\ Top.owned = <<>> /\ stack' = Front(stack)
      /\ UNCHANGED <<exps, leaving, inFlight, reports, caught, overwrote>>
      /\ terminated' = \E s \in Dying({}, Top.seq, Front(stack)) :
                          Unfulfilled(s) /\ inFlight = 0
  BY DEF IInv, OwnershipInv, TypeOK, ReleaseInterface, ReporterThrows
<1>2. /\ DOMAIN stack' = DOMAIN stack \ {Len(stack)}
      /\ \A i \in DOMAIN stack' : stack'[i] = stack[i]
  BY <1>1, DropTop
<1>3. AbandonedWhileThrowing'
  BY <1>1, <1>2 DEF IInv, AbandonedWhileThrowing, Unsatisfied
<1>4. ThrownMeansLeaving'
  BY <1>1 DEF ThrownMeansLeaving
<1>5. FailuresWereThrown'
  BY <1>1 DEF IInv, FailuresWereThrown
<1>6. ScopedReportsFirst'
  BY <1>1, ReportsKept DEF IInv
<1>7. UnwindingIsSafe'
  <2> SUFFICES ASSUME terminated', ~caught PROVE FALSE
    BY <1>1 DEF UnwindingIsSafe
  <2>1. PICK s \in Dying({}, Top.seq, Front(stack)) :
            Unfulfilled(s) /\ inFlight = 0
    BY <1>1, Zenon
  <2> QED BY <1>1, <2>1, DyingAreFulfilled
<1> QED BY <1>3, <1>4, <1>5, <1>6, <1>7 DEF IInv

LEMMA CloseTryKeepsInvariant ==
    ASSUME IInv, OwnershipInv', CloseTry
    PROVE  IInv'
<1>1. /\ TypeOK /\ leaving /\ ~terminated /\ Len(stack) > 0
      /\ stack \in Seq(Objects) /\ Top.kind = "try" /\ stack' = Front(stack)
      /\ leaving' = FALSE /\ inFlight' = 0 /\ caught' = (caught \/ inFlight > 0)
      /\ UNCHANGED <<exps, reports, overwrote, terminated>>
  BY DEF IInv, OwnershipInv, TypeOK, CloseTry
<1>2. /\ DOMAIN stack' = DOMAIN stack \ {Len(stack)}
      /\ \A i \in DOMAIN stack' : stack'[i] = stack[i]
  BY <1>1, DropTop
\* Only the try block itself could be the object of an abandoned expectation.
<1>3. AbandonedWhileThrowing'
  BY <1>1, <1>2 DEF IInv, AbandonedWhileThrowing, Unsatisfied
<1>4. ThrownMeansLeaving'
  BY <1>1 DEF ThrownMeansLeaving
<1>5. FailuresWereThrown'
  <2> SUFFICES ASSUME ~caught' PROVE inFlight = 0 /\ ~caught
    BY <1>1 DEF IInv, FailuresWereThrown
  <2>1. ~(caught \/ inFlight > 0)
    BY <1>1, Zenon
  <2>2. inFlight \in Nat
    BY <1>1 DEF TypeOK
  <2>3. ~caught
    BY <2>1, Zenon
  <2>4. ~(inFlight > 0)
    BY <2>1, Zenon
  <2>5. inFlight = 0
    BY <2>2, <2>4
  <2> QED BY <2>3, <2>5
<1>6. ScopedReportsFirst'
  BY <1>1, ReportsKept DEF IInv
<1>7. UnwindingIsSafe'
  BY <1>1 DEF IInv, UnwindingIsSafe
<1> QED BY <1>3, <1>4, <1>5, <1>6, <1>7 DEF IInv

\* The invariants together are inductive.
LEMMA StepKeepsInvariant == IInv /\ [Next]_vars => IInv'
<1> SUFFICES ASSUME IInv, [Next]_vars PROVE IInv'
  OBVIOUS
<1>1. OwnershipInv /\ OwnershipInv' /\ TypeOK
  BY StepKeepsOwnership DEF IInv, OwnershipInv
<1>2. /\ stack \in Seq(Objects) /\ exps \in Seq(ExpectationRecords)
      /\ Len(stack) \in Nat /\ DOMAIN stack = 1 .. Len(stack)
      /\ Len(exps) \in Nat /\ DOMAIN exps = 1 .. Len(exps)
  BY <1>1, TypeFacts DEF TypeOK
\* A new object is in front of no expectation's sequence.
<1>3. ASSUME NEW o, stack' = Append(stack, o), Running,
             UNCHANGED <<exps, leaving, inFlight, reports, caught, overwrote,
                         terminated>>,
             \A e \in DOMAIN exps : exps[e].scoped # o.seq
                                    \/ exps[e].scoped = None
      PROVE  IInv'
  <2>1. \A i \in DOMAIN stack' : \/ i \in DOMAIN stack /\ stack'[i] = stack[i]
                                 \/ stack'[i] = o
    BY <1>2, <1>3
  <2> QED BY <1>1, <1>3, <2>1, RunningStepKeepsInvariant
<1>4. ASSUME NEW kind \in {"sequence", "scoped"}, NEW s \in Seqs,
             DeclareSequence(kind, s)
      PROVE  IInv'
  <2>1. \A e \in DOMAIN exps : exps[e].scoped # s
    BY <1>1, <1>4, SeqsAssumption
       DEF DeclareSequence, Declared, AttachedTo, OwnershipInv, ScopedAreAttached
  <2> QED BY <1>3, <1>4, <2>1 DEF DeclareSequence, Declare, Object
<1>5. CASE OpenTry
  BY <1>3, <1>5 DEF OpenTry, Declare, Object
<1>6. ASSUME NEW S \in SUBSET Seqs, NEW satisfied \in BOOLEAN,
             DeclareExpectation(S, satisfied)
      PROVE  IInv'
  <2> DEFINE x == NewExpectation(S, satisfied, None)
             o == Object("expectation", None, <<Len(exps) + 1>>)
  <2>1. exps' = Append(exps, x) /\ stack' = Append(stack, o)
    BY <1>6 DEF DeclareExpectation, Declare
  <2>2. x.alive /\ o.seq = None
    BY DEF NewExpectation, Object
  <2> HIDE DEF x, o
  <2>3. /\ \A e \in DOMAIN exps : e \in DOMAIN exps' /\ exps'[e] = exps[e]
        /\ \A e \in DOMAIN exps' : e \notin DOMAIN exps => exps'[e] = x
    BY <1>2, <2>1
  <2>4. \A i \in DOMAIN stack' : \/ i \in DOMAIN stack /\ stack'[i] = stack[i]
                                 \/ stack'[i] = o
    BY <1>2, <2>1
  <2>5. /\ Running
        /\ UNCHANGED <<leaving, inFlight, reports, caught, overwrote, terminated>>
    BY <1>6 DEF DeclareExpectation
  <2> QED BY <1>1, <2>2, <2>3, <2>4, <2>5, RunningStepKeepsInvariant
<1>7. ASSUME NEW i \in DOMAIN stack, NEW S \in SUBSET Seqs,
             NEW satisfied \in BOOLEAN, AddToScoped(i, S, satisfied)
      PROVE  IInv'
  <2> DEFINE s == stack[i].seq
             x == NewExpectation(S \cup {s}, satisfied, s)
             o == [stack[i] EXCEPT !.owned = Append(@, Len(exps) + 1)]
  <2>1. exps' = Append(exps, x) /\ stack' = [stack EXCEPT ![i] = o]
    BY <1>7 DEF AddToScoped
  <2>2. x.alive /\ o.seq = stack[i].seq
    <3>1. stack[i] \in Objects
      BY <1>2
    <3>2. o.seq = stack[i].seq
      BY <3>1 DEF Objects
    <3>3. x.alive
      BY DEF NewExpectation
    <3> QED BY <3>2, <3>3
  <2> HIDE DEF x, o
  <2>3. /\ \A e \in DOMAIN exps : e \in DOMAIN exps' /\ exps'[e] = exps[e]
        /\ \A e \in DOMAIN exps' : e \notin DOMAIN exps => exps'[e] = x
    BY <1>2, <2>1
  <2>4. \A j \in DOMAIN stack' :
           j \in DOMAIN stack /\ stack'[j].seq = stack[j].seq
    BY <1>2, <2>1, <2>2
  <2>5. /\ Running
        /\ UNCHANGED <<leaving, inFlight, reports, caught, overwrote, terminated>>
    BY <1>7 DEF AddToScoped
  <2> QED BY <1>1, <2>2, <2>3, <2>4, <2>5, RunningStepKeepsInvariant
<1>8. ASSUME NEW e \in DOMAIN exps, Satisfy(e)
      PROVE  IInv'
  <2>1. ASSUME NEW r \in ExpectationRecords
        PROVE  /\ [r EXCEPT !.satisfied = TRUE].scoped = r.scoped
               /\ [r EXCEPT !.satisfied = TRUE].alive = r.alive
               /\ [r EXCEPT !.satisfied = TRUE].satisfied
    BY DEF ExpectationRecords
  <2>2. exps' = [exps EXCEPT ![e] = [exps[e] EXCEPT !.satisfied = TRUE]]
    BY <1>8 DEF Satisfy
  <2>3. /\ DOMAIN exps' = DOMAIN exps
        /\ \A f \in DOMAIN exps : /\ exps'[f].scoped = exps[f].scoped
                                  /\ exps'[f].alive = exps[f].alive
                                  /\ exps[f].satisfied => exps'[f].satisfied
    BY <1>2, <2>1, <2>2
  <2>4. /\ Running
        /\ UNCHANGED <<stack, leaving, inFlight, reports, caught, overwrote,
                       terminated>>
    BY <1>8 DEF Satisfy
  <2> QED BY <1>1, <2>3, <2>4, RunningStepKeepsInvariant
<1>9. CASE Throw \/ LeaveBlock
  <2>1. /\ Running /\ leaving' = TRUE /\ (inFlight' = inFlight \/ inFlight' = 1)
        /\ UNCHANGED <<exps, stack, reports, caught, overwrote, terminated>>
    BY <1>9 DEF Throw, LeaveBlock
  <2> QED BY <1>1, <2>1, RunningStepKeepsInvariant
<1>10. CASE UNCHANGED vars
  BY <1>1, <1>10 DEF vars, IInv, AbandonedWhileThrowing, Unsatisfied,
     ThrownMeansLeaving, FailuresWereThrown, ScopedReportsFirst, UnwindingIsSafe
<1>11. CASE \/ DestroyOwned \/ ReleaseInterface \/ CloseTry
            \/ \E i, j \in DOMAIN stack : MoveAssign(i, j)
  BY <1>1, <1>11, DestroyKeepsInvariant, ReleaseKeepsInvariant,
     CloseTryKeepsInvariant, MoveKeepsInvariant
<1> QED BY <1>4, <1>5, <1>6, <1>7, <1>8, <1>9, <1>10, <1>11 DEF Next

LEMMA InitInvariant == Init => IInv
<1> SUFFICES ASSUME Init PROVE IInv
  OBVIOUS
<1>1. DOMAIN exps = {} /\ DOMAIN stack = {} /\ DOMAIN reports = {}
  BY DEF Init
<1>2. AbandonedWhileThrowing /\ ScopedReportsFirst
  BY <1>1 DEF AbandonedWhileThrowing, ScopedReportsFirst
<1> QED BY <1>1, <1>2, InitOwnership DEF Init, IInv, ThrownMeansLeaving,
           FailuresWereThrown, UnwindingIsSafe

LEMMA Invariant == Spec => []IInv
BY InitInvariant, StepKeepsInvariant, PTL DEF Spec

-----------------------------------------------------------------------------
\* Every variable keeps its type, and however destructors and handlers nest,
\* there are never two exceptions in flight.
THEOREM TypeCorrect == Spec => []TypeOK
<1>1. IInv => TypeOK
  BY DEF IInv, OwnershipInv
<1> QED BY <1>1, Invariant, PTL

\* A test that ends without an exception and caught none has satisfied every
\* expectation it ever had, however they were scoped, moved and overwritten.
THEOREM FailuresAreLoud == Spec => []NoFailureIsSilent
<1>1. ASSUME IInv PROVE NoFailureIsSilent
  <2> SUFFICES ASSUME stack = <<>>, ~terminated, inFlight = 0, ~caught,
                      NEW e \in DOMAIN exps
               PROVE  exps[e].satisfied
    BY DEF NoFailureIsSilent, Over
  <2>1. ~exps[e].alive
    BY <1>1 DEF IInv, OwnershipInv, AliveAreOwned
  <2> QED BY <1>1, <2>1 DEF IInv, FailuresWereThrown
<1> QED BY <1>1, Invariant, PTL

\* Destructors that run while the first failure propagates never terminate the
\* program; only a test that caught an exception or overwrote an object is
\* exposed to that.
THEOREM UnwindingNeverTerminates == Spec => []UnwindingIsSafe
<1>1. IInv => UnwindingIsSafe
  BY DEF IInv
<1> QED BY <1>1, Invariant, PTL

\* Of the expectations of a ScopedSequence, the first unfulfilled one is
\* reported, not one that failed because of it.
THEOREM FirstFailureReported == Spec => []ScopedReportsFirst
<1>1. IInv => ScopedReportsFirst
  BY DEF IInv
<1> QED BY <1>1, Invariant, PTL

=============================================================================
