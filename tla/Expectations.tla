----------------------------- MODULE Expectations -----------------------------
(***************************************************************************)
(* The life of expectations as one thread sees it: created by a builder    *)
(* and attached to sequences, matched by the calls of their mock, removed  *)
(* by the destructor of their ScopedExpectation.  Each action is a whole   *)
(* handler of ExpectationCollection, which runs under that collection's    *)
(* mutex; MockThreads has the interleavings of several threads.            *)
(*                                                                         *)
(* An expectation is identified by its creation number.  m_Expectations of *)
(* a mock is Live(m) in increasing order: push appends and the expectation *)
(* gets its number at the same time.                                       *)
(***************************************************************************)
EXTENDS BasicSequence, Rating

CONSTANTS
    Mocks,          \* the ExpectationCollections
    Seqs,           \* the sequences the test declares
    Args,           \* argument lists of calls, as the policies tell them apart
    Strategy,       \* the flavour of each sequence
    Limits,         \* the pairs <<min, max>> of the expectations (TimesConfig)
    Attachments,    \* the sets of sequences expectations are attached to
    Verdicts,       \* what the policies of an expectation say of each argument
    SideEffects,    \* whether a side effect may throw
    MaxExpectations \* bound: expectations ever created

VerdictValues == {"match", "mismatch", "throw"}

Ints == 0 .. IntMax

\* TimesConfig rejects every other pair with std::invalid_argument.
TimesConfigs == {l \in Ints \X Ints : l[1] <= l[2]}

ASSUME StrategyAssumption == Strategy \in [Seqs -> {"lazy", "greedy"}]
ASSUME LimitsAssumption == Limits \subseteq TimesConfigs
ASSUME AttachmentsAssumption == Attachments \subseteq SUBSET Seqs
ASSUME VerdictsAssumption == Verdicts \subseteq [Args -> VerdictValues]
ASSUME SideEffectsAssumption == SideEffects \subseteq {"return", "throw"}
ASSUME MaxExpectationsAssumption == MaxExpectations \in Nat

VARIABLES
    seqs,       \* the sequences, kept alive by shared_ptrs of their users
    exps,       \* the expectations by creation number
    last,       \* what the last operation reported, and for which argument
    asserted,   \* history: every MIMICPP_ASSERT evaluated so far held
    terminated  \* std::terminate was called

vars == <<seqs, exps, last, asserted, terminated>>

NotAttached == 0

\* BasicExpectation with its ControlPolicy.  "at" is m_Sequences: the position
\* of the expectation's entry in each sequence it is attached to.  The code
\* has an int for every number and an Id for every position.
Positions == 0 .. (IdMax + 1)

ExpectationRecords ==
    [mock : Mocks, verdict : [Args -> VerdictValues], min : Ints, max : Ints,
     count : Ints, at : [Seqs -> Positions], live : BOOLEAN]

Reports ==
    [kind : {"none", "created", "full_match", "inapplicable", "no_match",
             "removed", "unfulfilled", "terminate"},
     arg : Args \cup {"-"}]

Report(kind, arg) == [kind |-> kind, arg |-> arg]

\* Beyond the types: no count overflows its int and no position its Id, however
\* often the most permissive expectation is used.
TypeOK ==
    /\ seqs \in [Seqs -> BasicSequences]
    /\ exps \in Seq(ExpectationRecords)
    /\ last \in Reports
    /\ asserted \in BOOLEAN
    /\ terminated \in BOOLEAN

-----------------------------------------------------------------------------
\* ControlPolicy

SequencesOf(x) == {s \in Seqs : x.at[s] # NotAttached}

IsSatisfied(x) == x.min <= x.count /\ x.count <= x.max

IsSaturated(x) == x.count = x.max

\* is_applicable: the control state is state_applicable.
IsApplicable(x) ==
    /\ ~IsSaturated(x)
    /\ \A s \in SequencesOf(x) : IsConsumable(seqs[s], x.at[s])

\* state_inapplicable::inapplicableSequences
InapplicableSequences(x) ==
    {s \in SequencesOf(x) : ~IsConsumable(seqs[s], x.at[s])}

SequenceRatings(x) ==
    [s \in SequencesOf(x) |-> Priority(Strategy[s], x.at[s], seqs[s].cursor)]

\* Bug: the two conditions are tested in the other order.
UpdateSatisfiedFirst(q, x, s) ==
    IF x.count = x.min THEN SetSatisfied(q, x.at[s])
    ELSE IF IsSaturated(x) THEN SetSaturated(q, x.at[s])
    ELSE q

\* update_sequence_states for one of the sequences, and its assertions.
UpdateSequenceState(q, x, s) ==
    IF IsSaturated(x) THEN SetSaturated(q, x.at[s])
    ELSE IF x.count = x.min THEN SetSatisfied(q, x.at[s])
    ELSE q

UpdateAsserts(q, x, s) ==
    IF IsSaturated(x) THEN SetSaturatedAsserts(q, x.at[s])
    ELSE x.count = x.min => SetSatisfiedAsserts(q, x.at[s])

-----------------------------------------------------------------------------
\* ExpectationCollection: what evaluate_expectations sorts the live
\* expectations into.  One whose matches() throws is reported and left out.

Live(m) == {e \in DOMAIN exps : exps[e].live /\ exps[e].mock = m}

Accepting(m, a) == {e \in Live(m) : exps[e].verdict[a] = "match"}

Matches(m, a) == {e \in Accepting(m, a) : IsApplicable(exps[e])}

InapplicableMatches(m, a) == Accepting(m, a) \ Matches(m, a)

BestMatch(matches) ==
    FindBestMatch(matches, [e \in matches |-> SequenceRatings(exps[e])])

-----------------------------------------------------------------------------
Init ==
    /\ seqs = [s \in Seqs |-> EmptySequence]
    /\ exps = <<>>
    /\ last = Report("none", "-")
    /\ asserted = TRUE
    /\ terminated = FALSE

\* ExpectationBuilder::finalize: ControlPolicy's constructor adds an entry to
\* every sequence and publishes the state for a count of zero; then the
\* expectation is pushed.
NewExpectation(m, S, limits, verdict) ==
    [mock |-> m, verdict |-> verdict, min |-> limits[1], max |-> limits[2],
     count |-> 0,
     at |-> [s \in Seqs |-> IF s \in S THEN Len(seqs[s].entries) + 1
                                       ELSE NotAttached],
     live |-> TRUE]

Create(m, S, limits, verdict) ==
    /\ ~terminated
    /\ Len(exps) < MaxExpectations
    /\ \A s \in S : HasRoom(seqs[s])
    /\ LET x == NewExpectation(m, S, limits, verdict)
       IN  /\ exps' = Append(exps, x)
           /\ seqs' = [s \in Seqs |->
                          IF s \in S
                          THEN UpdateSequenceState(Add(seqs[s]), x, s)
                          ELSE seqs[s]]
           /\ asserted' = (asserted /\ \A s \in S :
                              UpdateAsserts(Add(seqs[s]), x, s))
    /\ last' = Report("created", "-")
    /\ UNCHANGED terminated

\* A full sequence makes add throw inside make_sequence_entries, which is
\* noexcept.
CreateInFullSequence(S) ==
    /\ ~terminated
    /\ Len(exps) < MaxExpectations
    /\ \E s \in S : ~HasRoom(seqs[s])
    /\ last' = Report("terminate", "-")
    /\ terminated' = TRUE
    /\ UNCHANGED <<seqs, exps, asserted>>

\* BasicExpectation::consume: first the control policy, then the side effects
\* in a noexcept lambda.  The finalizer, which runs last, changes nothing here.
ConsumedSequence(x, s) ==
    UpdateSequenceState(Consume(seqs[s], x.at[s]), x, s)

ConsumeExpectation(e, effect) ==
    LET x == [exps[e] EXCEPT !.count = @ + 1]
    IN  /\ exps' = [exps EXCEPT ![e] = x]
        /\ seqs' = [s \in Seqs |-> IF s \in SequencesOf(x)
                                   THEN ConsumedSequence(x, s)
                                   ELSE seqs[s]]
        /\ asserted' =
              (/\ asserted
               /\ exps[e].count < exps[e].max
               /\ \A s \in SequencesOf(x) :
                     /\ IsConsumable(seqs[s], x.at[s])
                     /\ UpdateAsserts(Consume(seqs[s], x.at[s]), x, s))
        /\ terminated' = (effect = "throw")

\* handle_call, for each of its three outcomes.
FullMatch(m, a, effect) ==
    /\ ~terminated
    /\ \E e \in Matches(m, a) :
          /\ e = BestMatch(Matches(m, a))
          /\ ConsumeExpectation(e, effect)
    /\ last' = Report("full_match", a)

Inapplicable(m, a) ==
    /\ ~terminated
    /\ Matches(m, a) = {}
    /\ InapplicableMatches(m, a) # {}
    /\ last' = Report("inapplicable", a)
    /\ UNCHANGED <<seqs, exps, asserted, terminated>>

NoMatch(m, a) ==
    /\ ~terminated
    /\ Accepting(m, a) = {}
    /\ last' = Report("no_match", a)
    /\ UNCHANGED <<seqs, exps, asserted, terminated>>

\* remove, from ~ScopedExpectation.  The entries in the sequences stay.
Remove(e) ==
    /\ ~terminated
    /\ exps[e].live
    /\ exps' = [exps EXCEPT ![e].live = FALSE]
    /\ last' = Report(IF IsSatisfied(exps[e]) THEN "removed" ELSE "unfulfilled",
                      "-")
    /\ UNCHANGED <<seqs, asserted, terminated>>

Next ==
    \/ \E m \in Mocks, S \in Attachments, l \in Limits, v \in Verdicts :
          Create(m, S, l, v)
    \/ \E S \in Attachments : CreateInFullSequence(S)
    \/ \E m \in Mocks, a \in Args, effect \in SideEffects : FullMatch(m, a, effect)
    \/ \E m \in Mocks, a \in Args : Inapplicable(m, a) \/ NoMatch(m, a)
    \/ \E e \in DOMAIN exps : Remove(e)

Spec == Init /\ [][Next]_vars

-----------------------------------------------------------------------------
\* The assertions of BasicSequence and ControlPolicy hold whenever they are
\* evaluated: no attachment and no order of calls makes a policy consume an
\* entry that is not consumable or publish a state twice.
AssertionsHold == asserted

\* ~BasicSequence asserts that the cursor never skipped an unsatisfied entry.
CursorSkipsOnlyFulfilled ==
    \A s \in Seqs : \A i \in 1 .. (seqs[s].cursor - 1) :
        IsFulfilled(seqs[s].entries[i])

\* The state an entry has in a sequence is the one the count of its
\* expectation calls for, whichever of the sequences one looks at.
EntriesFollowCounts ==
    \A e \in DOMAIN exps : \A s \in SequencesOf(exps[e]) :
        LET state == seqs[s].entries[exps[e].at[s]]
        IN  /\ IsFulfilled(state) <=> IsSatisfied(exps[e])
            /\ IsActive(state) <=> ~IsSaturated(exps[e])

\* The promise of sequences ("the expectation, which gets attached first must
\* match before all subsequent expectations"), with no cursor and no entry
\* states: an expectation may be used if everything attached before it is
\* satisfied and nothing attached after it was used.
Attachment(e) ==
    [min |-> exps[e].min, max |-> exps[e].max, in |-> SequencesOf(exps[e])]

Promise == INSTANCE SequencePromise WITH
    Attachables <- {[min |-> l[1], max |-> l[2], in |-> S] :
                       l \in Limits, S \in Attachments},
    attached <- [e \in DOMAIN exps |-> Attachment(e)],
    count <- [e \in DOMAIN exps |-> exps[e].count]

\* The cursors keep that promise in every step.
KeepsSequencePromise == Promise!Spec

\* They refuse nothing it allows: an expectation is inapplicable only if it is
\* saturated or the promise forbids its use.
RefusesOnlyWhatPromiseForbids ==
    \A e \in DOMAIN exps :
        Promise!MayBeUsed(e) => IsApplicable(exps[e])

\* A report of inapplicable expectations names for each sequence that refuses one
\* the expectation that is its head: "Head-from can not be empty."
\* (inapplicable_reason_printer, StringifyReports.hpp).
RefusingSequencesHaveHeads ==
    last.kind = "inapplicable" =>
        \A m \in Mocks : Matches(m, last.arg) = {} =>
            \A e \in InapplicableMatches(m, last.arg) :
                \/ IsSaturated(exps[e])
                \/ \A s \in InapplicableSequences(exps[e]) : HasHead(seqs[s])

-----------------------------------------------------------------------------
\* Which of several candidates a call uses.

Used(e) == e \in DOMAIN exps /\ exps'[e].count # exps[e].count

Candidates(e) == Matches(exps[e].mock, last'.arg)

\* "If two or more expectations would match a call, the last created one is
\* used", as long as that one is in no sequence.
LastCreatedIsUsed ==
    [][\A e \in DOMAIN exps : Used(e) =>
          LET newest == Max(Candidates(e))
          IN  SequencesOf(exps[newest]) = {} => e = newest]_vars

\* The newest candidate gives way only to a candidate that is in all of its
\* sequences, so one whose progress can be compared with its own.
NewestYieldsOnlyWithinItsSequences ==
    [][\A e \in DOMAIN exps : Used(e) =>
          SequencesOf(exps[Max(Candidates(e))]) \subseteq SequencesOf(exps[e])]_vars

\* LazySequence "is designed to make the least possible progress for a match,
\* thus prefers not to skip sequence elements".
LazyMakesLeastProgress ==
    [][\A e \in DOMAIN exps : Used(e) =>
          \A s \in SequencesOf(exps[e]), c \in Candidates(e) :
              Strategy[s] = "lazy" /\ s \in SequencesOf(exps[c])
                  => exps[e].at[s] <= exps[c].at[s]]_vars

\* GreedySequence "does make the maximal possible progress for a match".
GreedyMakesMostProgress ==
    [][\A e \in DOMAIN exps : Used(e) =>
          \A s \in SequencesOf(exps[e]), c \in Candidates(e) :
              Strategy[s] = "greedy" /\ s \in SequencesOf(exps[c])
                  => exps[e].at[s] >= exps[c].at[s]]_vars

=============================================================================
