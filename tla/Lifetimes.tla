------------------------------ MODULE Lifetimes ------------------------------
(***************************************************************************)
(* How the objects of a test end: sequences, scoped sequences and scoped   *)
(* expectations are automatic objects, destroyed from the last declared to *)
(* the first when their block is left, normally or by an exception.        *)
(* Destroying an unsatisfied expectation or an unfulfilled sequence makes  *)
(* the reporter throw (DefaultReporter, BasicReporter) unless an exception *)
(* is already in flight; throwing out of a noexcept function terminates.   *)
(*                                                                         *)
(* Whether an expectation is satisfied is all that is kept of it here: the *)
(* entries of its sequences are fulfilled exactly when it is satisfied     *)
(* (EntriesFollowCounts in Expectations), also after its end.              *)
(***************************************************************************)
EXTENDS Integers, Sequences, SequencesExt

CONSTANTS
    Seqs,           \* the sequences a test may declare, scoped or not
    MaxObjects,     \* bound: objects and try blocks open at a time
    MaxExpectations \* bound: expectations ever created

VARIABLES
    exps,       \* the expectations by creation number
    stack,      \* the automatic objects and try blocks, the last one on top
    leaving,    \* the innermost block is being left
    inFlight,   \* std::uncaught_exceptions()
    reports,    \* history: expectations reported as unfulfilled
    caught,     \* history: a try block caught an exception
    overwrote,  \* history: an object was move-assigned over
    terminated

vars == <<exps, stack, leaving, inFlight, reports, caught, overwrote, terminated>>

None == "none"

ASSUME SeqsAssumption == None \notin Seqs
ASSUME BoundsAssumption == MaxObjects \in Nat /\ MaxExpectations \in Nat

\* "scoped" tells the owner: the ScopedSequence that holds the expectation.
ExpectationRecords ==
    [in : SUBSET Seqs, satisfied : BOOLEAN, alive : BOOLEAN,
     scoped : Seqs \cup {None}]

\* A ScopedExpectation owns one expectation and a ScopedSequence any number;
\* both kinds of sequences own their share of a BasicSequence.  An object that
\* was moved from owns nothing.
Objects ==
    [kind : {"expectation", "sequence", "scoped", "try"},
     seq : Seqs \cup {None}, owned : Seq(Nat)]

Object(kind, s, owned) == [kind |-> kind, seq |-> s, owned |-> owned]

\* Beyond the types: no second exception is ever in flight.
TypeOK ==
    /\ exps \in Seq(ExpectationRecords)
    /\ stack \in Seq(Objects)
    /\ inFlight \in {0, 1}
    /\ reports \in Seq(DOMAIN exps)
    /\ leaving \in BOOLEAN /\ caught \in BOOLEAN
    /\ overwrote \in BOOLEAN /\ terminated \in BOOLEAN

Unsatisfied(e) == ~exps[e].satisfied

AttachedTo(s) == {e \in DOMAIN exps : s \in exps[e].in}

\* ~BasicSequence: some entry is not fulfilled.
Unfulfilled(s) == \E e \in AttachedTo(s) : Unsatisfied(e)

\* The sequences that lose their last shared_ptr when the expectations in gone
\* and the interface of s (or None) are destroyed, the latter not in objects.
Dying(gone, s, objects) ==
    {q \in (UNION {exps[e].in : e \in gone} \cup {s}) \ {None} :
        /\ \A e \in AttachedTo(q) : exps[e].alive => e \in gone
        /\ \A i \in DOMAIN objects : objects[i].seq # q}

Bury(gone) ==
    [e \in DOMAIN exps |->
        IF e \in gone THEN [exps[e] EXCEPT !.alive = FALSE] ELSE exps[e]]

-----------------------------------------------------------------------------
Init ==
    /\ exps = <<>>
    /\ stack = <<>>
    /\ leaving = FALSE
    /\ inFlight = 0
    /\ reports = <<>>
    /\ caught = FALSE
    /\ overwrote = FALSE
    /\ terminated = FALSE

Running == ~leaving /\ ~terminated

Declared(s) ==
    \/ \E i \in DOMAIN stack : stack[i].seq = s
    \/ AttachedTo(s) # {}

InReach == {stack[i].seq : i \in DOMAIN stack} \ {None}

Declare(object) ==
    /\ Len(stack) < MaxObjects
    /\ stack' = Append(stack, object)

DeclareSequence(kind, s) ==
    /\ Running
    /\ ~Declared(s)
    /\ Declare(Object(kind, s, <<>>))
    /\ UNCHANGED <<exps, leaving, inFlight, reports, caught, overwrote, terminated>>

OpenTry ==
    /\ Running
    /\ Declare(Object("try", None, <<>>))
    /\ UNCHANGED <<exps, leaving, inFlight, reports, caught, overwrote, terminated>>

NewExpectation(S, satisfied, scoped) ==
    [in |-> S, satisfied |-> satisfied, alive |-> TRUE, scoped |-> scoped]

DeclareExpectation(S, satisfied) ==
    /\ Running
    /\ Len(exps) < MaxExpectations
    /\ S \subseteq InReach
    /\ exps' = Append(exps, NewExpectation(S, satisfied, None))
    /\ Declare(Object("expectation", None, <<Len(exps) + 1>>))
    /\ UNCHANGED <<leaving, inFlight, reports, caught, overwrote, terminated>>

\* Bug: the expectation is put in front of the others.
AddToScopedInFront(i, S, satisfied) ==
    LET s == stack[i].seq
    IN  /\ Running
        /\ Len(exps) < MaxExpectations
        /\ stack[i].kind = "scoped" /\ s # None
        /\ S \subseteq InReach \ {s}
        /\ exps' = Append(exps, NewExpectation(S \cup {s}, satisfied, s))
        /\ stack' = [stack EXCEPT ![i].owned = <<Len(exps) + 1>> \o @]
        /\ UNCHANGED <<leaving, inFlight, reports, caught, overwrote, terminated>>

\* ScopedSequence::operator += ; the builder's other sequences may not contain
\* this one.
AddToScoped(i, S, satisfied) ==
    LET s == stack[i].seq
    IN  /\ Running
        /\ Len(exps) < MaxExpectations
        /\ stack[i].kind = "scoped" /\ s # None
        /\ S \subseteq InReach \ {s}
        /\ exps' = Append(exps, NewExpectation(S \cup {s}, satisfied, s))
        /\ stack' = [stack EXCEPT ![i].owned = Append(@, Len(exps) + 1)]
        /\ UNCHANGED <<leaving, inFlight, reports, caught, overwrote, terminated>>

\* Calls use an expectation often enough, which its sequences allow once all
\* that precedes it is satisfied.
Satisfy(e) ==
    /\ Running
    /\ exps[e].alive /\ Unsatisfied(e)
    /\ \A s \in exps[e].in : \A f \in AttachedTo(s) : f < e => exps[f].satisfied
    /\ exps' = [exps EXCEPT ![e].satisfied = TRUE]
    /\ UNCHANGED <<stack, leaving, inFlight, reports, caught, overwrote, terminated>>

\* A call that no expectation matches, or any other code of the test, throws.
Throw ==
    /\ Running
    /\ inFlight' = 1
    /\ leaving' = TRUE
    /\ UNCHANGED <<exps, stack, reports, caught, overwrote, terminated>>

LeaveBlock ==
    /\ Running
    /\ stack # <<>>
    /\ leaving' = TRUE
    /\ UNCHANGED <<exps, stack, inFlight, reports, caught, overwrote, terminated>>

\* The defaulted move-assignments destroy what the target owned inside
\* noexcept functions (unique_ptr, deque and shared_ptr).
MoveAssign(i, j) ==
    LET target == stack[i]
        source == stack[j]
        gone == ToSet(target.owned)
        moved == [stack EXCEPT ![i] = source,
                               ![j] = Object(source.kind, None, <<>>)]
        unsatisfied == {k \in DOMAIN target.owned : Unsatisfied(target.owned[k])}
    IN  /\ Running
        /\ i # j /\ target.kind = source.kind /\ target.kind # "try"
        /\ stack' = moved
        /\ exps' = Bury(gone)
        /\ overwrote' = TRUE
        /\ reports' = IF unsatisfied = {} THEN reports
                      ELSE Append(reports, target.owned[Min(unsatisfied)])
        /\ terminated' = \/ unsatisfied # {}
                         \/ \E s \in Dying(gone, target.seq, moved) : Unfulfilled(s)
        /\ UNCHANGED <<leaving, inFlight, caught>>

-----------------------------------------------------------------------------
\* The steps of leaving a block.

Top == Last(stack)

\* Bug: the reporter throws in any case.
AlwaysThrows(uncaught) == TRUE

\* report_unfulfilled_expectation and report_error check uncaught_exceptions.
ReporterThrows(uncaught) == uncaught = 0

\* ~ScopedExpectation, or one round of ~BasicScopedSequence, which takes the
\* expectations from the front.  If remove throws, the members of the model
\* are released while that exception is in flight.
NextOwned == Head(Top.owned)

\* Bug: only the first expectation is checked.
NoOthers == <<>>

OthersOwned == Tail(Top.owned)

DestroyOwned ==
    LET e == NextOwned
        rest == Front(stack) \o <<[Top EXCEPT !.owned = OthersOwned]>>
        reported == Unsatisfied(e) /\ ReporterThrows(inFlight)
        uncaught == IF reported THEN inFlight + 1 ELSE inFlight
    IN  /\ leaving /\ ~terminated
        /\ stack # <<>> /\ Top.owned # <<>>
        /\ stack' = rest
        /\ exps' = Bury({e})
        /\ reports' = IF reported THEN Append(reports, e) ELSE reports
        /\ inFlight' = uncaught
        /\ terminated' =
              \/ uncaught > 1
              \/ \E s \in Dying({e}, None, rest) :
                    Unfulfilled(s) /\ ReporterThrows(uncaught)
        /\ UNCHANGED <<leaving, caught, overwrote>>

\* ~BasicSequenceInterface releases the shared_ptr, in which ~BasicSequence
\* runs if it was the last one.
ReleaseInterface ==
    /\ leaving /\ ~terminated
    /\ stack # <<>> /\ Top.kind # "try" /\ Top.owned = <<>>
    /\ stack' = Front(stack)
    /\ terminated' = \E s \in Dying({}, Top.seq, Front(stack)) :
                        Unfulfilled(s) /\ ReporterThrows(inFlight)
    /\ UNCHANGED <<exps, leaving, inFlight, reports, caught, overwrote>>

\* The end of a try block, and the handler that swallows the exception.
CloseTry ==
    /\ leaving /\ ~terminated
    /\ stack # <<>> /\ Top.kind = "try"
    /\ stack' = Front(stack)
    /\ leaving' = FALSE
    /\ inFlight' = 0
    /\ caught' = (caught \/ inFlight > 0)
    /\ UNCHANGED <<exps, reports, overwrote, terminated>>

Next ==
    \/ \E kind \in {"sequence", "scoped"}, s \in Seqs : DeclareSequence(kind, s)
    \/ OpenTry
    \/ \E S \in SUBSET Seqs, satisfied \in BOOLEAN :
          \/ DeclareExpectation(S, satisfied)
          \/ \E i \in DOMAIN stack : AddToScoped(i, S, satisfied)
    \/ \E e \in DOMAIN exps : Satisfy(e)
    \/ Throw
    \/ LeaveBlock
    \/ \E i, j \in DOMAIN stack : MoveAssign(i, j)
    \/ DestroyOwned
    \/ ReleaseInterface
    \/ CloseTry

Spec == Init /\ [][Next]_vars

-----------------------------------------------------------------------------
\* The test's block was left: nothing is on the stack any more.
Over == leaving /\ stack = <<>> /\ ~terminated

\* A test that ends without an exception, and swallowed none, has satisfied
\* every expectation it ever had, those its sequences owned included.
NoFailureIsSilent ==
    Over /\ inFlight = 0 /\ ~caught => \A e \in DOMAIN exps : exps[e].satisfied

\* Destructors terminate the program only in a test that caught an exception
\* before, or overwrote an object: whatever fails first, the destructors that
\* run while it propagates add no second exception.
UnwindingIsSafe == terminated => caught \/ overwrote

\* A ScopedSequence reports its first unfulfilled expectation.
ScopedReportsFirst ==
    \A i \in DOMAIN reports : \A f \in 1 .. (reports[i] - 1) :
        exps[f].scoped # None /\ exps[f].scoped = exps[reports[i]].scoped
            => exps[f].satisfied

\* ~BasicSequence is noexcept(false) so that the error it reports propagates
\* ("this function is expected to throw an exception rather than return").
SequenceErrorsPropagate == ~overwrote => ~terminated

=============================================================================
