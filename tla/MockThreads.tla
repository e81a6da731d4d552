----------------------------- MODULE MockThreads -----------------------------
(***************************************************************************)
(* Calls of mocks by several threads, and by the callbacks of other calls. *)
(*                                                                         *)
(* ExpectationCollection::handle_call takes the mutex of its collection    *)
(* and keeps it while it runs what the user supplied: the matchers of      *)
(* every expectation, the side effects and the finalizer of the chosen     *)
(* one.  Each of them may call a mock, whose handle_call then runs on top  *)
(* of the first.  A thread is the stack of its unfinished calls.  The      *)
(* mutex is not recursive: a thread that meets its own lock waits for ever *)
(* (std::mutex leaves this undefined; the pthread mutex below it blocks).  *)
(*                                                                         *)
(* State and operations of the expectations are those of Expectations; a   *)
(* call that is one step there is a sequence of steps here.                *)
(***************************************************************************)
EXTENDS Expectations

CONSTANTS
    Threads,
    Nested,     \* from each place, the mocks the expectations of a mock call
    MaxCalls    \* bound: calls started by threads

Places == {"matcher", "side_effect", "finalizer"}

ASSUME NestedAssumption == Nested \in [Places -> [Mocks -> SUBSET Mocks]]

VARIABLES
    mutex,      \* m_ExpectationsMx of every collection: its owner, or Free
    stack,      \* the unfinished calls of every thread, the innermost first
    calls       \* number of calls started by threads

Free == "free"

ASSUME ThreadsAssumption == Free \notin Threads

threadVars == <<mutex, stack, calls>>

allVars == <<vars, threadVars>>

Phases == {"lock", "evaluate", "side_effect", "finalize", "return", "unwind"}

\* One activation of handle_call.  "todo" are the expectations that
\* evaluate_expectations has still to visit, "matches" and "inapplicable" what
\* it collected, all of them raw pointers in the code.  "visited" tells that
\* the matcher of the expectation at hand has made its call, "reentered" that
\* any of them did (history), "chosen" is the expectation that is consumed,
\* "from" the place the call was made at.
Frame(m, a, from) ==
    [mock |-> m, arg |-> a, from |-> from, phase |-> "lock", todo |-> {},
     visited |-> FALSE, reentered |-> FALSE, matches |-> {},
     inapplicable |-> {}, chosen |-> 0]

Frames ==
    [mock : Mocks, arg : Args, from : Places \cup {"thread"}, phase : Phases,
     todo : SUBSET Nat, visited : BOOLEAN, reentered : BOOLEAN,
     matches : SUBSET Nat, inapplicable : SUBSET Nat, chosen : Nat]

ThreadsTypeOK ==
    /\ TypeOK
    /\ mutex \in [Mocks -> Threads \cup {Free}]
    /\ stack \in [Threads -> Seq(Frames)]
    /\ calls \in Nat

Busy(t) == stack[t] # <<>>

Top(t) == Head(stack[t])

\* The innermost call of t goes on as f.
GoOn(t, f) == stack' = [stack EXCEPT ![t] = <<f>> \o Tail(@)]

-----------------------------------------------------------------------------
\* What a thread does between its calls.  Building an expectation and pushing
\* it, or erasing it, are single steps: nothing of the user's runs inside.

InitThreads ==
    /\ Init
    /\ mutex = [m \in Mocks |-> Free]
    /\ stack = [t \in Threads |-> <<>>]
    /\ calls = 0

StartCall(t, m, a) ==
    /\ ~terminated
    /\ ~Busy(t)
    /\ calls < MaxCalls
    /\ calls' = calls + 1
    /\ stack' = [stack EXCEPT ![t] = <<Frame(m, a, "thread")>>]
    /\ UNCHANGED <<vars, mutex>>

\* Bugs: push and remove without the lock.
PushUnlocked(t, m, S, limits, verdict) ==
    /\ ~Busy(t)
    /\ Create(m, S, limits, verdict)
    /\ UNCHANGED threadVars

EraseUnlocked(t, e) == ~Busy(t) /\ Remove(e) /\ UNCHANGED threadVars

Push(t, m, S, limits, verdict) ==
    /\ ~Busy(t)
    /\ mutex[m] = Free
    /\ Create(m, S, limits, verdict)
    /\ UNCHANGED threadVars

Erase(t, e) ==
    /\ ~Busy(t)
    /\ mutex[exps[e].mock] = Free
    /\ Remove(e)
    /\ UNCHANGED threadVars

-----------------------------------------------------------------------------
\* The steps of handle_call.

\* Bug: no lock is taken.
EnterUnlocked(t) ==
    /\ ~terminated
    /\ Busy(t) /\ Top(t).phase = "lock"
    /\ GoOn(t, [Top(t) EXCEPT !.phase = "evaluate", !.todo = Live(Top(t).mock)])
    /\ UNCHANGED <<vars, mutex, calls>>

Lock(t) ==
    /\ ~terminated
    /\ Busy(t) /\ Top(t).phase = "lock"
    /\ mutex[Top(t).mock] = Free
    /\ mutex' = [mutex EXCEPT ![Top(t).mock] = t]
    /\ GoOn(t, [Top(t) EXCEPT !.phase = "evaluate", !.todo = Live(Top(t).mock)])
    /\ UNCHANGED <<vars, calls>>

\* evaluate_expectations visits the newest expectation left.  One that threw
\* is reported and not collected; neither is one that does not match.
Evaluated(f, e) ==
    LET rest == [f EXCEPT !.todo = @ \ {e}, !.visited = FALSE]
    IN  IF exps[e].verdict[f.arg] # "match" THEN rest
        ELSE IF IsApplicable(exps[e]) THEN [rest EXCEPT !.matches = @ \cup {e}]
        ELSE [rest EXCEPT !.inapplicable = @ \cup {e}]

Evaluate(t) ==
    /\ ~terminated
    /\ Busy(t) /\ Top(t).phase = "evaluate"
    /\ Top(t).todo # {}
    /\ GoOn(t, Evaluated(Top(t), Max(Top(t).todo)))
    /\ UNCHANGED <<vars, mutex, calls>>

\* A callback calls a mock.  The call below it is left in the state in which
\* it goes on if the inner call returns.
CallFromMatcher(f) ==
    f.phase = "evaluate" /\ f.todo # {} /\ ~f.visited

Interrupted(f, place) ==
    CASE place = "matcher" -> [f EXCEPT !.visited = TRUE, !.reentered = TRUE]
      [] place = "side_effect" -> [f EXCEPT !.phase = "finalize"]
      [] place = "finalizer" -> [f EXCEPT !.phase = "return"]

AtPlace(f, place) ==
    CASE place = "matcher" -> CallFromMatcher(f)
      [] place = "side_effect" -> f.phase = "side_effect"
      [] place = "finalizer" -> f.phase = "finalize"

CallBack(t, place, m, a) ==
    /\ ~terminated
    /\ Busy(t) /\ AtPlace(Top(t), place)
    /\ m \in Nested[place][Top(t).mock]
    /\ stack' = [stack EXCEPT ![t] =
                    <<Frame(m, a, place), Interrupted(Top(t), place)>> \o Tail(@)]
    /\ UNCHANGED <<vars, mutex, calls>>

\* The reports of all matches are gathered again before the best is found.
\* find_best_match reads the ratings of two matches or more in a noexcept
\* lambda; a match that is inapplicable by then has none.
StaleReport(f) ==
    /\ Cardinality(f.matches) > 1
    /\ \E e \in f.matches : ~IsApplicable(exps[e])

\* Bug: the first match is taken for the best.
ConsumeFirst(t) ==
    /\ ~terminated
    /\ Busy(t) /\ Top(t).phase = "evaluate"
    /\ Top(t).todo = {} /\ Top(t).matches # {}
    /\ ConsumeExpectation(Max(Top(t).matches), "return")
    /\ GoOn(t, [Top(t) EXCEPT !.phase = "side_effect",
                             !.chosen = Max(Top(t).matches)])
    /\ last' = Report("full_match", Top(t).arg)
    /\ UNCHANGED <<mutex, calls>>

ConsumeBest(t) ==
    /\ ~terminated
    /\ Busy(t) /\ Top(t).phase = "evaluate"
    /\ Top(t).todo = {} /\ Top(t).matches # {}
    /\ ~StaleReport(Top(t))
    /\ \E best \in Top(t).matches :
          /\ best = BestMatch(Top(t).matches)
          /\ ConsumeExpectation(best, "return")
          /\ GoOn(t, [Top(t) EXCEPT !.phase = "side_effect", !.chosen = best])
    /\ last' = Report("full_match", Top(t).arg)
    /\ UNCHANGED <<mutex, calls>>

TerminateOnStaleReport(t) ==
    /\ ~terminated
    /\ Busy(t) /\ Top(t).phase = "evaluate"
    /\ Top(t).todo = {}
    /\ StaleReport(Top(t))
    /\ terminated' = TRUE
    /\ UNCHANGED <<seqs, exps, last, asserted, threadVars>>

\* report_inapplicable_matches and report_no_matches do not return.
Fail(t) ==
    /\ ~terminated
    /\ Busy(t) /\ Top(t).phase = "evaluate"
    /\ Top(t).todo = {} /\ Top(t).matches = {}
    /\ last' = Report(IF Top(t).inapplicable = {} THEN "no_match"
                                                  ELSE "inapplicable",
                      Top(t).arg)
    /\ GoOn(t, [Top(t) EXCEPT !.phase = "unwind"])
    /\ UNCHANGED <<seqs, exps, asserted, terminated, mutex, calls>>

\* The side effects run in a noexcept lambda.
ReturnFromSideEffects(t) ==
    /\ ~terminated
    /\ Busy(t) /\ Top(t).phase = "side_effect"
    /\ GoOn(t, [Top(t) EXCEPT !.phase = "finalize"])
    /\ UNCHANGED <<vars, mutex, calls>>

ThrowFromSideEffect(t) ==
    /\ ~terminated
    /\ "throw" \in SideEffects
    /\ Busy(t) /\ Top(t).phase = "side_effect"
    /\ terminated' = TRUE
    /\ UNCHANGED <<seqs, exps, last, asserted, threadVars>>

\* finalize_call returns the call's result, or throws (finally::throws).
Finalize(t) ==
    /\ ~terminated
    /\ Busy(t) /\ Top(t).phase = "finalize"
    /\ \E outcome \in {"return", "unwind"} :
          GoOn(t, [Top(t) EXCEPT !.phase = outcome])
    /\ UNCHANGED <<vars, mutex, calls>>

Unlock(m) == mutex' = [mutex EXCEPT ![m] = Free]

\* Bug: the lock is kept on the way out.
ReturnStillLocked(t) ==
    /\ ~terminated
    /\ Busy(t) /\ Top(t).phase = "return"
    /\ stack' = [stack EXCEPT ![t] = Tail(@)]
    /\ UNCHANGED <<vars, mutex, calls>>

Return(t) ==
    /\ ~terminated
    /\ Busy(t) /\ Top(t).phase = "return"
    /\ Unlock(Top(t).mock)
    /\ stack' = [stack EXCEPT ![t] = Tail(@)]
    /\ UNCHANGED <<vars, calls>>

\* An exception leaves handle_call.  determine_requirement_outcomes catches it
\* if a matcher made the call; out of a side effect it terminates; through a
\* finalizer it reaches the outer call.
Unwound(f, place) ==
    CASE place = "matcher" ->
             [f EXCEPT !.todo = @ \ {Max(@)}, !.visited = FALSE]
      [] place = "finalizer" -> [f EXCEPT !.phase = "unwind"]

\* Bug: only a regular return unlocks.
UnwindStillLocked(t) ==
    /\ ~terminated
    /\ Busy(t) /\ Top(t).phase = "unwind"
    /\ Top(t).from # "side_effect"
    /\ stack' = [stack EXCEPT ![t] =
          IF Top(t).from = "thread" THEN <<>>
          ELSE <<Unwound(@[2], Top(t).from)>> \o Tail(Tail(@))]
    /\ UNCHANGED <<vars, mutex, calls>>

Unwind(t) ==
    /\ ~terminated
    /\ Busy(t) /\ Top(t).phase = "unwind"
    /\ Top(t).from # "side_effect"
    /\ Unlock(Top(t).mock)
    /\ stack' = [stack EXCEPT ![t] =
          IF Top(t).from = "thread" THEN <<>>
          ELSE <<Unwound(@[2], Top(t).from)>> \o Tail(Tail(@))]
    /\ UNCHANGED <<vars, calls>>

UnwindSideEffect(t) ==
    /\ ~terminated
    /\ Busy(t) /\ Top(t).phase = "unwind"
    /\ Top(t).from = "side_effect"
    /\ terminated' = TRUE
    /\ UNCHANGED <<seqs, exps, last, asserted, threadVars>>

-----------------------------------------------------------------------------
\* The steps of a thread that has begun a call, and what it may begin.
CallStep(t) ==
    \/ Lock(t) \/ Evaluate(t)
    \/ \E place \in Places, m \in Mocks, a \in Args : CallBack(t, place, m, a)
    \/ ConsumeBest(t) \/ TerminateOnStaleReport(t) \/ Fail(t)
    \/ ReturnFromSideEffects(t) \/ ThrowFromSideEffect(t)
    \/ Finalize(t) \/ Return(t) \/ Unwind(t) \/ UnwindSideEffect(t)

BeginStep(t) ==
    \/ \E m \in Mocks, a \in Args : StartCall(t, m, a)
    \/ \E m \in Mocks, S \in Attachments, l \in Limits, v \in Verdicts :
          Push(t, m, S, l, v)
    \/ \E e \in DOMAIN exps : Erase(t, e)

NextThreads == \E t \in Threads : CallStep(t) \/ BeginStep(t)

SpecThreads == InitThreads /\ [][NextThreads]_allVars

\* The scheduler runs every thread; callbacks end.  Nothing has to begin.
FairSpec == SpecThreads /\ \A t \in Threads : WF_allVars(CallStep(t))

-----------------------------------------------------------------------------
\* The calls of a mock are atomic: with the handlers of Expectations as the
\* only steps, the same expectations are consumed and the same outcomes
\* reported.  An abort during callbacks, after the call took effect, is none
\* of these steps.
Atomic == INSTANCE Expectations WITH terminated <- FALSE

CallsAreAtomic == Atomic!Spec

\* A call stays atomic if callbacks make calls, even if these use expectations
\* of the same sequences, as long as it is not a matcher of its own that calls.
UndisturbedCallsAreAtomic ==
    [][(\A t \in Threads : Busy(t) => ~Top(t).reentered)
           => [Atomic!Next]_<<seqs, exps, last>>]_allVars

\* The raw pointers of a call never outlive the expectations: nobody erases an
\* expectation that a call has still to visit, to compare or to finalize.
UsesOnlyLiveExpectations ==
    \A t \in Threads : \A i \in DOMAIN stack[t] :
        LET f == stack[t][i]
        IN  \A e \in f.todo \cup f.matches \cup f.inapplicable \cup
                     ({f.chosen} \ {0}) :
               exps[e].live

\* What a call found applicable is applicable when it is chosen: no other
\* thread and no callback uses it up in between.
MatchesStayApplicable ==
    \A t \in Threads : \A i \in DOMAIN stack[t] :
        stack[t][i].phase = "evaluate" =>
            \A e \in stack[t][i].matches : IsApplicable(exps[e])

\* If calls are under way, one of them is not waiting for a lock.
Waiting(t) ==
    Busy(t) /\ Top(t).phase = "lock" /\ mutex[Top(t).mock] # Free

NoDeadlock ==
    (\E t \in Threads : Busy(t)) => \E t \in Threads : Busy(t) /\ ~Waiting(t)

\* Every call ends: it returns, throws, or the program is terminated.
CallsEnd == \A t \in Threads : Busy(t) ~> (~Busy(t) \/ terminated)

=============================================================================
