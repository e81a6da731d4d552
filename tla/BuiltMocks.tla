------------------------------ MODULE BuiltMocks ------------------------------
(***************************************************************************)
(* A mock with several overloads from its declaration to its reports: the  *)
(* overloads are normalized and share collections (Mock.hpp), expectations *)
(* are built from matchers, policies and clauses (ExpectationBuilder.hpp), *)
(* calls arrive directly or through a generated function (Facade.hpp), and *)
(* every outcome is reported (reporting/).                                 *)
(*                                                                         *)
(* One thread makes the calls.  Another one may install reporters; that    *)
(* and the life of reporters is all that is shared here.  Threads and      *)
(* callbacks that meet in a collection are in MockThreads, sequences in    *)
(* Expectations.                                                           *)
(***************************************************************************)
EXTENDS Reports, Facades, FiniteSets

CONSTANTS
    Programs,         \* what tests declare, expect and call: a sequence of sets,
                      \* one for each kind of values
    MaxCalls,         \* bound
    MaxExpectations,  \* bound
    Unlimited         \* stands for the largest int

IsSequence(s) == Len(s) \in Nat /\ s = [i \in 1 .. Len(s) |-> s[i]]

\* A program has the methods of one name, the style they are mocked in, the
\* object expressions, expectations and arguments it uses, whether successes
\* are reported, and the number of reporters it installs.
ASSUME ProgramsAssumption ==
    \A kind \in DOMAIN Programs : \A p \in Programs[kind] :
        /\ p.methods # <<>>
        /\ IsSequence(p.methods)
        /\ \A i \in DOMAIN p.methods : IsMethod(p.methods[i])
        /\ p.style \in Styles
        /\ p.reportSuccess \in BOOLEAN
        /\ p.reporters \in Nat
        /\ \A o \in p.objects : o.const \in BOOLEAN /\ o.category \in {"lvalue", "rvalue"}
        /\ \A stated \in p.expectations :
              /\ IsSequence(stated.args)
              /\ IsSequence(stated.clauses)
              /\ \A i \in DOMAIN stated.clauses : IsClause(stated.clauses[i])
        /\ \A passed \in p.calls : IsSequence(passed.args)

ASSUME BoundsAssumption == MaxCalls \in Nat /\ MaxExpectations \in Nat

VARIABLES
    program,      \* the program that runs
    mock,         \* what the compiler makes of its declaration
    collections,  \* decayed signature -> m_Expectations
    created,      \* number of expectations created
    calls,        \* number of calls made
    reporter,     \* the global reporter
    running       \* the handler that runs, or the outcome of the last one

vars == <<program, mock, collections, created, calls, reporter, running>>

-----------------------------------------------------------------------------
\* The mock.

\* What the generated function of method i calls.
Forwarded(p, overloads, i) ==
    Resolve(overloads, TargetObject(p.methods[i]), overloads[i].params)

\* The bases of the mock, and the calls in the generated functions, as far as they
\* compile: Mock requires an overload set, and a call needs one best overload.
Declared(p) ==
    LET overloads == TargetOverloads(p.methods, p.style)
        forwarded == IF p.style = "direct" THEN <<>>
                     ELSE [i \in DOMAIN overloads |-> Forwarded(p, overloads, i)]
    IN  [overloads |-> overloads, forwarded |-> forwarded,
         compiles |-> /\ IsOverloadSet(overloads)
                      /\ \A i \in DOMAIN forwarded : Cardinality(forwarded[i]) = 1]

NoUse == [to |-> 0, owned |-> FALSE]

NoReport == [is |-> "none"]

\* The locals of handle_call, and how it ended.  "given" is what was passed,
\* before any effect; "method" the method the user called, if not directly.
Idle ==
    [phase |-> "idle", method |-> 0, overload |-> <<>>, noexcept |-> FALSE,
     given |-> <<>>, info |-> <<>>, key |-> <<>>, todo |-> 0,
     matches |-> <<>>, inapplicable |-> <<>>, noMatches |-> <<>>,
     report |-> NoReport, use |-> NoUse, chosen |-> 0, value |-> Void]

IsRunning == running.phase \notin {"idle", "returned", "threw", "terminated"}

IsReady == mock.compiles /\ ~IsRunning /\ running.phase # "terminated"

Exp(at) == collections[running.key][at]

Init ==
    /\ \E kind \in DOMAIN Programs : program \in Programs[kind]
    /\ mock = Declared(program)
    /\ collections = [d \in {Decay(s) : s \in ToSet(mock.overloads)} |-> <<>>]
    /\ created = 0
    /\ calls = 0
    /\ reporter = InitReporter
    /\ running = Idle

-----------------------------------------------------------------------------
\* Expectations.

\* The user lets any object be "this".
ForThis(first, seq) == IF program.style = "with_this" THEN <<first>> \o seq ELSE seq

\* expect_call, the operators && of the builder, finalize and push
Expect(object, stated) ==
    LET overload == CHOOSE s \in Resolve(mock.overloads, object, ForThis("_", stated.types)) : TRUE
        args == ForThis(Wildcard, stated.args)
        builder == Built(overload, args, stated.clauses)
        expectation ==
            [id |-> created + 1, target |-> builder.target, policies |-> builder.policies,
             finalizer |-> builder.finalizer, min |-> builder.min, max |-> builder.max,
             count |-> 0, clauses |-> stated.clauses]
    IN  /\ IsReady
        /\ created < MaxExpectations
        /\ Resolve(mock.overloads, object, ForThis("_", stated.types)) # {}
        /\ CompilesFor(overload, args, stated.clauses)
        /\ collections' = [collections EXCEPT ![Decay(overload)] = Append(@, expectation)]
        /\ created' = created + 1
        /\ running' = Idle
        /\ UNCHANGED <<program, mock, calls, reporter>>

\* ~ScopedExpectation and remove
Destroy(key, at) ==
    LET e == collections[key][at]
    IN  /\ IsReady
        /\ collections' = [collections EXCEPT ![key] = RemoveAt(@, at)]
        /\ running' = IF IsSatisfied(e) THEN Idle
                      ELSE [Idle EXCEPT !.phase = "get",
                                        !.report = [is |-> "unfulfilled",
                                                    expectation |-> ExpectationReport(e)]]
        /\ UNCHANGED <<program, mock, created, calls, reporter>>

-----------------------------------------------------------------------------
\* Calls.

\* operator() and BasicMock::handle_call, up to the mutex
Begin(overload, method, args) ==
    LET given == ForThis("self", args)
        key == Decay(RemoveCallConvention(overload))
    IN  /\ calls < MaxCalls
        /\ calls' = calls + 1
        /\ running' =
              [Idle EXCEPT !.phase = "evaluate", !.method = method,
                           !.overload = overload, !.noexcept = overload.noexcept,
                           !.given = given, !.key = key,
                           !.info = CallInfo(given, RemoveCallConvention(overload),
                                             StacktraceSkip(program.style)),
                           !.todo = Len(collections[key])]
        /\ UNCHANGED <<program, mock, collections, created, reporter>>

\* The user calls the mock.
CallDirect(object, passed) ==
    /\ IsReady
    /\ program.style = "direct"
    /\ \E overload \in Resolve(mock.overloads, object, passed.types) :
          Begin(overload, 0, passed.args)

\* The user calls a generated function, and that the mock.
CallMethod(i, passed) ==
    /\ IsReady
    /\ program.style # "direct"
    /\ passed.types = program.methods[i].params
    /\ \E overload \in mock.forwarded[i] : Begin(overload, i, passed.args)

\* make_call_report
MakeCallReport(frames, skip) ==
    CallReport(RemoveCallConvention(running.overload), running.info,
               CurrentTrace(frames \o CallFrames(program.style),
                            skip + running.info.baseStacktraceSkip))

\* evaluate_expectations, for the next expectation, from the newest on
Evaluate ==
    LET at == running.todo
        e == Exp(at)
        outcomes == RequirementOutcomes(e, running.info)
        Next_ == [running EXCEPT !.todo = at - 1]
    IN  /\ running.phase = "evaluate"
        /\ at > 0
        /\ running' =
              IF \E i \in DOMAIN e.policies : PolicyThrows(e.policies[i])
              THEN [Next_ EXCEPT
                       !.phase = "get",
                       !.report = [is |-> "unhandled_exception",
                                   call |-> MakeCallReport(
                                               <<"determine_requirement_outcomes",
                                                 "evaluate_expectations", "handle_call">>, 3),
                                   expectation |-> ExpectationReport(e)]]
              ELSE IF \E i \in DOMAIN outcomes : ~outcomes[i]
              THEN [Next_ EXCEPT !.noMatches = Append(@, NoMatchReport(e, running.info))]
              ELSE IF ~IsApplicable(e) THEN [Next_ EXCEPT !.inapplicable = Append(@, at)]
              ELSE [Next_ EXCEPT !.matches = Append(@, at)]
        /\ UNCHANGED <<program, mock, collections, created, calls, reporter>>

\* The rest of handle_call up to the report.  Without sequences, find_best_match
\* finds the first, the newest.
Decide ==
    LET callReport == MakeCallReport(<<"handle_call">>, 1)
        best == Head(running.matches)
    IN  /\ running.phase = "evaluate"
        /\ running.todo = 0
        /\ running' =
              IF running.matches # <<>>
              THEN IF program.reportSuccess
                   THEN [running EXCEPT
                            !.phase = "get", !.chosen = best,
                            !.report = [is |-> "full_match", call |-> callReport,
                                        expectation |-> ExpectationReport(Exp(best))]]
                   ELSE [running EXCEPT !.phase = "consume", !.chosen = best]
              ELSE IF running.inapplicable # <<>>
              THEN [running EXCEPT
                       !.phase = "get",
                       !.report = [is |-> "inapplicable", call |-> callReport,
                                   expectations |->
                                       [k \in DOMAIN running.inapplicable |->
                                           ExpectationReport(Exp(running.inapplicable[k]))]]]
              ELSE [running EXCEPT
                       !.phase = "get",
                       !.report = [is |-> "no_matches", call |-> callReport,
                                   expectations |-> running.noMatches]]
        /\ UNCHANGED <<program, mock, collections, created, calls, reporter>>

\* Out of a noexcept overload, an exception terminates.
Escaped == IF running.noexcept THEN "terminated" ELSE "threw"

\* BasicExpectation::consume; the lambda that consumes is noexcept.
Consume ==
    LET e == Exp(running.chosen)
    IN  /\ running.phase = "consume"
        /\ collections' = [collections EXCEPT ![running.key][running.chosen].count = @ + 1]
        /\ running' =
              IF \E i \in DOMAIN e.policies : ConsumeThrows(e.policies[i])
              THEN [running EXCEPT !.phase = "terminated"]
              ELSE [running EXCEPT
                       !.phase = "finalize",
                       !.info.args = FoldLeft(ConsumePolicy, running.info.args, e.policies)]
        /\ UNCHANGED <<program, mock, created, calls, reporter>>

Finalize ==
    LET finalizer == Exp(running.chosen).finalizer
    IN  /\ running.phase = "finalize"
        /\ running' =
              IF finalizer.is = "throws" THEN [running EXCEPT !.phase = Escaped]
              ELSE [running EXCEPT !.phase = "returned",
                                   !.value = FinalizeCall(finalizer, running.info)]
        /\ UNCHANGED <<program, mock, collections, created, calls, reporter>>

-----------------------------------------------------------------------------
\* The global reporter.

GetTheReporter ==
    /\ running.phase = "get"
    /\ running' = [running EXCEPT !.phase = "deliver", !.use = GetReporter(reporter)]
    /\ UNCHANGED <<program, mock, collections, created, calls, reporter>>

\* The reports of failures throw.
Deliver ==
    /\ running.phase = "deliver"
    /\ reporter' = ReleaseReporter(reporter, running.use)
    /\ running' =
          [running EXCEPT
              !.use = NoUse,
              !.phase = CASE running.report.is = "unhandled_exception" -> "evaluate"
                          [] running.report.is = "full_match" -> "consume"
                          [] OTHER -> Escaped]
    /\ UNCHANGED <<program, mock, collections, created, calls>>

\* install_reporter, by any thread at any time
InstallReporter ==
    /\ running.phase # "terminated"
    /\ reporter.installed <= program.reporters
    /\ reporter' = SetReporter(reporter, reporter.installed + 1, running.use)
    /\ UNCHANGED <<program, mock, collections, created, calls, running>>

Next ==
    \/ \E object \in program.objects, stated \in program.expectations :
          Expect(object, stated)
    \/ \E key \in DOMAIN collections : \E at \in DOMAIN collections[key] : Destroy(key, at)
    \/ \E object \in program.objects, passed \in program.calls : CallDirect(object, passed)
    \/ \E i \in DOMAIN program.methods, passed \in program.calls : CallMethod(i, passed)
    \/ Evaluate
    \/ Decide
    \/ Consume
    \/ Finalize
    \/ GetTheReporter
    \/ Deliver
    \/ InstallReporter

Spec == Init /\ [][Next]_vars

-----------------------------------------------------------------------------
\* Properties.  What the texts of matchers say of a call is in ReportTexts.

Candidates == collections[running.key]

IsCall == running.phase # "idle" /\ running.overload # <<>>

IsReporting == running.phase \in {"get", "deliver"}

\* The type of the variables; counts stay within their limits, collected
\* expectations exist, and one reporter at a time is in use.
TypeOK ==
    /\ created \in 0 .. MaxExpectations
    /\ calls \in 0 .. MaxCalls
    /\ \A key \in DOMAIN collections : \A at \in DOMAIN collections[key] :
          LET e == collections[key][at]
          IN  /\ e.id \in 1 .. created
              /\ 0 <= e.min /\ e.min <= e.max
              /\ e.count \in 0 .. e.max
    /\ reporter.installed \in 1 .. program.reporters + 1
    /\ reporter.destroyed \subseteq 1 .. reporter.installed
    /\ running.phase \in {"idle", "evaluate", "get", "deliver", "consume", "finalize",
                          "returned", "threw", "terminated"}
    /\ running.phase = "deliver" <=> running.use # NoUse
    /\ IsRunning /\ IsCall =>
          \A at \in ToSet(running.matches) \cup ToSet(running.inapplicable) :
              at \in DOMAIN Candidates

\* Which methods a class may have [over.load]: those with equal parameters all
\* have a ref-qualifier or none has, and no two have the same qualifiers.
LegalClass ==
    \A params \in {program.methods[i].params : i \in DOMAIN program.methods} :
        LET Of == {i \in DOMAIN program.methods : program.methods[i].params = params}
            Has(i, token) == token \in ToSet(program.methods[i].specs)
            HasRef(i) == Has(i, "&") \/ Has(i, "&&")
        IN  /\ (\A i \in Of : HasRef(i)) \/ (\A i \in Of : ~HasRef(i))
            /\ \A i, j \in Of :
                  (\A token \in {"const", "&", "&&"} : Has(i, token) = Has(j, token)) => i = j

\* Every overload set a class may have can be mocked, and every overload of a
\* mock can be called: signatures that cannot be told apart are rejected when the
\* mock is declared (Mock, is_overload_set, and the generated functions).  The
\* declaration does not change afterwards.
OverloadsAreCallable ==
    created = 0 /\ calls = 0 =>
        /\ LegalClass => mock.compiles
        /\ mock.compiles =>
              \A i \in DOMAIN mock.overloads :
                  \E isConst \in BOOLEAN, category \in {"lvalue", "rvalue"} :
                      Resolve(mock.overloads, Object(isConst, category),
                              mock.overloads[i].params)
                          = {mock.overloads[i]}

\* A call of a generated function reaches the overload of that function with the
\* arguments of the user, "this" in front if it was asked for (Facade.hpp).
CallsReachTheirOverload ==
    running.method # 0 =>
        LET method == program.methods[running.method]
            this == IF "const" \in ToSet(method.specs) THEN "Self const*" ELSE "Self*"
            Has(token) == token \in ToSet(method.specs)
        IN  /\ running.overload.params = ForThis(this, method.params)
            /\ running.overload.const = Has("const")
            /\ (running.overload.ref = "lvalue") = Has("&")
            /\ (running.overload.ref = "rvalue") = Has("&&")
            /\ running.noexcept = Has("noexcept")
            /\ running.overload.conv = method.conv

\* The overloads that share a collection do not serve one another: the
\* expectation that is used was stated for the overload that is called
\* (Category and Constness, GeneralPolicies.hpp).
ExpectationsServeTheirOverload ==
    running.chosen # 0 /\ IsRunning =>
        Exp(running.chosen).target = RemoveCallConvention(running.overload)

\* What a call returns is what its finalizer makes of the arguments after the
\* side effects changed them, in the order in which they were stated among the
\* clauses; none of them acts before the call is accepted (consume, finalize_call,
\* operator &&).
EffectsInOrder ==
    /\ running.phase \notin {"idle", "finalize", "returned"} /\ IsCall =>
          running.phase \in {"threw", "terminated"} \/ running.info.args = running.given
    /\ running.phase = "returned" =>
          LET clauses == Exp(running.chosen).clauses
              after == FoldLeft(ConsumePolicy, running.given, clauses)
              Value(finalizer) == FinalizeCall(finalizer, [running.info EXCEPT !.args = after])
              finalizers == {i \in DOMAIN clauses : IsFinalizer(clauses[i])}
          IN  /\ finalizers = {} => running.value = Void
              /\ \A i \in finalizers : running.value = Value(clauses[i])

\* What StringifyReports.hpp and partition_by assert of a report, and take for
\* unreachable.
IsAsAsserted(report) ==
    CASE report.is = "full_match" -> report.expectation.control.is = "applicable"
      [] report.is = "inapplicable" ->
             /\ report.expectations # <<>>
             /\ \A k \in DOMAIN report.expectations :
                   report.expectations[k].control.is # "applicable"
      [] report.is = "no_matches" ->
             \A k \in DOMAIN report.expectations :
                 LET outcomes == report.expectations[k].outcomes
                     descriptions == report.expectations[k].expectation.descriptions
                 IN  /\ Len(descriptions) = Len(outcomes)
                     /\ PartitionBy(descriptions, outcomes).midpoint \in DOMAIN descriptions
      [] report.is = "unfulfilled" ->
             LET control == report.expectation.control
             IN  /\ control.is # "saturated"
                 /\ control.count < control.min
                 /\ StringifyUnfulfilled(report.expectation, Unlimited)[1].further
                        \in 1 .. control.min
      [] OTHER -> TRUE

\* Of each report that is made, what StringifyReports.hpp asserts is so: full
\* matches are applicable, what is inapplicable is saturated, each expectation
\* that does not match has a violation, and what is unfulfilled lacks a call.
ReportAssertionsHold == IsReporting => IsAsAsserted(running.report)

\* A reporter that is replaced while it is given a report lives until it returns,
\* and no longer (GlobalReporter.hpp).
ReportersOutliveTheirReports ==
    /\ running.use # NoUse => running.use.to \notin reporter.destroyed
    /\ reporter.installed \notin reporter.destroyed
    /\ ~IsRunning => reporter.destroyed = 1 .. reporter.installed - 1

\* The stack trace of a report begins at the code that made the call, whichever
\* functions of the library and of the facade are in between.
TracesBeginAtTheCaller == IsReporting /\ IsCall => running.report.call.from = "user"

=============================================================================
