------------------------------- MODULE Policies -------------------------------
(***************************************************************************)
(* The policies an expectation is built from (policies/) and the builder   *)
(* that strings them together (ExpectationBuilder.hpp).                    *)
(*                                                                         *)
(* A call (call::Info) carries the values of its arguments, the qualifiers *)
(* of the overload it was made through, and the number of stack frames     *)
(* between the user and handle_call.  Requirements and effects see the     *)
(* arguments by reference.                                                 *)
(***************************************************************************)
EXTENDS Signatures, Matchers, SequencesExt

\* What a matcher accepts and how it describes itself is up to its type
\* (custom::matcher_traits); those of the library are in MatcherHooks.
CONSTANTS
    Matches(_, _),  \* matches_hook: the matcher and the arguments
    Describe(_)     \* describe_hook

CallInfo(args, overload, skip) ==
    [args |-> args, fromCategory |-> overload.ref,
     fromConst |-> overload.const, baseStacktraceSkip |-> skip]

-----------------------------------------------------------------------------
\* How policies select arguments; indices count from 0.

Args(indices) == [all |-> FALSE, indices |-> indices]

AllArgs == [all |-> TRUE, indices |-> <<>>]

\* The positions of the selected arguments.
Positions(selection, n) ==
    IF selection.all THEN [k \in 1 .. n |-> k]
    ELSE [k \in DOMAIN selection.indices |-> selection.indices[k] + 1]

\* args_selector_fn, all_args_selector_fn
Select(selection, args) ==
    [k \in DOMAIN Positions(selection, Len(args)) |->
        args[Positions(selection, Len(args))[k]]]

Project(projection, value) ==
    CASE projection = "identity" -> value
      [] projection = "negate" -> -value

\* expand_tuple: arguments without a projection stay as they are.
ExpandProjections(projections, n) ==
    [k \in 1 .. n |-> IF k \in DOMAIN projections THEN projections[k] ELSE "identity"]

\* arg_list_indirect_apply_fn
IndirectApply(projections, args) ==
    [k \in DOMAIN args |-> Project(projections[k], args[k])]

-----------------------------------------------------------------------------
\* Requirements.

ArgsRequirement(selection, projections, matcher) ==
    [is |-> "requirement", selection |-> selection,
     projections |-> projections, matcher |-> matcher]

ExpectArg(index, matcher, projection) ==
    ArgsRequirement(Args(<<index>>), <<projection>>, matcher)

ExpectArgs(indices, matcher, projections) ==
    ArgsRequirement(Args(indices), ExpandProjections(projections, Len(indices)), matcher)

ExpectAllArgs(matcher) == ArgsRequirement(AllArgs, <<>>, matcher)

Category(expected) == [is |-> "category", expected |-> expected]

Constness(expected) == [is |-> "constness", expected |-> expected]

\* The enumerators are bit sets.
Bits(category) == IF category = "any" THEN {"lvalue", "rvalue"} ELSE {category}

\* Bug: the call is asked only whether it comes from any category.
AreOfSomeCategory(lhs, rhs) == Bits(lhs) # {} /\ Bits(rhs) # {}

IsMatching(lhs, rhs) == Bits(lhs) \cap Bits(rhs) # {}

\* Bug: the projections are left out.
ArgsUnprojected(policy, info) == Select(policy.selection, info.args)

ArgsOfRequirement(policy, info) ==
    LET args == Select(policy.selection, info.args)
    IN  IF policy.selection.all THEN args ELSE IndirectApply(policy.projections, args)

PolicyThrows(policy) == policy.is = "requirement" /\ MatcherThrows(policy.matcher)

PolicyMatches(policy, info) ==
    CASE policy.is = "requirement" ->
             Matches(policy.matcher, ArgsOfRequirement(policy, info))
      [] policy.is = "category" -> IsMatching(info.fromCategory, policy.expected)
      [] policy.is = "constness" -> info.fromConst = policy.expected
      [] policy.is = "effect" -> TRUE

\* A description names the arguments, but not their projections.
Description(selection, says) == [about |-> selection, says |-> says]

FromOverload(qualifier, kind) ==
    [fmt |-> "from " \o qualifier \o " " \o kind \o " overload", args |-> <<>>]

DescribePolicy(policy) ==
    CASE policy.is = "requirement" ->
             Description(policy.selection, Describe(policy.matcher))
      [] policy.is = "category" /\ policy.expected # "any" ->
             Description(Args(<<>>), FromOverload(policy.expected, "category"))
      [] policy.is = "constness" ->
             Description(Args(<<>>), FromOverload(IF policy.expected THEN "const"
                                                  ELSE "mutable", "qualified"))
      [] OTHER -> Description(Args(<<>>), NoDescription)

-----------------------------------------------------------------------------
\* Side effects (then::) change the arguments they are given.

SideEffect(selection, action) ==
    [is |-> "effect", selection |-> selection, action |-> action]

ApplyArg(index, action) == SideEffect(Args(<<index>>), action)

ApplyArgs(indices, action) == SideEffect(Args(indices), action)

ApplyAll(action) == SideEffect(AllArgs, action)

InvokeAction(action) == SideEffect(Args(<<>>), action)

\* The test's actions, on references to the selected arguments.
ActOn(action, values) ==
    CASE action = "increment" -> [k \in DOMAIN values |-> values[k] + 1]
      [] action = "reverse" -> Reverse(values)
      [] action = "nothing" -> values

ConsumeThrows(policy) == policy.is = "effect" /\ policy.action = "throw"

\* The arguments after the policy consumed the call.
ConsumePolicy(args, policy) ==
    IF policy.is # "effect" THEN args
    ELSE LET at == Positions(policy.selection, Len(args))
             acted == ActOn(policy.action, Select(policy.selection, args))
         IN  [i \in DOMAIN args |->
                 IF \E k \in DOMAIN at : at[k] = i
                 THEN acted[CHOOSE k \in DOMAIN at : at[k] = i] ELSE args[i]]

-----------------------------------------------------------------------------
\* Finalizers (finally::).

InitFinalize == [is |-> "init"]

Returns(value) == [is |-> "value", value |-> value]

ReturnsArg(index) ==
    [is |-> "result_of", selection |-> Args(<<index>>), action |-> "identity"]

ReturnsApplyResultOf(indices, action) ==
    [is |-> "result_of", selection |-> Args(indices), action |-> action]

ReturnsApplyAllResultOf(action) ==
    [is |-> "result_of", selection |-> AllArgs, action |-> action]

Throws == [is |-> "throws"]

Void == "void"

\* finalize_call, unless it throws
FinalizeCall(finalizer, info) ==
    CASE finalizer.is = "init" -> Void
      [] finalizer.is = "value" -> finalizer.value
      [] finalizer.is = "result_of" ->
             LET args == Select(finalizer.selection, info.args)
             IN  IF finalizer.action = "identity" THEN args[1]
                 ELSE FoldLeft(LAMBDA x, y : x + y, 0, args)

-----------------------------------------------------------------------------
\* The builder.

Times(min, max) == [is |-> "times", min |-> min, max |-> max]

\* make_arg_matcher: a matcher as it is, a string or a value to be equal to
MakeArgMatcher(arg) ==
    CASE arg.is = "string" -> StrEq(arg.value)
      [] arg.is = "value" -> Eq(arg.value)
      [] OTHER -> arg

\* The policies of the arguments come first, then those of the overload.
MakeExpectationBuilder(overload, args) ==
    LET ArgPolicy(i) == ExpectArg(i - 1, MakeArgMatcher(args[i]), "identity")
    IN  [target |-> RemoveCallConvention(overload),
         policies |-> [i \in DOMAIN args |-> ArgPolicy(i)]
                          \o <<Category(overload.ref), Constness(overload.const)>>,
         timesConfigured |-> FALSE, min |-> 1, max |-> 1,
         finalizer |-> InitFinalize]

IsFinalizer(clause) == clause.is \in {"value", "result_of", "throws"}

\* What the operators && take: limits that TimesConfig accepts, requirements with a
\* projection for every argument they select, side effects and finalizers.
IsClause(clause) ==
    \/ /\ clause.is = "times"
       /\ clause.min \in Nat /\ clause.max \in Nat /\ clause.min <= clause.max
    \/ /\ clause.is = "requirement"
       /\ \A k \in DOMAIN clause.selection.indices :
             clause.projections[k] \in {"identity", "negate"}
    \/ clause.is = "effect"
    \/ IsFinalizer(clause)

\* The static_asserts of the operators &&.
AcceptsClause(builder, clause) ==
    /\ clause.is = "times" => ~builder.timesConfigured
    /\ IsFinalizer(clause) => builder.finalizer = InitFinalize

\* Bug: policies are added in front.
AddClauseInFront(builder, clause) ==
    IF clause.is = "times"
    THEN [builder EXCEPT !.timesConfigured = TRUE, !.min = clause.min, !.max = clause.max]
    ELSE IF IsFinalizer(clause) THEN [builder EXCEPT !.finalizer = clause]
    ELSE [builder EXCEPT !.policies = <<clause>> \o @]

AddClause(builder, clause) ==
    IF clause.is = "times"
    THEN [builder EXCEPT !.timesConfigured = TRUE, !.min = clause.min, !.max = clause.max]
    ELSE IF IsFinalizer(clause) THEN [builder EXCEPT !.finalizer = clause]
    ELSE [builder EXCEPT !.policies = Append(@, clause)]

Built(overload, args, clauses) ==
    FoldLeft(AddClause, MakeExpectationBuilder(overload, args), clauses)

\* Whether the whole expression compiles.
CompilesFor(overload, args, clauses) ==
    /\ \A n \in DOMAIN clauses :
          AcceptsClause(Built(overload, args, SubSeq(clauses, 1, n - 1)), clauses[n])
    /\ Built(overload, args, clauses).finalizer = InitFinalize => overload.ret = Void

=============================================================================
