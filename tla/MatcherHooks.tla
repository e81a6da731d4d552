----------------------------- MODULE MatcherHooks -----------------------------
(***************************************************************************)
(* The hooks through which policies use a matcher (matchers/Common.hpp):   *)
(* whether it accepts arguments, and how it describes itself.              *)
(***************************************************************************)
EXTENDS MatcherPredicates

\* A matcher may be an argument of a matcher.
RECURSIVE MatchesHook(_, _), DescribeHook(_)

\* The predicate is called with the arguments of the mock, then its own.
Invoke(predicate, a) ==
    CASE predicate \in {"equal_to", "equal", "is_instance"} -> a[1] = a[2]
      [] predicate = "not_equal_to" -> a[1] # a[2]
      [] predicate = "less" -> a[1] < a[2]
      [] predicate = "less_equal" -> a[1] <= a[2]
      [] predicate = "greater" -> a[1] > a[2]
      [] predicate = "greater_equal" -> a[1] >= a[2]
      [] predicate = "is_nan" -> a[1].class = "NaN"
      [] predicate = "approx_abs" ->
             FpAtMost(FpDistance(a[1], a[2].value), a[3].value)
      [] predicate = "approx_rel" ->
             LET distance == FpDistance(a[1], a[2].value)
                 larger == Max({Abs(a[1].value), Abs(a[2].value)})
             IN  FpAtMost([distance EXCEPT !.value = 100 * @], a[3].value * larger)
      [] predicate = "is_permutation" -> IsPermutationOf(a[1], a[2])
      [] predicate = "is_sorted" -> IsSortedRange(a[1])
      [] predicate = "is_empty" -> a[1] = <<>>
      [] predicate = "has_size" -> a[2] = Len(a[1])
      [] predicate = "all_of" -> \A i \in DOMAIN a[1] : MatchesHook(a[2], <<a[1][i]>>)
      [] predicate = "any_of" -> \E i \in DOMAIN a[1] : MatchesHook(a[2], <<a[1][i]>>)
      [] predicate = "equal_folded" -> Folded(a[1]) = Folded(a[2])
      [] predicate = "starts_with" -> StartsWith(a[1], a[2])
      [] predicate = "starts_with_folded" -> StartsWith(Folded(a[1]), Folded(a[2]))
      [] predicate = "ends_with" -> EndsWith(a[1], a[2])
      [] predicate = "ends_with_folded" -> EndsWith(Folded(a[1]), Folded(a[2]))
      [] predicate = "contains" -> ContainsPattern(a[1], a[2])
      [] predicate = "contains_folded" -> ContainsPattern(Folded(a[1]), Folded(a[2]))

\* matches_hook::matches
MatchesHook(m, args) ==
    m.is = "wildcard" \/ Invoke(m.predicate, args \o m.args) # m.negated

\* describe_hook::describe; a matcher argument is shown by its description.
DescribeHook(m) ==
    IF m.is = "wildcard" THEN NoDescription
    ELSE [fmt |-> m.fmt,
          args |-> IF m.predicate \in {"all_of", "any_of"} THEN <<DescribeHook(m.args[1])>>
                   ELSE m.args]

=============================================================================
