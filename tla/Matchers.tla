------------------------------- MODULE Matchers -------------------------------
(***************************************************************************)
(* The matchers: what requirements on arguments are made of (matchers/).   *)
(* Numbers are integers, ranges and strings are sequences, objects are     *)
(* told apart by name, and a floating-point value is an integer or one of  *)
(* the special values.  What the predicates do is in MatcherHooks.         *)
(***************************************************************************)
EXTENDS Integers, Sequences

Fp(n) == [class |-> "finite", value |-> n]

Infinity == [class |-> "infinity", value |-> 0]

NotANumber == [class |-> "NaN", value |-> 0]

-----------------------------------------------------------------------------
PredicateMatcher(predicate, fmt, invertedFmt, args) ==
    [is |-> "predicate", predicate |-> predicate, negated |-> FALSE,
     fmt |-> fmt, invertedFmt |-> invertedFmt, args |-> args]

\* matches::_ and matches::type, which only takes part in overload resolution
Wildcard == [is |-> "wildcard"]

\* Bug: the texts are not exchanged.
InvertPredicateOnly(m) == [m EXCEPT !.negated = ~@]

\* operator !
Inverted(m) ==
    [m EXCEPT !.negated = ~@, !.fmt = m.invertedFmt, !.invertedFmt = m.fmt]

Eq(value) == PredicateMatcher("equal_to", "== {}", "!= {}", <<value>>)
Ne(value) == PredicateMatcher("not_equal_to", "!= {}", "== {}", <<value>>)
Lt(value) == PredicateMatcher("less", "< {}", ">= {}", <<value>>)
Le(value) == PredicateMatcher("less_equal", "<= {}", "> {}", <<value>>)
Gt(value) == PredicateMatcher("greater", "> {}", "<= {}", <<value>>)
Ge(value) == PredicateMatcher("greater_equal", ">= {}", "< {}", <<value>>)

\* The test's own predicate, with the texts it gives.
Predicate(predicate, description, invertedDescription) ==
    PredicateMatcher(predicate, description, invertedDescription, <<>>)

Instance(object) ==
    PredicateMatcher("is_instance", "is instance at {}", "is not instance at {}",
                     <<object>>)

IsNaN == PredicateMatcher("is_nan", "is not a number (NaN)", "is a number", <<>>)

\* check_fp_value and check_fp_epsilon throw otherwise.
ApproxIsConstructible(value, epsilon) ==
    value.class = "finite" /\ epsilon.class = "finite" /\ epsilon.value > 0

ApproxAbs(value, epsilon) ==
    PredicateMatcher("approx_abs", "is approximately {} +- {}",
                     "is not approximately {} +- {}", <<value, epsilon>>)

\* The factor is given in percent.
ApproxRel(value, relEpsilon) ==
    PredicateMatcher("approx_rel", "is approximately {} +- ({} * max(|lhs|, |rhs|))",
                     "is not approximately {} +- ({} * max(|lhs|, |rhs|))",
                     <<value, relEpsilon>>)

RangeEq(expected) ==
    PredicateMatcher("equal", "elements are {}", "elements are not {}", <<expected>>)

RangeUnorderedEq(expected) ==
    PredicateMatcher("is_permutation", "is a permutation of {}",
                     "is not a permutation of {}", <<expected>>)

RangeIsSorted ==
    PredicateMatcher("is_sorted", "is a sorted range", "is an unsorted range", <<>>)

RangeIsEmpty ==
    PredicateMatcher("is_empty", "is an empty range", "is not an empty range", <<>>)

RangeHasSize(n) ==
    PredicateMatcher("has_size", "has size of {}", "has different size than {}", <<n>>)

EachElement(m) ==
    PredicateMatcher("all_of", "each el in range: el {}",
                     "not each el in range: el {}", <<m>>)

AnyElement(m) ==
    PredicateMatcher("any_of", "any el in range: el {}", "none el in range: el {}", <<m>>)

StrEq(pattern) ==
    PredicateMatcher("equal", "is equal to {}", "is not equal to {}", <<pattern>>)

StrEqFolded(pattern) ==
    PredicateMatcher("equal_folded", "is case-insensitively equal to {}",
                     "is case-insensitively not equal to {}", <<pattern>>)

StrStartsWith(pattern) ==
    PredicateMatcher("starts_with", "starts with {}", "starts not with {}", <<pattern>>)

StrStartsWithFolded(pattern) ==
    PredicateMatcher("starts_with_folded", "case-insensitively starts with {}",
                     "case-insensitively starts not with {}", <<pattern>>)

StrEndsWith(pattern) ==
    PredicateMatcher("ends_with", "ends with {}", "ends not with {}", <<pattern>>)

StrEndsWithFolded(pattern) ==
    PredicateMatcher("ends_with_folded", "case-insensitively ends with {}",
                     "case-insensitively ends not with {}", <<pattern>>)

StrContains(pattern) ==
    PredicateMatcher("contains", "contains {}", "contains not {}", <<pattern>>)

StrContainsFolded(pattern) ==
    PredicateMatcher("contains_folded", "case-insensitively contains {}",
                     "case-insensitively contains not {}", <<pattern>>)

\* A predicate of the test that throws.
MatcherThrows(m) == m.is = "predicate" /\ m.predicate = "throw"

NoDescription == [fmt |-> "", args |-> <<>>]

=============================================================================
