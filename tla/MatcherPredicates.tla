--------------------------- MODULE MatcherPredicates ---------------------------
(***************************************************************************)
(* The algorithms that the predicates of matchers are made of: those of    *)
(* the standard library as the matchers call them, and what the matchers   *)
(* add.                                                                    *)
(***************************************************************************)
EXTENDS Matchers, SequencesExt

Abs(n) == IF n < 0 THEN -n ELSE n

\* The special values win: a comparison with them is false.
FpDistance(target, n) ==
    IF target.class = "finite" THEN Fp(Abs(target.value - n)) ELSE target

FpAtMost(x, n) == x.class = "finite" /\ x.value <= n

\* string_case_fold_converter<char>
Folded(str) ==
    LET upper == [a |-> "A", b |-> "B"]
    IN  [i \in DOMAIN str |-> IF str[i] \in DOMAIN upper THEN upper[str[i]] ELSE str[i]]

\* std::ranges::mismatch: where it stops in the pattern.
Mismatch(target, pattern) ==
    Min({i \in DOMAIN pattern : i > Len(target) \/ target[i] # pattern[i]}
            \cup {Len(pattern) + 1})

StartsWith(target, pattern) == Mismatch(target, pattern) = Len(pattern) + 1

EndsWith(target, pattern) == StartsWith(Reverse(target), Reverse(pattern))

\* std::ranges::search: the position of the first match, or the end.
Search(target, pattern) ==
    Min({i \in DOMAIN target : StartsWith(SubSeq(target, i, Len(target)), pattern)}
            \cup {Len(target) + 1})

ContainsPattern(target, pattern) ==
    pattern = <<>> \/ Search(target, pattern) <= Len(target)

IsPermutationOf(target, range) ==
    /\ Len(target) = Len(range)
    /\ \A x \in ToSet(target) :
          Cardinality({i \in DOMAIN target : target[i] = x})
              = Cardinality({i \in DOMAIN range : range[i] = x})

IsSortedRange(target) == \A i \in 1 .. Len(target) - 1 : ~(target[i + 1] < target[i])

=============================================================================
