------------------------------- MODULE Meanings -------------------------------
(***************************************************************************)
(* What the words of reports mean to their reader: that one string starts  *)
(* with another, that a range is sorted, that two lists differ in their    *)
(* order only.  None of it follows the algorithms of the code.             *)
(***************************************************************************)
EXTENDS Integers, Sequences

SameLetter(c, d) == c = d \/ \E pair \in {{"a", "A"}, {"b", "B"}} : {c, d} = pair

Same(c, d) == c = d

\* pattern stands in str after the first n elements
StandsAfter(str, pattern, n, Agree(_, _)) ==
    \A i \in DOMAIN pattern :
        n + i \in DOMAIN str /\ Agree(str[n + i], pattern[i])

Equals(str, pattern, Agree(_, _)) ==
    Len(str) = Len(pattern) /\ StandsAfter(str, pattern, 0, Agree)

Starts(str, pattern, Agree(_, _)) == StandsAfter(str, pattern, 0, Agree)

Ends(str, pattern, Agree(_, _)) ==
    /\ Len(pattern) <= Len(str)
    /\ StandsAfter(str, pattern, Len(str) - Len(pattern), Agree)

Contains_(str, pattern, Agree(_, _)) ==
    \E n \in 0 .. Len(str) : StandsAfter(str, pattern, n, Agree)

Rearranges(a, b) ==
    /\ Len(a) = Len(b)
    /\ \E to \in [DOMAIN a -> DOMAIN b] :
          /\ \A i, j \in DOMAIN a : to[i] = to[j] => i = j
          /\ \A i \in DOMAIN a : a[i] = b[to[i]]

Ascending(a) == \A i, j \in DOMAIN a : i < j => a[i] <= a[j]

Near(x, value, epsilon) ==
    x.class = "finite" /\ x.value \in value - epsilon .. value + epsilon

\* epsilon percent of the larger of the two
NearRelative(x, value, epsilon) ==
    /\ x.class = "finite"
    /\ \E larger \in {x.value, -x.value, value, -value} :
          100 * x.value \in 100 * value - epsilon * larger .. 100 * value + epsilon * larger

=============================================================================
