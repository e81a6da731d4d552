------------------------------ MODULE Algorithm ------------------------------
(***************************************************************************)
(* The algorithms of utilities/Algorithm.hpp.  Ranges are sequences,       *)
(* iterators are positions, and the end of s is Len(s) + 1.                *)
(***************************************************************************)
EXTENDS Integers, Sequences, SequencesExt

\* std::ranges::find in [first, last)
FindIn(s, Matches(_), first, last) ==
    Min({i \in first .. last - 1 : Matches(s[i])} \cup {last})

\* find_closing_token: for every opening token in front of it the closing
\* token is looked for once more.
FindClosingToken(str, opening, closing) ==
    LET end == Len(str) + 1
        Find(token, first, last) == FindIn(str, LAMBDA c : c = token, first, last)
        settle[o \in 1 .. end, c \in 1 .. end] ==
            IF o = c \/ c = end THEN c
            ELSE LET next == Find(closing, c + 1, end)
                 IN  settle[Find(opening, o + 1, next), next]
        first == Find(closing, 1, end)
    IN  settle[Find(opening, 1, first), first]

-----------------------------------------------------------------------------
\* partition_by: targets whose control does not pass are moved to the back,
\* and their controls with them.  The first of them is at "midpoint".

Swapped(s, i, j) == [s EXCEPT ![i] = s[j], ![j] = s[i]]

\* Bug: the controls stay in place.
PartitionTargets(p, iter) ==
    [p EXCEPT !.target = Swapped(@, iter, p.end - 1), !.end = @ - 1]

\* The two are swapped with the last ones that are not known to pass or fail.
PartitionSwap(p, iter) ==
    [p EXCEPT !.target = Swapped(@, iter, p.end - 1),
              !.control = Swapped(@, iter, p.end - 1), !.end = @ - 1]

PartitionBy(target, control) ==
    LET swaps[n \in 0 .. Len(control)] ==
            IF n = 0
            THEN [target |-> target, control |-> control, end |-> Len(control) + 1]
            ELSE LET p == swaps[n - 1]
                     iter == FindIn(p.control, LAMBDA passes : ~passes, 1, p.end)
                 IN  IF iter = p.end THEN p ELSE PartitionSwap(p, iter)
        result == swaps[Len(control)]
    IN  [target |-> result.target, midpoint |-> result.end]

=============================================================================
