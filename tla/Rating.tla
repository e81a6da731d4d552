-------------------------------- MODULE Rating --------------------------------
(***************************************************************************)
(* How one of several matching expectations is chosen.  A rating maps each *)
(* sequence of an expectation to the priority the sequence gives it        *)
(* (std::span<sequence::rating const>, whose tags are pairwise distinct).  *)
(***************************************************************************)
EXTENDS Integers, FiniteSets, FiniteSetsExt

\* Bug: sequences that rhs lacks are passed over.
HasBetterRatingInShared(lhs, rhs) ==
    LET shared == DOMAIN lhs \cap DOMAIN rhs
        worse == {s \in shared : lhs[s] < rhs[s]}
    IN  Cardinality(worse) <= Cardinality(shared \ worse)

\* has_better_rating: the loop returns true at the first sequence of lhs that
\* rhs lacks; otherwise it counts +1 for every sequence in which lhs is at
\* least as good and -1 for the others.
HasBetterRating(lhs, rhs) ==
    \/ ~(DOMAIN lhs \subseteq DOMAIN rhs)
    \/ LET worse == {s \in DOMAIN lhs : lhs[s] < rhs[s]}
       IN  Cardinality(worse) <= Cardinality(DOMAIN lhs \ worse)

\* Bug: the matches are visited from the oldest to the newest.
FindBestMatchFromOldest(matches, rating) ==
    LET oldest == Min(matches)
        Better(e, best) ==
            IF HasBetterRating(rating[best], rating[e]) THEN best ELSE e
    IN  MapThenFoldSet(Better, oldest, LAMBDA e : e, Max, matches \ {oldest})

\* find_best_match: matches are identified by their creation number and
\* visited from the newest to the oldest, as evaluate_expectations collected
\* them.
FindBestMatch(matches, rating) ==
    LET newest == Max(matches)
        Better(e, best) ==
            IF HasBetterRating(rating[best], rating[e]) THEN best ELSE e
    IN  MapThenFoldSet(Better, newest, LAMBDA e : e, Min, matches \ {newest})

=============================================================================
