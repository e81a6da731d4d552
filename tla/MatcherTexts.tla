----------------------------- MODULE MatcherTexts -----------------------------
(***************************************************************************)
(* What the descriptions of matchers mean to the reader of a report.  The  *)
(* definitions follow the texts, and neither the predicates of Matchers    *)
(* nor how they are inverted.                                              *)
(***************************************************************************)
EXTENDS Meanings

RECURSIVE Says(_, _)

\* Whether a description is true of the value x; that of a requirement on several
\* arguments is about all of them.
Says(d, x) ==
    LET e == d.args
        El(i) == Says(e[1], x[i])
    IN
    CASE d.fmt = "" -> TRUE
      [] d.fmt \in {"== {}", "is instance at {}", "elements are {}"} -> x = e[1]
      [] d.fmt \in {"!= {}", "is not instance at {}", "elements are not {}"} -> x # e[1]
      [] d.fmt = "< {}" -> x < e[1]
      [] d.fmt = "<= {}" -> x <= e[1]
      [] d.fmt = "> {}" -> x > e[1]
      [] d.fmt = ">= {}" -> x >= e[1]
      [] d.fmt = "are ascending" -> x[1] < x[2]
      [] d.fmt = "are not ascending" -> ~(x[1] < x[2])
      [] d.fmt = "is not a number (NaN)" -> x.class = "NaN"
      [] d.fmt = "is a number" -> x.class # "NaN"
      [] d.fmt = "is approximately {} +- {}" -> Near(x, e[1].value, e[2].value)
      [] d.fmt = "is not approximately {} +- {}" -> ~Near(x, e[1].value, e[2].value)
      [] d.fmt = "is approximately {} +- ({} * max(|lhs|, |rhs|))" ->
             NearRelative(x, e[1].value, e[2].value)
      [] d.fmt = "is not approximately {} +- ({} * max(|lhs|, |rhs|))" ->
             ~NearRelative(x, e[1].value, e[2].value)
      [] d.fmt = "is a permutation of {}" -> Rearranges(x, e[1])
      [] d.fmt = "is not a permutation of {}" -> ~Rearranges(x, e[1])
      [] d.fmt = "is a sorted range" -> Ascending(x)
      [] d.fmt = "is an unsorted range" -> ~Ascending(x)
      [] d.fmt = "is an empty range" -> x = <<>>
      [] d.fmt = "is not an empty range" -> x # <<>>
      [] d.fmt = "has size of {}" -> Len(x) = e[1]
      [] d.fmt = "has different size than {}" -> Len(x) # e[1]
      [] d.fmt = "each el in range: el {}" -> \A i \in DOMAIN x : El(i)
      [] d.fmt = "not each el in range: el {}" -> \E i \in DOMAIN x : ~El(i)
      [] d.fmt = "any el in range: el {}" -> \E i \in DOMAIN x : El(i)
      [] d.fmt = "none el in range: el {}" -> \A i \in DOMAIN x : ~El(i)
      [] d.fmt = "is equal to {}" -> Equals(x, e[1], Same)
      [] d.fmt = "is not equal to {}" -> ~Equals(x, e[1], Same)
      [] d.fmt = "is case-insensitively equal to {}" -> Equals(x, e[1], SameLetter)
      [] d.fmt = "is case-insensitively not equal to {}" -> ~Equals(x, e[1], SameLetter)
      [] d.fmt = "starts with {}" -> Starts(x, e[1], Same)
      [] d.fmt = "starts not with {}" -> ~Starts(x, e[1], Same)
      [] d.fmt = "case-insensitively starts with {}" -> Starts(x, e[1], SameLetter)
      [] d.fmt = "case-insensitively starts not with {}" -> ~Starts(x, e[1], SameLetter)
      [] d.fmt = "ends with {}" -> Ends(x, e[1], Same)
      [] d.fmt = "ends not with {}" -> ~Ends(x, e[1], Same)
      [] d.fmt = "case-insensitively ends with {}" -> Ends(x, e[1], SameLetter)
      [] d.fmt = "case-insensitively ends not with {}" -> ~Ends(x, e[1], SameLetter)
      [] d.fmt = "contains {}" -> Contains_(x, e[1], Same)
      [] d.fmt = "contains not {}" -> ~Contains_(x, e[1], Same)
      [] d.fmt = "case-insensitively contains {}" -> Contains_(x, e[1], SameLetter)
      [] d.fmt = "case-insensitively contains not {}" -> ~Contains_(x, e[1], SameLetter)

=============================================================================
