------------------------------ MODULE ReportTexts ------------------------------
(***************************************************************************)
(* What the reports of BuiltMocks say of a call, compared with what is so  *)
(* by the meaning of the descriptions, and of the texts around them.       *)
(***************************************************************************)
EXTENDS BuiltMocks, Meanings

CONSTANT IsTrueOf(_, _)     \* whether a description is true of a value

\* The arguments a requirement is about, as it sees them.
Seen(policy, args) ==
    IF policy.selection.all THEN args
    ELSE [k \in DOMAIN policy.selection.indices |->
             LET x == args[policy.selection.indices[k] + 1]
             IN  IF policy.projections[k] = "negate" THEN -x ELSE x]

\* A description is about the one argument, or about all of them.
TrueOf(matcher, seen) ==
    IsTrueOf(Describe(matcher), IF Len(seen) = 1 THEN seen[1] ELSE seen)

\* Whether a requirement holds of a call, by its description.
Holds(policy) ==
    CASE policy.is = "requirement" ->
             ~PolicyThrows(policy) /\ TrueOf(policy.matcher, Seen(policy, running.given))
      [] policy.is = "category" -> policy.expected = running.overload.ref
      [] policy.is = "constness" -> policy.expected = running.overload.const
      [] OTHER -> TRUE

Accepts(e) == \A i \in DOMAIN e.policies : Holds(e.policies[i])

AcceptsAt(at) == Accepts(Candidates[at])

Saturated(at) == Candidates[at].count = Candidates[at].max

-----------------------------------------------------------------------------
\* A matcher accepts exactly those arguments of which its description is true, also
\* if it is inverted or made of other matchers (matches_hook, describe_hook).
MatchersTellTheTruth ==
    IsCall /\ running.phase \in {"evaluate", "get", "deliver", "consume"} =>
        \A at \in DOMAIN Candidates : \A i \in DOMAIN Candidates[at].policies :
            LET policy == Candidates[at].policies[i]
                seen == ArgsOfRequirement(policy, running.info)
            IN  policy.is = "requirement" /\ ~PolicyThrows(policy) =>
                    (Matches(policy.matcher, seen) <=> TrueOf(policy.matcher, seen))

\* A call uses the newest expectation that is not saturated and all of whose
\* requirements, as they are described, hold of the arguments that were passed; a
\* call fails as inapplicable if only saturated expectations accept it, and as
\* unmatched if none does (handle_call, the matchers and the policies).
UsedExpectationAcceptsCall ==
    /\ running.phase = "consume" =>
          /\ AcceptsAt(running.chosen)
          /\ ~Saturated(running.chosen)
          /\ \A at \in DOMAIN Candidates :
                at > running.chosen => ~AcceptsAt(at) \/ Saturated(at)
    /\ IsReporting /\ running.report.is = "inapplicable" =>
          /\ \E at \in DOMAIN Candidates : AcceptsAt(at)
          /\ \A at \in DOMAIN Candidates : AcceptsAt(at) => Saturated(at)
    /\ IsReporting /\ running.report.is = "no_matches" =>
          ~\E at \in DOMAIN Candidates : AcceptsAt(at)

ExpectationOf(report) == CHOOSE e \in ToSet(Candidates) : e.id = report.id

\* The descriptions of those policies of e that do hold, or do not.
Told(e, holding) ==
    LET at == {i \in DOMAIN e.policies : Holds(e.policies[i]) <=> holding}
        policies == Picked(e.policies, at)
    IN  [i \in DOMAIN policies |-> DescribePolicy(policies[i])]

TellsAllAdherences(paragraph, e) ==
    LET adherent == Told(e, TRUE)
    IN  Rearranges(paragraph.adherences, Picked(adherent, Described(adherent)))

\* A report says of every requirement what is so: for an expectation that does
\* not match, the violated requirements under the violations, with the number of
\* those that have no text, and the others under the adherences; the arguments
\* are those that were passed, and no applicable expectation is left out
\* (StringifyReports.hpp).
ReportsTellTheTruth ==
    /\ IsReporting /\ IsCall => running.report.call.args = running.given
    /\ IsReporting /\ running.report.is = "full_match" =>
          \A paragraph \in ToSet(StringifyFullMatch(running.report.expectation)) :
              TellsAllAdherences(paragraph, ExpectationOf(paragraph))
    /\ IsReporting /\ running.report.is = "inapplicable" =>
          \A paragraph \in ToSet(StringifyInapplicableMatches(running.report.expectations)) :
              /\ TellsAllAdherences(paragraph, ExpectationOf(paragraph))
              /\ paragraph.matched = ExpectationOf(paragraph).count
              /\ paragraph.matched >= paragraph.outOf
    /\ IsReporting /\ running.report.is = "no_matches" =>
          LET paragraphs == StringifyNoMatches(running.report.expectations)
          IN  /\ \A paragraph \in ToSet(paragraphs) :
                    LET e == ExpectationOf(paragraph)
                        violated == Told(e, FALSE)
                        described == Picked(violated, Described(violated))
                    IN  /\ TellsAllAdherences(paragraph, e)
                        /\ Rearranges(paragraph.violations.described, described)
                        /\ paragraph.violations.undescribed = Len(violated) - Len(described)
              /\ \A at \in DOMAIN Candidates :
                    \/ Saturated(at)
                    \/ \E i \in DOMAIN Candidates[at].policies :
                          PolicyThrows(Candidates[at].policies[i])
                    \/ \E paragraph \in ToSet(paragraphs) : paragraph.id = Candidates[at].id

=============================================================================
