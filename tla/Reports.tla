------------------------------- MODULE Reports -------------------------------
(***************************************************************************)
(* What is reported, and to whom: the reports of a call and of its         *)
(* expectations (reporting/), what the texts say of them                   *)
(* (StringifyReports.hpp), the stack trace, and the global reporter.       *)
(***************************************************************************)
EXTENDS Policies, Algorithm, FiniteSets

\* The traces.  A stack is the sequence of its frames, the innermost first.
\* current_fn is a frame itself.
CalcSkip(skip) == skip + 1

CurrentTrace(stack, skip) ==
    LET frames == <<"stacktrace::current">> \o stack
    IN  SubSeq(frames, CalcSkip(skip) + 1, Len(frames))

-----------------------------------------------------------------------------
\* An expectation has its id, target, policies and finalizer, its limits and
\* the number of calls it has consumed.

\* Bug: the last call that is needed is not enough.
IsSatisfiedBeyond(e) == e.count > e.min

IsSatisfied(e) == e.count >= e.min

\* Bug: off by one.
ControlStateLate(e) ==
    [is |-> IF e.count > e.max THEN "saturated" ELSE "applicable",
     min |-> e.min, max |-> e.max, count |-> e.count]

\* The expectations here are in no sequence, so the third state of a control
\* policy, state_inapplicable, does not occur.
ControlState(e) ==
    [is |-> IF e.count = e.max THEN "saturated" ELSE "applicable",
     min |-> e.min, max |-> e.max, count |-> e.count]

IsApplicable(e) == ControlState(e).is = "applicable"

\* Expectation::report
ExpectationReport(e) ==
    [id |-> e.id, target |-> e.target, control |-> ControlState(e),
     descriptions |-> [i \in DOMAIN e.policies |-> DescribePolicy(e.policies[i])]]

RequirementOutcomes(e, info) ==
    [i \in DOMAIN e.policies |-> PolicyMatches(e.policies[i], info)]

NoMatchReport(e, info) ==
    [expectation |-> ExpectationReport(e), outcomes |-> RequirementOutcomes(e, info)]

CallReport(target, info, trace) ==
    [target |-> target, args |-> info.args, from |-> Head(trace)]

-----------------------------------------------------------------------------
\* What the texts say.

IsDescribed(description) == description.says # NoDescription

Described(descriptions) == {i \in DOMAIN descriptions : IsDescribed(descriptions[i])}

\* A loop over s that is about the elements at some positions.
Picked(s, at) ==
    LET Position(k) == CHOOSE i \in at : Cardinality({j \in at : j <= i}) = k
    IN  [k \in 1 .. Cardinality(at) |-> s[Position(k)]]

\* Only violations count the requirements that have no description.
Violations(descriptions) ==
    [described |-> Picked(descriptions, Described(descriptions)),
     undescribed |-> Cardinality(DOMAIN descriptions \ Described(descriptions))]

Adherences(descriptions) == Picked(descriptions, Described(descriptions))

\* One paragraph for each applicable expectation; the others are left out.
StringifyNoMatches(noMatchReports) ==
    LET Applicable(r) == r.expectation.control.is = "applicable"
        at == {i \in DOMAIN noMatchReports : Applicable(noMatchReports[i])}
        Paragraph(r) ==
            LET parts == PartitionBy(r.expectation.descriptions, r.outcomes)
                n == Len(parts.target)
            IN  [id |-> r.expectation.id,
                 violations |-> Violations(SubSeq(parts.target, parts.midpoint, n)),
                 adherences |-> Adherences(SubSeq(parts.target, 1, parts.midpoint - 1))]
        applicable == Picked(noMatchReports, at)
    IN  [i \in DOMAIN applicable |-> Paragraph(applicable[i])]

\* The reason is the saturation, and all requirements are adherences.
StringifyInapplicableMatches(reports) ==
    [i \in DOMAIN reports |->
        [id |-> reports[i].id, matched |-> reports[i].control.count,
         outOf |-> reports[i].control.max,
         adherences |-> Adherences(reports[i].descriptions)]]

StringifyFullMatch(report) ==
    <<[id |-> report.id, adherences |-> Adherences(report.descriptions)]>>

\* "exactly", "at least" or "between ... and", and how many are missing
StringifyUnfulfilled(report, unlimited) ==
    LET control == report.control
    IN  <<[id |-> report.id,
           expected |-> IF control.min = control.max THEN "exactly"
                        ELSE IF control.max = unlimited THEN "at least" ELSE "between",
           further |-> control.min - control.count]>>

-----------------------------------------------------------------------------
\* The global reporter.  Installing a reporter releases the one before, which
\* lives on as long as a report owns it.

InitReporter == [installed |-> 1, destroyed |-> {}]

\* Bug: only the reporter's address is taken.
GetReporterUnowned(r) == [to |-> r.installed, owned |-> FALSE]

GetReporter(r) == [to |-> r.installed, owned |-> TRUE]

SetReporter(r, new, use) ==
    [installed |-> new,
     destroyed |-> r.destroyed \cup
         (IF use.owned /\ use.to = r.installed THEN {} ELSE {r.installed})]

\* The end of the full expression that got the reporter.
ReleaseReporter(r, use) ==
    IF use.owned /\ use.to # r.installed
    THEN [r EXCEPT !.destroyed = @ \cup {use.to}] ELSE r

=============================================================================
