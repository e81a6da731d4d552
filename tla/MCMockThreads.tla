---------------------------- MODULE MCMockThreads ----------------------------
(***************************************************************************)
(* Values for the constants of MockThreads.                                *)
(***************************************************************************)
EXTENDS MockThreads, TLC

CONSTANTS a, b, s1, m1, m2, t1, t2

NoSequences == {{}}

AtMostOneSequence == {{}} \cup {{s} : s \in Seqs}

Lazy == [s \in Seqs |-> "lazy"]

\* once() and times(0, 2)
FewLimits == {<<1, 1>>, <<0, 2>>}

\* at_most(1) and once()
UnitLimits == {<<0, 1>>, <<1, 1>>}

AcceptAll == {[x \in Args |-> "match"]}

MatchOrNot == [Args -> {"match", "mismatch"}]

AnyVerdict == [Args -> VerdictValues]

NoCalls == [m \in Mocks |-> {}]

FirstCallsSecond == [m \in Mocks |-> IF m = m1 THEN {m2} ELSE {}]

\* Side effects and finalizers of m1 call m2.
NestedInEffects ==
    [place \in Places |->
        IF place = "matcher" THEN NoCalls ELSE FirstCallsSecond]

\* Every callback of m1 may call m2.
NestedEverywhere == [place \in Places |-> FirstCallsSecond]

\* Matchers of m1 call m2.
NestedInMatchers ==
    [place \in Places |->
        IF place = "matcher" THEN FirstCallsSecond ELSE NoCalls]

=============================================================================
