---------------------------- MODULE MCExpectations ----------------------------
(***************************************************************************)
(* Values for the constants of Expectations.                               *)
(***************************************************************************)
EXTENDS Expectations, TLC

CONSTANTS a, b, s1, s2, m1, m2

\* at_most(1) and once()
UnitLimits == {<<0, 1>>, <<1, 1>>}

\* never(), any_times() and at_least(1) with IntMax = 2
ExtremeLimits == {<<0, 0>>, <<0, IntMax>>, <<1, IntMax>>}

AtMostOneSequence == {{}} \cup {{s} : s \in Seqs}

AnySequences == SUBSET Seqs

OneLazyOneGreedy == s1 :> "lazy" @@ s2 :> "greedy"

\* expectations for both arguments, and for one of them
BothOrOne == {v \in [Args -> {"match", "mismatch"}] : v[a] = "match"}

\* every verdict, the policy that throws included
AnyVerdicts == [Args -> VerdictValues]

=============================================================================
