----------------------------- MODULE MCLifetimes -----------------------------
(***************************************************************************)
(* Values for the constants of Lifetimes.                                  *)
(***************************************************************************)
EXTENDS Lifetimes, TLC

CONSTANTS s1, s2

\* Sequences differ in nothing but their identity.
SequenceSymmetry == Permutations(Seqs)

=============================================================================
