------------------------------ MODULE MCWatchers ------------------------------
(***************************************************************************)
(* Values for the constants of Watchers.                                   *)
(***************************************************************************)
EXTENDS Watchers, TLC

CONSTANTS o1, o2

\* Places differ in nothing but their identity.
SlotSymmetry == Permutations(Slots)

=============================================================================
