--------------------------- MODULE SequencePromise ---------------------------
(***************************************************************************)
(* What sequences promise about the order in which expectations are used,  *)
(* stated with nothing but the limits, the attachments and the counts.     *)
(* Expectations are numbered in the order of their creation, which is the  *)
(* order of their entries in every sequence.                               *)
(***************************************************************************)
EXTENDS Integers, Sequences

CONSTANTS
    Attachables     \* the limits and sequences an expectation may be given

VARIABLES
    attached,   \* of each expectation, its limits and its sequences
    count       \* how often each one was used

vars == <<attached, count>>

Init == attached = <<>> /\ count = <<>>

Attach(a) ==
    /\ attached' = Append(attached, a)
    /\ count' = Append(count, 0)

ShareSequence(e, f) == attached[e].in \cap attached[f].in # {}

MayBeUsed(e) ==
    /\ count[e] < attached[e].max
    /\ \A f \in DOMAIN count : ShareSequence(e, f) =>
          /\ f < e => count[f] >= attached[f].min
          /\ f > e => count[f] = 0

Use(e) ==
    /\ MayBeUsed(e)
    /\ count' = [count EXCEPT ![e] = @ + 1]
    /\ UNCHANGED attached

Next ==
    \/ \E a \in Attachables : Attach(a)
    \/ \E e \in DOMAIN count : Use(e)

Spec == Init /\ [][Next]_vars

=============================================================================
