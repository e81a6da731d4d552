---------------------------- MODULE BasicSequence ----------------------------
(***************************************************************************)
(* One sequence of mimic++ (sequence::detail::BasicSequence) as a record   *)
(* and the operations ControlPolicy performs on it.  The module has no     *)
(* variables: Expectations holds one such record per sequence.             *)
(*                                                                         *)
(* m_Entries is the field "entries".  Positions count from 1, so that the  *)
(* code's index and id are position - 1 and m_Cursor is cursor - 1; only   *)
(* differences of the two are ever computed by the code.                   *)
(***************************************************************************)
EXTENDS Integers, Sequences

CONSTANTS
    IntMax,     \* std::numeric_limits<int>::max()
    IdMax       \* the largest value of sequence::Id's underlying type

ASSUME IntMaxAssumption == IntMax \in Nat \ {0}
ASSUME IdMaxAssumption == IdMax \in Nat

-----------------------------------------------------------------------------
\* BasicSequence::State and the predicates of BasicSequence::Entry.

EntryStates == {"unsatisfied", "satisfied", "saturated"}

IsFulfilled(state) == state \in {"satisfied", "saturated"}

IsActive(state) == state \in {"unsatisfied", "satisfied"}

BasicSequences == [entries : Seq(EntryStates), cursor : Nat \ {0}]

EmptySequence == [entries |-> <<>>, cursor |-> 1]

-----------------------------------------------------------------------------
\* Bug: the entries before the given one are not looked at.
IsConsumableAnywhere(q, pos) == q.cursor <= pos /\ IsActive(q.entries[pos])

\* Bug: pending.first(index + 1), so the entry itself must be fulfilled too.
IsConsumableOnceFulfilled(q, pos) ==
    /\ q.cursor <= pos
    /\ \A i \in q.cursor .. pos : IsFulfilled(q.entries[i])
    /\ IsActive(q.entries[pos])

\* is_consumable: every entry from the cursor up to the given one is fulfilled
\* and the given one can still be used.
IsConsumable(q, pos) ==
    /\ q.cursor <= pos
    /\ \A i \in q.cursor .. (pos - 1) : IsFulfilled(q.entries[i])
    /\ IsActive(q.entries[pos])

\* head_from returns the place of such an entry, or nullopt.
HasHead(q) == \E i \in q.cursor .. Len(q.entries) : IsActive(q.entries[i])

\* Bugs: one strategy counts the distance the way the other does.
PriorityAlwaysGreedy(strategy, pos, cursor) == pos - cursor

PriorityAlwaysLazy(strategy, pos, cursor) == IntMax - (pos - cursor)

\* LazyStrategy and GreedyStrategy.
Priority(strategy, pos, cursor) ==
    IF strategy = "lazy" THEN IntMax - (pos - cursor) ELSE pos - cursor

\* set_satisfied and set_saturated, and what each of them asserts.
SetSatisfied(q, pos) == [q EXCEPT !.entries[pos] = "satisfied"]

SetSatisfiedAsserts(q, pos) ==
    /\ pos \in DOMAIN q.entries
    /\ q.cursor <= pos
    /\ q.entries[pos] = "unsatisfied"

SetSaturated(q, pos) == [q EXCEPT !.entries[pos] = "saturated"]

SetSaturatedAsserts(q, pos) ==
    /\ pos \in DOMAIN q.entries
    /\ q.cursor <= pos
    /\ IsActive(q.entries[pos])

\* Bugs: the cursor moves past the entry, which may be used again; or stays.
ConsumePastEntry(q, pos) == [q EXCEPT !.cursor = pos + 1]

ConsumeInPlace(q, pos) == q

\* consume only moves the cursor; its assertion is is_consumable.
Consume(q, pos) == [q EXCEPT !.cursor = pos]

\* Bug: the new entry is not counted.
HasRoomForOneMore(q) == Len(q.entries) <= IdMax + 1

\* add throws when the number of entries is no value of Id's underlying type.
HasRoom(q) == Len(q.entries) <= IdMax

Add(q) == [q EXCEPT !.entries = Append(@, "unsatisfied")]

=============================================================================
