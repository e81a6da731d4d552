------------------------------- MODULE Watchers -------------------------------
(***************************************************************************)
(* Objects of type Watched<Base, LifetimeWatcher, RelocationWatcher>: how  *)
(* they are constructed, copied, moved and destroyed, and what the two     *)
(* watchers report of it.                                                  *)
(*                                                                         *)
(* Each construction and copy makes a new instance with a destruction mock *)
(* and a relocation mock of its own, all under the instance's number.  The *)
(* watchers then move from object to object with what they watch.  Members *)
(* are moved, copied and destroyed in the order of the base classes: the   *)
(* LifetimeWatcher first, Base last, and the reverse for destructors.      *)
(*                                                                         *)
(* A report throws; the test catches the exception right at the operation. *)
(* Calls that dereference the null mock of a moved-from object are         *)
(* undefined and left out.                                                 *)
(***************************************************************************)
EXTENDS Integers, Sequences

CONSTANTS
    Slots,          \* the places objects are constructed at
    MaxInstances,   \* bound: instances ever constructed
    MaxRelocations  \* bound: relocate-expectations of an instance at a time

ASSUME BoundsAssumption == MaxInstances \in Nat /\ MaxRelocations \in Nat

VARIABLES
    base,       \* which special members of Base are noexcept
    objects,    \* the watched object in each slot
    mocks,      \* the two mocks of every instance, with their expectations
    ended,      \* history: instances whose object was destroyed or assigned to
    seen,       \* history: of those, the ones that raised a report
    overwritten,\* history: of those, the targets of move-assignments
    failed,     \* history: a move was reported
    terminated

vars == <<base, objects, mocks, ended, seen, overwritten, failed, terminated>>

Null == 0

Nothing == [there |-> FALSE, who |-> Null, life |-> Null, relo |-> Null,
            asked |-> FALSE]

\* "who" is the instance whose value Base holds, "life" and "relo" the mocks of
\* the watchers, "asked" is m_HasDestructExpectation.
Objects == [there : BOOLEAN, who : Nat, life : Nat, relo : Nat, asked : BOOLEAN]

\* A destruct-expectation is for exactly one call; of the relocate-expectations
\* only the number of calls they are still good for is kept.
Mocks == [destruct : {"none", "expected", "fulfilled", "expired"},
          relocations : 0 .. MaxRelocations]

NewMocks == [destruct |-> "none", relocations |-> 0]

Watched(n, life, relo, asked) ==
    [there |-> TRUE, who |-> n, life |-> life, relo |-> relo, asked |-> asked]

Instances == DOMAIN mocks

\* Beyond the types: no more relocations are accepted than were expected.
TypeOK ==
    /\ base \in [nothrowMove : BOOLEAN, nothrowDestroy : BOOLEAN]
    /\ objects \in [Slots -> Objects]
    /\ mocks \in Seq(Mocks)
    /\ \A s \in Slots :
          {objects[s].who, objects[s].life, objects[s].relo}
              \subseteq Instances \cup {Null}
    /\ ended \subseteq Instances
    /\ seen \subseteq Instances /\ overwritten \subseteq Instances
    /\ failed \in BOOLEAN /\ terminated \in BOOLEAN

Init ==
    /\ base \in [nothrowMove : BOOLEAN, nothrowDestroy : BOOLEAN]
    /\ objects = [s \in Slots |-> Nothing]
    /\ mocks = <<>>
    /\ ended = {} /\ seen = {} /\ overwritten = {}
    /\ failed = FALSE
    /\ terminated = FALSE

There(s) == ~terminated /\ objects[s].there

-----------------------------------------------------------------------------
\* Calls of the mocks.  The destruct-expectation matches once; without it the
\* call is reported.

Expected(n) == mocks[n].destruct = "expected"

Fulfil(n) == [mocks EXCEPT ![n].destruct = "fulfilled"]

\* ~LifetimeWatcher of a watcher that holds the mock n, or none.
DestructionThrows(n) == n # Null /\ ~Expected(n)

AfterDestruction(n) == IF n # Null /\ Expected(n) THEN Fulfil(n) ELSE mocks

\* Bug: the call is forwarded without a look at the expectations' limits.
NeverThrows(n) == FALSE

RelocationThrows(n) == mocks[n].relocations = 0

AfterRelocation(n) == [mocks EXCEPT ![n].relocations = @ - 1]

MovedFrom(object) ==
    [object EXCEPT !.who = Null, !.life = Null, !.relo = Null]

-----------------------------------------------------------------------------
\* Default and copy construction touch nothing but the new object.
Construct(s) ==
    /\ ~terminated /\ ~objects[s].there
    /\ Len(mocks) < MaxInstances
    /\ LET n == Len(mocks) + 1
       IN  objects' = [objects EXCEPT ![s] = Watched(n, n, n, FALSE)]
    /\ mocks' = Append(mocks, NewMocks)
    /\ UNCHANGED <<base, ended, seen, overwritten, failed, terminated>>

\* A second time for the same watcher is a logic_error.
ExpectDestruct(s) ==
    /\ There(s)
    /\ objects[s].life # Null /\ ~objects[s].asked
    /\ objects' = [objects EXCEPT ![s].asked = TRUE]
    /\ mocks' = [mocks EXCEPT ![objects[s].life].destruct = "expected"]
    /\ UNCHANGED <<base, ended, seen, overwritten, failed, terminated>>

ExpectRelocate(s) ==
    /\ There(s)
    /\ objects[s].relo # Null
    /\ mocks[objects[s].relo].relocations < MaxRelocations
    /\ mocks' = [mocks EXCEPT ![objects[s].relo].relocations = @ + 1]
    /\ UNCHANGED <<base, objects, ended, seen, overwritten, failed, terminated>>

\* The test destroys the expectations of an instance.
DropExpectations(n) ==
    /\ ~terminated
    /\ mocks' = [mocks EXCEPT ![n] =
                    [destruct |-> IF @.destruct = "none" THEN "none" ELSE "expired",
                     relocations |-> 0]]
    /\ mocks[n].destruct # "fulfilled"
    /\ UNCHANGED <<base, objects, ended, seen, overwritten, failed, terminated>>

\* The destructor of Watched is as noexcept as the one of Base.
Destroy(s) ==
    /\ There(s)
    /\ LET o == objects[s]
       IN  /\ mocks' = AfterDestruction(o.life)
           /\ ended' = ended \cup ({o.who} \ {Null})
           /\ seen' = IF DestructionThrows(o.life) THEN seen \cup {o.life} ELSE seen
           /\ terminated' = (DestructionThrows(o.life) /\ base.nothrowDestroy)
    /\ objects' = [objects EXCEPT ![s] = Nothing]
    /\ UNCHANGED <<base, overwritten, failed>>

\* The LifetimeWatcher is moved before the RelocationWatcher reports.  If that
\* report throws, the new LifetimeWatcher is destroyed again, and its mock with
\* it; the exception is still in flight, so a second one terminates.
MoveConstruct(s, d) ==
    LET o == objects[s]
    IN  /\ There(s) /\ ~objects[d].there
        /\ o.relo # Null
        /\ IF RelocationThrows(o.relo)
           THEN /\ objects' = [objects EXCEPT ![s].life = Null]
                /\ mocks' = AfterDestruction(o.life)
                /\ terminated' = (base.nothrowMove \/ DestructionThrows(o.life))
                /\ failed' = TRUE
           ELSE /\ objects' = [objects EXCEPT ![d] = o, ![s] = MovedFrom(o)]
                /\ mocks' = AfterRelocation(o.relo)
                /\ UNCHANGED <<failed, terminated>>
        /\ UNCHANGED <<base, ended, seen, overwritten>>

\* The mocks of the target are released without a call.
MoveAssign(s, d) ==
    LET o == objects[s]
        t == objects[d]
        lost == {t.who} \ {Null}
    IN  /\ There(s) /\ There(d) /\ s # d
        /\ o.relo # Null
        /\ IF RelocationThrows(o.relo)
           THEN /\ objects' = [objects EXCEPT ![d].life = o.life,
                                              ![d].asked = o.asked,
                                              ![s].life = Null]
                /\ failed' = TRUE
                /\ terminated' = base.nothrowMove
                /\ UNCHANGED <<mocks, ended, overwritten>>
           ELSE /\ objects' = [objects EXCEPT ![d] = o, ![s] = MovedFrom(o)]
                /\ mocks' = AfterRelocation(o.relo)
                /\ ended' = ended \cup lost
                /\ overwritten' = overwritten \cup lost
                /\ UNCHANGED <<failed, terminated>>
        /\ UNCHANGED <<base, seen>>

\* A self-move is a relocation and changes nothing else.
SelfMoveAssign(s) ==
    LET o == objects[s]
    IN  /\ There(s)
        /\ o.relo # Null
        /\ IF RelocationThrows(o.relo)
           THEN /\ failed' = TRUE
                /\ terminated' = base.nothrowMove
                /\ UNCHANGED mocks
           ELSE /\ mocks' = AfterRelocation(o.relo)
                /\ UNCHANGED <<failed, terminated>>
        /\ UNCHANGED <<base, objects, ended, seen, overwritten>>

\* Bug: m_HasDestructExpectation survives the assignment.
CopyAssignStillAsked(d) ==
    LET o == objects[d]
        n == Len(mocks) + 1
    IN  /\ There(d)
        /\ Len(mocks) < MaxInstances
        /\ ~DestructionThrows(o.life)
        /\ objects' = [objects EXCEPT ![d] = Watched(n, n, n, o.asked)]
        /\ mocks' = Append(AfterDestruction(o.life), NewMocks)
        /\ ended' = ended \cup ({o.who} \ {Null})
        /\ UNCHANGED <<base, seen, overwritten, failed, terminated>>

\* Bug: the new mock is assigned without destroying the old watcher first.
CopyAssignSilently(d) ==
    LET o == objects[d]
        n == Len(mocks) + 1
    IN  /\ There(d)
        /\ Len(mocks) < MaxInstances
        /\ objects' = [objects EXCEPT ![d] = Watched(n, n, n, FALSE)]
        /\ mocks' = Append(mocks, NewMocks)
        /\ ended' = ended \cup ({o.who} \ {Null})
        /\ UNCHANGED <<base, seen, overwritten, failed, terminated>>

\* Copy-assignment first destroys the old watcher, which may throw, and then
\* makes a new instance; the source is not looked at.
CopyAssign(d) ==
    LET o == objects[d]
        n == Len(mocks) + 1
    IN  /\ There(d)
        /\ Len(mocks) < MaxInstances
        /\ IF DestructionThrows(o.life)
           THEN /\ objects' = [objects EXCEPT ![d].life = Null]
                /\ seen' = seen \cup {o.life}
                /\ UNCHANGED <<mocks, ended>>
           ELSE /\ objects' = [objects EXCEPT ![d] = Watched(n, n, n, FALSE)]
                /\ mocks' = Append(AfterDestruction(o.life), NewMocks)
                /\ ended' = ended \cup ({o.who} \ {Null})
                /\ UNCHANGED seen
        /\ UNCHANGED <<base, overwritten, failed, terminated>>

Next ==
    \/ \E s \in Slots :
          \/ Construct(s)
          \/ ExpectDestruct(s) \/ ExpectRelocate(s)
          \/ Destroy(s)
          \/ SelfMoveAssign(s)
          \/ CopyAssign(s)
          \/ \E d \in Slots : MoveConstruct(s, d) \/ MoveAssign(s, d)
    \/ \E n \in Instances : DropExpectations(n)

Spec == Init /\ [][Next]_vars

-----------------------------------------------------------------------------
\* Unless a move was reported, what the destruct-expectations say is true:
\* one is fulfilled only if its instance is gone, and an instance that is gone
\* fulfilled its expectation, was reported or was moved over.
DestructionsAreWatched ==
    ~failed => \A n \in Instances :
        /\ mocks[n].destruct = "fulfilled" => n \in ended
        /\ n \in ended => \/ mocks[n].destruct = "fulfilled"
                          \/ n \in seen \cup overwritten

\* A watcher knows, after any moves and failures, whether its mock has had a
\* destruct-expectation, so that no mock ever gets a second one and none is
\* refused its first.
AskedOnce ==
    \A s \in Slots : objects[s].life # Null =>
        (objects[s].asked <=> mocks[objects[s].life].destruct # "none")

\* "This watcher is designed to track, whether the destructor has been called":
\* a fulfilled destruct-expectation tells that the object is gone.
FulfilledMeansDestroyed ==
    \A n \in Instances : mocks[n].destruct = "fulfilled" => n \in ended

=============================================================================
