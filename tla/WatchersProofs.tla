---------------------------- MODULE WatchersProofs ----------------------------
(***************************************************************************)
(* The watchers keep track of every destruction, proved for any number of  *)
(* objects, instances and expectations.                                    *)
(***************************************************************************)
EXTENDS Watchers, TLAPS

\* No two objects watch the same instance (unique_ptr), which AskedOnce rests on.
WatchedByOne ==
    \A s, d \in Slots : s # d =>
        /\ objects[s].life = objects[d].life => objects[s].life = Null
        /\ objects[s].relo = objects[d].relo => objects[s].relo = Null

\* Unless a move was reported, the LifetimeWatcher of an object watches the
\* value that Base holds, or has reported it.
FollowedOrReported ==
    ~failed => \A s \in Slots :
        \/ objects[s].life = objects[s].who
        \/ objects[s].life = Null /\ objects[s].who \in seen

IInv ==
    /\ TypeOK
    /\ WatchedByOne
    /\ AskedOnce
    /\ FollowedOrReported
    /\ DestructionsAreWatched

-----------------------------------------------------------------------------
\* Replacing one of the mocks keeps all the others.
LEMMA MockReplaced ==
    ASSUME NEW ms \in Seq(Mocks), NEW n \in DOMAIN ms, NEW mock \in Mocks
    PROVE  LET new == [ms EXCEPT ![n] = mock]
           IN  /\ new \in Seq(Mocks)
               /\ Len(new) = Len(ms)
               /\ DOMAIN new = DOMAIN ms
               /\ new[n] = mock
               /\ \A m \in DOMAIN ms \ {n} : new[m] = ms[m]
  OBVIOUS

\* A new pair of mocks has the next number.
LEMMA MockAppended ==
    ASSUME NEW ms \in Seq(Mocks)
    PROVE  LET new == Append(ms, NewMocks)
           IN  /\ new \in Seq(Mocks)
               /\ DOMAIN new = DOMAIN ms \cup {Len(ms) + 1}
               /\ Len(ms) + 1 \notin DOMAIN ms
               /\ Len(ms) + 1 \in Nat \ {Null}
               /\ new[Len(ms) + 1] = NewMocks
               /\ \A m \in DOMAIN ms : new[m] = ms[m]
<1>1. NewMocks \in Mocks
  BY BoundsAssumption DEF NewMocks, Mocks
<1> QED BY <1>1 DEF Null

\* The call of a destruction mock fulfils its expectation and nothing else.
LEMMA DestructionCalled ==
    ASSUME TypeOK, NEW n \in Instances \cup {Null}
    PROVE  LET new == AfterDestruction(n)
           IN  /\ new \in Seq(Mocks)
               /\ DOMAIN new = Instances
               /\ Len(new) = Len(mocks)
               /\ n # Null /\ ~DestructionThrows(n) => new[n].destruct = "fulfilled"
               /\ n # Null /\ ~DestructionThrows(n) => mocks[n].destruct = "expected"
               /\ \A m \in Instances :
                     m # n \/ DestructionThrows(n) => new[m] = mocks[m]
<1>1. CASE n # Null /\ Expected(n)
  <2>1. n \in Instances /\ mocks \in Seq(Mocks) /\ mocks[n] \in Mocks
    BY <1>1 DEF TypeOK, Instances
  <2> DEFINE mock == [mocks[n] EXCEPT !.destruct = "fulfilled"]
  <2>2. mock \in Mocks /\ mock.destruct = "fulfilled"
    BY <2>1 DEF Mocks
  <2>3. AfterDestruction(n) = [mocks EXCEPT ![n] = mock]
    BY <1>1, <2>1 DEF AfterDestruction, Fulfil
  <2> HIDE DEF mock
  <2> QED
    BY <1>1, <2>1, <2>2, <2>3, MockReplaced
    DEF DestructionThrows, Expected, Instances
<1>2. CASE n = Null \/ ~Expected(n)
  BY <1>2 DEF TypeOK, AfterDestruction, DestructionThrows, Instances
<1> QED BY <1>1, <1>2

\* The call of a relocation mock leaves the destruction mocks alone.
LEMMA RelocationCalled ==
    ASSUME TypeOK, NEW n \in Instances, ~RelocationThrows(n)
    PROVE  LET new == AfterRelocation(n)
           IN  /\ new \in Seq(Mocks)
               /\ DOMAIN new = Instances
               /\ \A m \in Instances : new[m].destruct = mocks[m].destruct
<1>1. mocks \in Seq(Mocks) /\ mocks[n] \in Mocks
  BY DEF TypeOK, Instances
<1> DEFINE mock == [mocks[n] EXCEPT !.relocations = @ - 1]
<1>2. mock \in Mocks /\ mock.destruct = mocks[n].destruct
  BY <1>1, BoundsAssumption DEF Mocks, RelocationThrows
<1>3. AfterRelocation(n) = [mocks EXCEPT ![n] = mock]
  BY <1>1 DEF AfterRelocation
<1> HIDE DEF mock
<1> QED BY <1>1, <1>2, <1>3, MockReplaced DEF Instances

-----------------------------------------------------------------------------
\* What the types say of an object.
LEMMA ObjectTypes ==
    ASSUME TypeOK, NEW s \in Slots
    PROVE  /\ objects[s] \in Objects
           /\ objects[s].who \in Instances \cup {Null}
           /\ objects[s].life \in Instances \cup {Null}
           /\ objects[s].relo \in Instances \cup {Null}
  BY DEF TypeOK

\* A watched object is one of Objects, and its parts are what it was made of.
LEMMA WatchedParts ==
    ASSUME NEW n \in Nat
    PROVE  LET o == Watched(n, n, n, FALSE)
           IN  /\ o \in Objects
               /\ o.who = n /\ o.life = n /\ o.relo = n /\ o.asked = FALSE
  BY DEF Watched, Objects

\* The invariant, action by action.
LEMMA InitEstablishesInvariant == Init => IInv
<1> SUFFICES ASSUME Init PROVE IInv
  OBVIOUS
<1>1. Nothing \in Objects /\ Nothing.who = Null
      /\ Nothing.life = Null /\ Nothing.relo = Null
  BY DEF Nothing, Objects, Null
<1>2. mocks \in Seq(Mocks) /\ Instances = {}
  BY DEF Init, Instances
<1>3. \A s \in Slots : objects[s] = Nothing
  BY DEF Init
<1>4. objects \in [Slots -> Objects]
  BY <1>1 DEF Init
<1>5. TypeOK
  BY <1>1, <1>2, <1>3, <1>4 DEF Init, TypeOK
<1> QED
  BY <1>1, <1>2, <1>3, <1>5
  DEF IInv, WatchedByOne, AskedOnce, FollowedOrReported, DestructionsAreWatched

LEMMA ConstructKeepsInvariant ==
    ASSUME IInv, NEW s \in Slots, Construct(s)
    PROVE  IInv'
<1> DEFINE n == Len(mocks) + 1
<1>1. /\ TypeOK
      /\ mocks' \in Seq(Mocks)
      /\ Instances' = Instances \cup {n}
      /\ n \notin Instances /\ n \in Nat \ {Null}
      /\ mocks'[n].destruct = "none"
      /\ \A m \in Instances : mocks'[m] = mocks[m]
  BY MockAppended DEF IInv, TypeOK, Construct, Instances, NewMocks
<1>2. /\ objects' \in [Slots -> Objects]
      /\ objects'[s].who = n /\ objects'[s].life = n /\ objects'[s].relo = n
      /\ objects'[s].asked = FALSE
      /\ \A x \in Slots \ {s} : objects'[x] = objects[x]
      /\ UNCHANGED <<base, ended, seen, overwritten, failed, terminated>>
  BY <1>1, WatchedParts DEF TypeOK, Construct
<1> HIDE DEF n
<1>3. TypeOK'
  BY <1>1, <1>2 DEF TypeOK
<1>4. WatchedByOne'
  BY <1>1, <1>2, ObjectTypes DEF IInv, WatchedByOne
<1>5. AskedOnce'
  BY <1>1, <1>2, ObjectTypes DEF IInv, AskedOnce
<1>6. FollowedOrReported'
  BY <1>1, <1>2 DEF IInv, FollowedOrReported
<1>7. DestructionsAreWatched'
  BY <1>1, <1>2 DEF IInv, TypeOK, DestructionsAreWatched
<1> QED BY <1>3, <1>4, <1>5, <1>6, <1>7 DEF IInv

LEMMA ExpectDestructKeepsInvariant ==
    ASSUME IInv, NEW s \in Slots, ExpectDestruct(s)
    PROVE  IInv'
<1> DEFINE n == objects[s].life
           mock == [mocks[n] EXCEPT !.destruct = "expected"]
<1>1. /\ TypeOK /\ n \in Instances /\ n # Null
      /\ mocks[n].destruct = "none"
  <2>1. TypeOK /\ n # Null /\ ~objects[s].asked
    BY DEF IInv, ExpectDestruct
  <2>2. n \in Instances
    BY <2>1, ObjectTypes
  <2> QED BY <2>1, <2>2 DEF IInv, AskedOnce
<1>2. mocks \in Seq(Mocks) /\ mocks[n] \in Mocks /\ mock \in Mocks
  <2>1. mocks \in Seq(Mocks) /\ n \in DOMAIN mocks
    BY <1>1 DEF TypeOK, Instances
  <2>2. mocks[n] \in Mocks
    <3> HIDE DEF n, mock
    <3> QED BY <2>1
  <2> QED BY <2>1, <2>2 DEF Mocks
<1>3. mocks' = [mocks EXCEPT ![n] = mock]
  BY DEF ExpectDestruct
<1>4. /\ mocks' \in Seq(Mocks)
      /\ Instances' = Instances
      /\ mocks'[n].destruct = "expected"
      /\ \A m \in Instances \ {n} : mocks'[m] = mocks[m]
  <2>1. mock.destruct = "expected"
    BY <1>2 DEF Mocks
  <2> HIDE DEF mock
  <2> QED BY <1>1, <1>2, <1>3, <2>1, MockReplaced DEF Instances
<1>5. /\ objects' \in [Slots -> Objects]
      /\ objects'[s].who = objects[s].who /\ objects'[s].life = n
      /\ objects'[s].relo = objects[s].relo
      /\ objects'[s].asked = TRUE
      /\ \A x \in Slots \ {s} : objects'[x] = objects[x]
      /\ UNCHANGED <<base, ended, seen, overwritten, failed, terminated>>
  BY <1>1, ObjectTypes DEF TypeOK, ExpectDestruct, Objects
<1> HIDE DEF n, mock
<1>n. n = objects[s].life
  BY DEF n
<1>6. TypeOK'
  BY <1>1, <1>4, <1>5, <1>n, ObjectTypes DEF TypeOK
<1>7. WatchedByOne'
  BY <1>5, <1>n DEF IInv, WatchedByOne
<1>8. AskedOnce'
  BY <1>1, <1>4, <1>5, <1>n, ObjectTypes DEF IInv, AskedOnce, WatchedByOne
<1>9. FollowedOrReported'
  BY <1>5, <1>n DEF IInv, FollowedOrReported
<1>10. DestructionsAreWatched'
  BY <1>1, <1>4, <1>5 DEF IInv, DestructionsAreWatched
<1> QED BY <1>6, <1>7, <1>8, <1>9, <1>10 DEF IInv

LEMMA ExpectRelocateKeepsInvariant ==
    ASSUME IInv, NEW s \in Slots, ExpectRelocate(s)
    PROVE  IInv'
<1> DEFINE n == objects[s].relo
           mock == [mocks[n] EXCEPT !.relocations = @ + 1]
<1>1. TypeOK /\ n \in Instances /\ mocks[n].relocations < MaxRelocations
  BY ObjectTypes DEF IInv, ExpectRelocate
<1>2. mocks \in Seq(Mocks) /\ mocks[n] \in Mocks
  <2>1. mocks \in Seq(Mocks) /\ n \in DOMAIN mocks
    BY <1>1 DEF TypeOK, Instances
  <2> HIDE DEF n, mock
  <2> QED BY <2>1
<1>3. mock \in Mocks /\ mock.destruct = mocks[n].destruct
  BY <1>1, <1>2, BoundsAssumption DEF Mocks
<1>4. mocks' = [mocks EXCEPT ![n] = mock]
  BY DEF ExpectRelocate
<1>5. /\ mocks' \in Seq(Mocks)
      /\ Instances' = Instances
      /\ \A m \in Instances : mocks'[m].destruct = mocks[m].destruct
  <2> HIDE DEF mock
  <2> QED BY <1>1, <1>2, <1>3, <1>4, MockReplaced DEF Instances
<1>6. UNCHANGED <<base, objects, ended, seen, overwritten, failed, terminated>>
  BY DEF ExpectRelocate
<1>7. TypeOK'
  BY <1>1, <1>5, <1>6 DEF TypeOK
<1>8. WatchedByOne' /\ FollowedOrReported'
  BY <1>6 DEF IInv, WatchedByOne, FollowedOrReported
<1>9. AskedOnce'
  BY <1>1, <1>5, <1>6, ObjectTypes DEF IInv, AskedOnce
<1>10. DestructionsAreWatched'
  BY <1>5, <1>6 DEF IInv, DestructionsAreWatched
<1> QED BY <1>7, <1>8, <1>9, <1>10 DEF IInv

LEMMA DropExpectationsKeepsInvariant ==
    ASSUME IInv, NEW n \in Instances, DropExpectations(n)
    PROVE  IInv'
<1> DEFINE left == IF mocks[n].destruct = "none" THEN "none" ELSE "expired"
           mock == [destruct |-> left, relocations |-> 0]
<1>1. TypeOK /\ mocks \in Seq(Mocks) /\ mocks[n].destruct # "fulfilled"
  BY DEF IInv, TypeOK, DropExpectations
<1>2. mock \in Mocks
  BY BoundsAssumption DEF Mocks
<1>3. mocks' = [mocks EXCEPT ![n] = mock]
  BY DEF DropExpectations
<1>4. mock.destruct # "fulfilled" /\ (mock.destruct = "none" <=> mocks[n].destruct = "none")
  OBVIOUS
<1>5. /\ mocks' \in Seq(Mocks)
      /\ Instances' = Instances
      /\ \A m \in Instances :
            /\ mocks'[m].destruct = "none" <=> mocks[m].destruct = "none"
            /\ mocks'[m].destruct = "fulfilled" <=> mocks[m].destruct = "fulfilled"
  <2> HIDE DEF mock
  <2> QED BY <1>1, <1>2, <1>3, <1>4, MockReplaced DEF Instances
<1>6. UNCHANGED <<base, objects, ended, seen, overwritten, failed, terminated>>
  BY DEF DropExpectations
<1>7. TypeOK'
  BY <1>1, <1>5, <1>6 DEF TypeOK
<1>8. WatchedByOne' /\ FollowedOrReported'
  BY <1>6 DEF IInv, WatchedByOne, FollowedOrReported
<1>9. AskedOnce'
  BY <1>1, <1>5, <1>6, ObjectTypes DEF IInv, AskedOnce
<1>10. DestructionsAreWatched'
  BY <1>5, <1>6 DEF IInv, DestructionsAreWatched
<1> QED BY <1>7, <1>8, <1>9, <1>10 DEF IInv

LEMMA DestroyKeepsInvariant ==
    ASSUME IInv, NEW s \in Slots, Destroy(s)
    PROVE  IInv'
<1> DEFINE o == objects[s]
<1>1. /\ TypeOK
      /\ o.who \in Instances \cup {Null} /\ o.life \in Instances \cup {Null}
  BY ObjectTypes DEF IInv
<1>2. /\ mocks' = AfterDestruction(o.life)
      /\ ended' = ended \cup ({o.who} \ {Null})
      /\ seen' = IF DestructionThrows(o.life) THEN seen \cup {o.life} ELSE seen
      /\ objects' = [objects EXCEPT ![s] = Nothing]
      /\ UNCHANGED <<base, overwritten, failed>>
  BY DEF Destroy
<1>3. DestructionThrows(o.life) => o.life # Null
  BY DEF DestructionThrows
<1>4. /\ mocks' \in Seq(Mocks)
      /\ Instances' = Instances
      /\ o.life # Null /\ ~DestructionThrows(o.life)
            => mocks'[o.life].destruct = "fulfilled" /\ mocks[o.life].destruct = "expected"
      /\ \A m \in Instances :
            m # o.life \/ DestructionThrows(o.life) => mocks'[m] = mocks[m]
  BY <1>1, <1>2, DestructionCalled DEF Instances
<1>5. /\ objects' \in [Slots -> Objects]
      /\ objects'[s].who = Null /\ objects'[s].life = Null /\ objects'[s].relo = Null
      /\ \A x \in Slots \ {s} : objects'[x] = objects[x]
  <2>1. Nothing \in Objects /\ Nothing.who = Null
        /\ Nothing.life = Null /\ Nothing.relo = Null
    BY DEF Nothing, Objects, Null
  <2> QED BY <1>1, <1>2, <2>1 DEF TypeOK
<1>6. terminated' \in BOOLEAN
  BY DEF Destroy
<1>7. TypeOK'
  BY <1>1, <1>2, <1>3, <1>4, <1>5, <1>6 DEF TypeOK
<1>8. WatchedByOne'
  BY <1>5 DEF IInv, WatchedByOne
<1>9. AskedOnce'
  BY <1>1, <1>4, <1>5, ObjectTypes DEF IInv, AskedOnce
<1>10. FollowedOrReported'
  BY <1>2, <1>5 DEF IInv, FollowedOrReported
<1>11. DestructionsAreWatched'
  <2> SUFFICES ASSUME ~failed, NEW m \in Instances
               PROVE  /\ mocks'[m].destruct = "fulfilled" => m \in ended'
                      /\ m \in ended' => \/ mocks'[m].destruct = "fulfilled"
                                        \/ m \in seen' \cup overwritten
    BY <1>2, <1>4 DEF DestructionsAreWatched
  <2>1. \/ o.life = o.who
        \/ o.life = Null /\ o.who \in seen
    BY DEF IInv, FollowedOrReported
  <2>2. /\ mocks[m].destruct = "fulfilled" => m \in ended
        /\ m \in ended => \/ mocks[m].destruct = "fulfilled"
                          \/ m \in seen \cup overwritten
    BY DEF IInv, DestructionsAreWatched
  <2>3. m # Null
    BY <1>1 DEF TypeOK, Instances, Null
  <2>4. CASE DestructionThrows(o.life)
    <3>1. mocks'[m] = mocks[m] /\ seen' = seen \cup {o.life}
      BY <1>2, <1>4, <2>4
    <3> QED BY <1>2, <2>1, <2>2, <2>3, <3>1
  <2>5. CASE ~DestructionThrows(o.life)
    <3>1. seen' = seen
      BY <1>2, <2>5
    <3>2. CASE m = o.life
      BY <1>2, <1>4, <2>1, <2>3, <2>5, <3>1, <3>2
    <3>3. CASE m # o.life
      <4>1. mocks'[m] = mocks[m]
        BY <1>4, <3>3
      <4> QED BY <1>2, <2>1, <2>2, <2>3, <3>1, <3>3, <4>1
    <3> QED BY <3>2, <3>3
  <2> QED BY <2>4, <2>5
<1> QED BY <1>7, <1>8, <1>9, <1>10, <1>11 DEF IInv

\* A moved-from object holds neither a value nor a mock.
LEMMA MovedFromParts ==
    ASSUME NEW o \in Objects
    PROVE  /\ MovedFrom(o) \in Objects
           /\ MovedFrom(o).who = Null /\ MovedFrom(o).life = Null
           /\ MovedFrom(o).relo = Null
  BY DEF MovedFrom, Objects, Null

\* A successful move hands everything over, and neither the destruction mocks
\* nor the objects beside the two are touched.
LEMMA HandOver ==
    ASSUME IInv, NEW s \in Slots, NEW d \in Slots \ {s},
           objects[s].relo # Null, ~RelocationThrows(objects[s].relo),
           objects' = [objects EXCEPT ![d] = objects[s], ![s] = MovedFrom(objects[s])],
           mocks' = AfterRelocation(objects[s].relo)
    PROVE  /\ objects' \in [Slots -> Objects]
           /\ objects'[d] = objects[s]
           /\ objects'[s].who = Null /\ objects'[s].life = Null /\ objects'[s].relo = Null
           /\ \A x \in Slots \ {s, d} : objects'[x] = objects[x]
           /\ mocks' \in Seq(Mocks) /\ Instances' = Instances
           /\ \A m \in Instances : mocks'[m].destruct = mocks[m].destruct
           /\ WatchedByOne' /\ AskedOnce'
<1>1. TypeOK /\ objects[s] \in Objects /\ objects[s].relo \in Instances
  BY ObjectTypes DEF IInv
<1>2. /\ objects' \in [Slots -> Objects]
      /\ objects'[d] = objects[s]
      /\ objects'[s].who = Null /\ objects'[s].life = Null /\ objects'[s].relo = Null
      /\ \A x \in Slots \ {s, d} : objects'[x] = objects[x]
  BY <1>1, MovedFromParts DEF TypeOK
<1>3. /\ mocks' \in Seq(Mocks) /\ Instances' = Instances
      /\ \A m \in Instances : mocks'[m].destruct = mocks[m].destruct
  BY <1>1, RelocationCalled DEF Instances
<1>4. WatchedByOne'
  BY <1>2 DEF IInv, WatchedByOne
<1>5. AskedOnce'
  BY <1>1, <1>2, <1>3, ObjectTypes DEF IInv, AskedOnce
<1> QED BY <1>2, <1>3, <1>4, <1>5

LEMMA MoveConstructKeepsInvariant ==
    ASSUME IInv, NEW s \in Slots, NEW d \in Slots, MoveConstruct(s, d)
    PROVE  IInv'
<1> DEFINE o == objects[s]
<1>1. /\ TypeOK /\ s # d /\ o.relo # Null
      /\ o \in Objects
      /\ o.who \in Instances \cup {Null} /\ o.life \in Instances \cup {Null}
      /\ o.relo \in Instances
      /\ UNCHANGED <<base, ended, seen, overwritten>>
  BY ObjectTypes DEF IInv, MoveConstruct, There
<1>2. CASE RelocationThrows(o.relo)
  <2>1. /\ objects' = [objects EXCEPT ![s].life = Null]
        /\ mocks' = AfterDestruction(o.life)
        /\ failed' = TRUE
        /\ terminated' \in BOOLEAN
    BY <1>2 DEF MoveConstruct
  <2>2. /\ mocks' \in Seq(Mocks) /\ Instances' = Instances
        /\ o.life # Null /\ ~DestructionThrows(o.life)
              => mocks'[o.life].destruct = "fulfilled" /\ mocks[o.life].destruct = "expected"
        /\ \A m \in Instances :
              m # o.life \/ DestructionThrows(o.life) => mocks'[m] = mocks[m]
    BY <1>1, <2>1, DestructionCalled DEF Instances
  <2>3. /\ objects' \in [Slots -> Objects]
        /\ objects'[s].life = Null
        /\ objects'[s].who = o.who /\ objects'[s].relo = o.relo
        /\ \A x \in Slots \ {s} : objects'[x] = objects[x]
    BY <1>1, <2>1 DEF TypeOK, Objects, Null
  <2>4. TypeOK'
    BY <1>1, <2>1, <2>2, <2>3 DEF TypeOK
  <2>5. WatchedByOne'
    BY <2>3 DEF IInv, WatchedByOne
  <2>6. AskedOnce'
    BY <1>1, <2>2, <2>3, ObjectTypes DEF IInv, AskedOnce
  <2>7. FollowedOrReported' /\ DestructionsAreWatched'
    BY <2>1 DEF FollowedOrReported, DestructionsAreWatched
  <2> QED BY <2>4, <2>5, <2>6, <2>7 DEF IInv
<1>3. CASE ~RelocationThrows(o.relo)
  <2>1. /\ objects' = [objects EXCEPT ![d] = o, ![s] = MovedFrom(o)]
        /\ mocks' = AfterRelocation(o.relo)
        /\ UNCHANGED <<failed, terminated>>
    BY <1>3 DEF MoveConstruct
  <2>2. /\ objects' \in [Slots -> Objects]
        /\ objects'[d] = o
        /\ objects'[s].who = Null /\ objects'[s].life = Null /\ objects'[s].relo = Null
        /\ \A x \in Slots \ {s, d} : objects'[x] = objects[x]
        /\ mocks' \in Seq(Mocks) /\ Instances' = Instances
        /\ \A m \in Instances : mocks'[m].destruct = mocks[m].destruct
        /\ WatchedByOne' /\ AskedOnce'
    BY <1>1, <1>3, <2>1, HandOver
  <2>3. TypeOK'
    BY <1>1, <2>1, <2>2 DEF TypeOK
  <2>4. FollowedOrReported'
    BY <1>1, <2>1, <2>2 DEF IInv, FollowedOrReported
  <2>5. DestructionsAreWatched'
    BY <1>1, <2>1, <2>2 DEF IInv, DestructionsAreWatched
  <2> QED BY <2>2, <2>3, <2>4, <2>5 DEF IInv
<1> QED BY <1>2, <1>3

LEMMA MoveAssignKeepsInvariant ==
    ASSUME IInv, NEW s \in Slots, NEW d \in Slots, MoveAssign(s, d)
    PROVE  IInv'
<1> DEFINE o == objects[s]
           lost == {objects[d].who} \ {Null}
<1>1. /\ TypeOK /\ s # d /\ o.relo # Null
      /\ o \in Objects /\ objects[d] \in Objects
      /\ o.who \in Instances \cup {Null} /\ o.life \in Instances \cup {Null}
      /\ o.relo \in Instances
      /\ lost \subseteq Instances
      /\ UNCHANGED <<base, seen>>
  BY ObjectTypes DEF IInv, MoveAssign
<1>2. CASE RelocationThrows(o.relo)
  <2>1. /\ objects' = [objects EXCEPT ![d].life = o.life, ![d].asked = o.asked,
                                      ![s].life = Null]
        /\ failed' = TRUE
        /\ terminated' = base.nothrowMove
        /\ UNCHANGED <<mocks, ended, overwritten>>
    BY <1>2 DEF MoveAssign
  <2>2. /\ objects' \in [Slots -> Objects]
        /\ objects'[s].life = Null
        /\ objects'[s].who = o.who /\ objects'[s].relo = o.relo
        /\ objects'[d].life = o.life /\ objects'[d].asked = o.asked
        /\ objects'[d].who = objects[d].who /\ objects'[d].relo = objects[d].relo
        /\ \A x \in Slots \ {s, d} : objects'[x] = objects[x]
    BY <1>1, <2>1 DEF TypeOK, Objects, Null
  <2>3. base.nothrowMove \in BOOLEAN
    BY <1>1 DEF TypeOK
  <2>4. terminated' \in BOOLEAN /\ failed' \in BOOLEAN
    BY <2>1, <2>3, Zenon
  <2>5. TypeOK'
    <3>1. \A x \in Slots : {objects'[x].who, objects'[x].life, objects'[x].relo}
                              \subseteq Instances' \cup {Null}
      BY <1>1, <2>1, <2>2, <2>4, ObjectTypes DEF TypeOK, Instances
    <3>2. /\ mocks' \in Seq(Mocks) /\ ended' \subseteq Instances'
          /\ seen' \subseteq Instances' /\ overwritten' \subseteq Instances'
      BY <1>1, <2>1, <2>2, <2>4 DEF TypeOK, Instances
    <3>3. base' = base /\ objects' \in [Slots -> Objects]
      BY <1>1, <2>1, <2>2, <2>4
    <3>4. failed' \in BOOLEAN /\ terminated' \in BOOLEAN
      BY <1>1, <2>1, <2>2, <2>4, Zenon DEF TypeOK
    <3> QED BY <1>1, <3>1, <3>2, <3>3, <3>4 DEF TypeOK
  <2>6. WatchedByOne'
    BY <1>1, <2>2 DEF IInv, WatchedByOne
  <2>7. AskedOnce'
    BY <1>1, <2>1, <2>2, ObjectTypes DEF IInv, AskedOnce
  <2>8. FollowedOrReported' /\ DestructionsAreWatched'
    BY <2>1 DEF FollowedOrReported, DestructionsAreWatched
  <2> QED BY <2>5, <2>6, <2>7, <2>8 DEF IInv
<1>3. CASE ~RelocationThrows(o.relo)
  <2>1. /\ objects' = [objects EXCEPT ![d] = o, ![s] = MovedFrom(o)]
        /\ mocks' = AfterRelocation(o.relo)
        /\ ended' = ended \cup lost
        /\ overwritten' = overwritten \cup lost
        /\ UNCHANGED <<failed, terminated>>
    BY <1>3 DEF MoveAssign
  <2>2. /\ objects' \in [Slots -> Objects]
        /\ objects'[d] = o
        /\ objects'[s].who = Null /\ objects'[s].life = Null /\ objects'[s].relo = Null
        /\ \A x \in Slots \ {s, d} : objects'[x] = objects[x]
        /\ mocks' \in Seq(Mocks) /\ Instances' = Instances
        /\ \A m \in Instances : mocks'[m].destruct = mocks[m].destruct
        /\ WatchedByOne' /\ AskedOnce'
    BY <1>1, <1>3, <2>1, HandOver
  <2>3. TypeOK'
    BY <1>1, <2>1, <2>2 DEF TypeOK
  <2>4. FollowedOrReported'
    BY <1>1, <2>1, <2>2 DEF IInv, FollowedOrReported
  <2>5. DestructionsAreWatched'
    BY <1>1, <2>1, <2>2 DEF IInv, DestructionsAreWatched
  <2> QED BY <2>2, <2>3, <2>4, <2>5 DEF IInv
<1> QED BY <1>2, <1>3

LEMMA SelfMoveAssignKeepsInvariant ==
    ASSUME IInv, NEW s \in Slots, SelfMoveAssign(s)
    PROVE  IInv'
<1> DEFINE n == objects[s].relo
<1>1. /\ TypeOK /\ n \in Instances
      /\ UNCHANGED <<base, objects, ended, seen, overwritten>>
  BY ObjectTypes DEF IInv, SelfMoveAssign
<1>2. CASE RelocationThrows(n)
  <2>1. failed' = TRUE /\ terminated' = base.nothrowMove /\ mocks' = mocks
    BY <1>2 DEF SelfMoveAssign
  <2>2. base.nothrowMove \in BOOLEAN
    BY <1>1 DEF TypeOK
  <2>3. terminated' \in BOOLEAN /\ failed' \in BOOLEAN
    BY <2>1, <2>2, Zenon
  <2>4. TypeOK'
    BY <1>1, <2>1, <2>3 DEF TypeOK, Instances
  <2>5. WatchedByOne' /\ AskedOnce'
    BY <1>1, <2>1 DEF IInv, WatchedByOne, AskedOnce
  <2>6. FollowedOrReported' /\ DestructionsAreWatched'
    BY <2>1 DEF FollowedOrReported, DestructionsAreWatched
  <2> QED BY <2>4, <2>5, <2>6 DEF IInv
<1>3. CASE ~RelocationThrows(n)
  <2>1. mocks' = AfterRelocation(n) /\ UNCHANGED <<failed, terminated>>
    BY <1>3 DEF SelfMoveAssign
  <2>2. /\ mocks' \in Seq(Mocks) /\ Instances' = Instances
        /\ \A m \in Instances : mocks'[m].destruct = mocks[m].destruct
    BY <1>1, <1>3, <2>1, RelocationCalled DEF Instances
  <2>3. TypeOK'
    BY <1>1, <2>1, <2>2 DEF TypeOK
  <2>4. WatchedByOne' /\ FollowedOrReported'
    BY <1>1, <2>1 DEF IInv, WatchedByOne, FollowedOrReported
  <2>5. AskedOnce'
    BY <1>1, <2>2, ObjectTypes DEF IInv, AskedOnce
  <2>6. DestructionsAreWatched'
    BY <1>1, <2>1, <2>2 DEF IInv, DestructionsAreWatched
  <2> QED BY <2>3, <2>4, <2>5, <2>6 DEF IInv
<1> QED BY <1>2, <1>3

LEMMA CopyAssignKeepsInvariant ==
    ASSUME IInv, NEW d \in Slots, CopyAssign(d)
    PROVE  IInv'
<1> DEFINE o == objects[d]
           n == Len(mocks) + 1
<1>1. /\ TypeOK /\ o \in Objects
      /\ o.who \in Instances \cup {Null} /\ o.life \in Instances \cup {Null}
      /\ UNCHANGED <<base, overwritten, failed, terminated>>
  BY ObjectTypes DEF IInv, CopyAssign
<1>2. CASE DestructionThrows(o.life)
  <2>1. /\ objects' = [objects EXCEPT ![d].life = Null]
        /\ seen' = seen \cup {o.life}
        /\ UNCHANGED <<mocks, ended>>
    BY <1>2 DEF CopyAssign
  <2>2. /\ objects' \in [Slots -> Objects]
        /\ objects'[d].life = Null
        /\ objects'[d].who = o.who /\ objects'[d].relo = o.relo
        /\ \A x \in Slots \ {d} : objects'[x] = objects[x]
    BY <1>1, <2>1 DEF TypeOK, Objects, Null
  <2>3. o.life # Null
    BY <1>2 DEF DestructionThrows
  <2>4. TypeOK'
    BY <1>1, <2>1, <2>2, <2>3 DEF TypeOK, Instances
  <2>5. WatchedByOne' /\ AskedOnce'
    BY <2>1, <2>2 DEF IInv, WatchedByOne, AskedOnce
  <2>6. FollowedOrReported'
    BY <1>1, <2>1, <2>2 DEF IInv, FollowedOrReported
  <2>7. DestructionsAreWatched'
    BY <1>1, <2>1 DEF IInv, DestructionsAreWatched, Instances
  <2> QED BY <2>4, <2>5, <2>6, <2>7 DEF IInv
<1>3. CASE ~DestructionThrows(o.life)
  <2> DEFINE fulfilled == AfterDestruction(o.life)
  <2>1. /\ objects' = [objects EXCEPT ![d] = Watched(n, n, n, FALSE)]
        /\ mocks' = Append(fulfilled, NewMocks)
        /\ ended' = ended \cup ({o.who} \ {Null})
        /\ seen' = seen
    BY <1>3 DEF CopyAssign
  <2>2. /\ fulfilled \in Seq(Mocks) /\ DOMAIN fulfilled = Instances
        /\ Len(fulfilled) = Len(mocks)
        /\ o.life # Null => /\ fulfilled[o.life].destruct = "fulfilled"
                            /\ mocks[o.life].destruct = "expected"
        /\ \A m \in Instances : m # o.life => fulfilled[m] = mocks[m]
    BY <1>1, <1>3, DestructionCalled
  <2>3. /\ mocks' \in Seq(Mocks)
        /\ Instances' = Instances \cup {n}
        /\ n \notin Instances /\ n \in Nat \ {Null}
        /\ mocks'[n].destruct = "none"
        /\ \A m \in Instances : mocks'[m] = fulfilled[m]
    <3> HIDE DEF fulfilled
    <3>1. NewMocks.destruct = "none"
      BY DEF NewMocks
    <3> QED BY <2>1, <2>2, <3>1, MockAppended DEF Instances
  <2>4. /\ objects' \in [Slots -> Objects]
        /\ objects'[d].who = n /\ objects'[d].life = n /\ objects'[d].relo = n
        /\ objects'[d].asked = FALSE
        /\ \A x \in Slots \ {d} : objects'[x] = objects[x]
    BY <1>1, <2>1, <2>3, WatchedParts DEF TypeOK
  <2> HIDE DEF n, fulfilled
  <2>5. TypeOK'
    <3>1. \A x \in Slots : {objects'[x].who, objects'[x].life, objects'[x].relo}
                              \subseteq Instances' \cup {Null}
      <4> TAKE x \in Slots
      <4>1. CASE x = d
        BY <2>3, <2>4, <4>1
      <4>2. CASE x # d
        <5>1. objects'[x] = objects[x]
          BY <2>4, <4>2
        <5>2. {objects[x].who, objects[x].life, objects[x].relo}
                  \subseteq Instances \cup {Null}
          BY <1>1, ObjectTypes
        <5> QED BY <2>3, <5>1, <5>2
      <4> QED BY <4>1, <4>2
    <3>2. /\ mocks' \in Seq(Mocks) /\ ended' \subseteq Instances'
          /\ seen' \subseteq Instances' /\ overwritten' \subseteq Instances'
      BY <1>1, <2>1, <2>3, <2>4 DEF TypeOK
    <3>3. base' = base /\ objects' \in [Slots -> Objects]
      BY <1>1, <2>1, <2>3, <2>4
    <3>4. failed' \in BOOLEAN /\ terminated' \in BOOLEAN
      BY <1>1, <2>1, <2>3, <2>4, Zenon DEF TypeOK
    <3> QED BY <1>1, <3>1, <3>2, <3>3, <3>4 DEF TypeOK
  <2>6. WatchedByOne'
    BY <1>1, <2>3, <2>4, ObjectTypes DEF IInv, WatchedByOne
  <2>7. AskedOnce'
    <3> SUFFICES ASSUME NEW x \in Slots \ {d}, objects[x].life # Null
                 PROVE  objects[x].asked <=> mocks'[objects[x].life].destruct # "none"
      BY <2>3, <2>4 DEF AskedOnce
    <3> DEFINE m == objects[x].life
    <3>1. m \in Instances /\ m # o.life
      BY <1>1, ObjectTypes DEF IInv, WatchedByOne
    <3>2. mocks'[m] = mocks[m]
      BY <2>2, <2>3, <3>1
    <3> QED BY <3>2 DEF IInv, AskedOnce
  <2>8. FollowedOrReported'
    BY <1>1, <2>1, <2>4 DEF IInv, FollowedOrReported
  <2>9. DestructionsAreWatched'
    <3> SUFFICES ASSUME ~failed, NEW m \in Instances \cup {n}
                 PROVE  /\ mocks'[m].destruct = "fulfilled" => m \in ended'
                        /\ m \in ended' => \/ mocks'[m].destruct = "fulfilled"
                                          \/ m \in seen \cup overwritten
      BY <1>1, <2>1, <2>3 DEF DestructionsAreWatched
    <3>1. CASE m = n
      BY <1>1, <2>1, <2>3, <3>1 DEF TypeOK
    <3>2. CASE m # n
      <4>1. /\ m \in Instances /\ m # Null
            /\ mocks'[m] = fulfilled[m]
        BY <1>1, <2>3, <3>2 DEF TypeOK, Instances, Null
      <4>2. \/ o.life = o.who
            \/ o.life = Null /\ o.who \in seen
        BY DEF IInv, FollowedOrReported
      <4>3. /\ mocks[m].destruct = "fulfilled" => m \in ended
            /\ m \in ended => \/ mocks[m].destruct = "fulfilled"
                              \/ m \in seen \cup overwritten
        BY <4>1 DEF IInv, DestructionsAreWatched
      <4> QED BY <2>1, <2>2, <4>1, <4>2, <4>3
    <3> QED BY <3>1, <3>2
  <2> QED BY <2>5, <2>6, <2>7, <2>8, <2>9 DEF IInv
<1> QED BY <1>2, <1>3

-----------------------------------------------------------------------------
\* The invariant is inductive.
LEMMA StepKeepsInvariant == IInv /\ [Next]_vars => IInv'
<1> SUFFICES ASSUME IInv, [Next]_vars PROVE IInv'
  OBVIOUS
<1>1. CASE Next
  <2>1. ASSUME NEW s \in Slots,
               \/ Construct(s)
               \/ ExpectDestruct(s) \/ ExpectRelocate(s)
               \/ Destroy(s)
               \/ SelfMoveAssign(s)
               \/ CopyAssign(s)
        PROVE  IInv'
    BY <2>1, ConstructKeepsInvariant, ExpectDestructKeepsInvariant,
       ExpectRelocateKeepsInvariant, DestroyKeepsInvariant,
       SelfMoveAssignKeepsInvariant, CopyAssignKeepsInvariant
  <2>2. ASSUME NEW s \in Slots, NEW d \in Slots, MoveConstruct(s, d) \/ MoveAssign(s, d)
        PROVE  IInv'
    BY <2>2, MoveConstructKeepsInvariant, MoveAssignKeepsInvariant
  <2>3. ASSUME NEW n \in Instances, DropExpectations(n)
        PROVE  IInv'
    BY <2>3, DropExpectationsKeepsInvariant
  <2> QED BY <1>1, <2>1, <2>2, <2>3 DEF Next
<1>2. CASE UNCHANGED vars
  BY <1>2 DEF vars, IInv, TypeOK, WatchedByOne, AskedOnce, FollowedOrReported,
              DestructionsAreWatched, Instances
<1> QED BY <1>1, <1>2

LEMMA InvariantHolds == Spec => []IInv
  BY InitEstablishesInvariant, StepKeepsInvariant, PTL DEF Spec

\* Watchers refer to mocks that exist, and no relocation is accepted beyond the
\* expected ones, whatever moves and failures came before.
THEOREM TypeCorrect == Spec => []TypeOK
<1>1. IInv => TypeOK
  BY DEF IInv
<1> QED BY <1>1, InvariantHolds, PTL

\* m_HasDestructExpectation is moved and reset along with the mock: it says of
\* every mock that is held whether it had a destruct-expectation.
THEOREM ExpectationsAreAskedOnce == Spec => []AskedOnce
<1>1. IInv => AskedOnce
  BY DEF IInv
<1> QED BY <1>1, InvariantHolds, PTL

\* As long as no move was reported, no destruction escapes the watcher, and a
\* fulfilled destruct-expectation means that the object is gone.
THEOREM NoDestructionEscapes == Spec => []DestructionsAreWatched
<1>1. IInv => DestructionsAreWatched
  BY DEF IInv
<1> QED BY <1>1, InvariantHolds, PTL
=============================================================================
