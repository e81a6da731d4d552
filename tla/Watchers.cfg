SPECIFICATION Spec
CONSTANTS
    o1 = o1
    o2 = o2
    Slots = {o1, o2}
    MaxInstances = 3
    MaxRelocations = 1
SYMMETRY SlotSymmetry
INVARIANTS
    TypeOK
    DestructionsAreWatched
    AskedOnce
CHECK_DEADLOCK FALSE
