SPECIFICATION Spec
CONSTANTS
    o1 = o1
    o2 = o2
    Slots = {o1, o2}
    MaxInstances = 3
    MaxRelocations = 1
SYMMETRY SlotSymmetry
INVARIANTS
    FulfilledMeansDestroyed
CHECK_DEADLOCK FALSE
