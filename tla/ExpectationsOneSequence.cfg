SPECIFICATION Spec
CONSTANTS
    a = a
    b = b
    s1 = s1
    s2 = s2
    m1 = m1
    m2 = m2
    IntMax = 2
    IdMax = 1
    Mocks = {m1}
    Seqs = {s1, s2}
    Args = {a}
    Strategy <- OneLazyOneGreedy
    Limits <- ExtremeLimits
    Attachments <- AtMostOneSequence
    Verdicts <- AnyVerdicts
    SideEffects = {"return", "throw"}
    MaxExpectations = 3
INVARIANTS
    TypeOK
    EntriesFollowCounts
    CursorSkipsOnlyFulfilled
PROPERTIES
    LastCreatedIsUsed
    LazyMakesLeastProgress
    GreedyMakesMostProgress
CHECK_DEADLOCK FALSE
