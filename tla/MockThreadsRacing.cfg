SPECIFICATION FairSpec
CONSTANTS
    a = a
    b = b
    s1 = s1
    m1 = m1
    m2 = m2
    t1 = t1
    t2 = t2
    Mocks = {m1, m2}
    IntMax = 2
    IdMax = 5
    Threads = {t1, t2}
    Seqs = {}
    Args = {a}
    Strategy <- Lazy
    Limits <- FewLimits
    Attachments <- NoSequences
    Verdicts <- AnyVerdict
    SideEffects = {"return", "throw"}
    Nested <- NestedInEffects
    MaxExpectations = 2
    MaxCalls = 3
INVARIANTS
    ThreadsTypeOK
    UsesOnlyLiveExpectations
    MatchesStayApplicable
    NoDeadlock
PROPERTIES
    CallsAreAtomic
    CallsEnd
CHECK_DEADLOCK FALSE
