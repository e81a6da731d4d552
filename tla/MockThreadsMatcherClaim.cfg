SPECIFICATION SpecThreads
CONSTANTS
    a = a
    b = b
    s1 = s1
    m1 = m1
    m2 = m2
    t1 = t1
    t2 = t2
    Mocks = {m1, m2}
    IntMax = 2
    IdMax = 5
    Threads = {t1}
    Seqs = {s1}
    Args = {a}
    Strategy <- Lazy
    Limits <- UnitLimits
    Attachments <- AtMostOneSequence
    Verdicts <- MatchOrNot
    SideEffects = {"return"}
    Nested <- NestedInMatchers
    MaxExpectations = 3
    MaxCalls = 1
INVARIANTS
    AssertionsHold
CHECK_DEADLOCK FALSE
