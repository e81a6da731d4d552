SPECIFICATION Spec
CONSTANTS
    a = a
    b = b
    s1 = s1
    s2 = s2
    m1 = m1
    m2 = m2
    IntMax = 2
    IdMax = 5
    Mocks = {m1}
    Seqs = {s1, s2}
    Args = {a, b}
    Strategy <- OneLazyOneGreedy
    Limits <- UnitLimits
    Attachments <- AtMostOneSequence
    Verdicts <- BothOrOne
    SideEffects = {"return"}
    MaxExpectations = 3
INVARIANTS
    RefusingSequencesHaveHeads
CHECK_DEADLOCK FALSE
