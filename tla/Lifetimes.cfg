SPECIFICATION Spec
CONSTANTS
    s1 = s1
    s2 = s2
    Seqs = {s1, s2}
    MaxObjects = 3
    MaxExpectations = 3
SYMMETRY SequenceSymmetry
INVARIANTS
    TypeOK
    NoFailureIsSilent
    UnwindingIsSafe
    ScopedReportsFirst
CHECK_DEADLOCK FALSE
