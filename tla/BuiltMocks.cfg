SPECIFICATION Spec
CONSTANTS
    Programs <- AllPrograms
    Matches <- MatchesHook
    Describe <- DescribeHook
    IsTrueOf <- Says
    MaxCalls = 2
    MaxExpectations = 2
    Unlimited = 9
INVARIANTS
    TypeOK
    OverloadsAreCallable
    CallsReachTheirOverload
    ExpectationsServeTheirOverload
    MatchersTellTheTruth
    UsedExpectationAcceptsCall
    EffectsInOrder
    ReportsTellTheTruth
    ReportAssertionsHold
    ReportersOutliveTheirReports
    TracesBeginAtTheCaller
CHECK_DEADLOCK FALSE
