SPECIFICATION ProductionSpec
CONSTANTS
    Contents = {a, b}
    None = None
    SloWindow = 2
    Nothing = Nothing
    Broken = Broken
    MaxRuns = 2
    MaxFailures = 2
    TrendWindow = 3
    EvidenceRuns = 2
    NoMetrics = NoMetrics
    BrokenMetrics = BrokenMetrics
    Published = {c1}
    Generated = Generated
    Horizon = 3
INVARIANTS
    UnsettledCandidateIsKept
    PreservedPreviousIsExact
    PromotedAgainstLive
    OutcomeIsOfThisAttempt
    RingIsTrue
    StreakIsTrue
PROPERTIES
    DerivedStateFollowsRelease
CHECK_DEADLOCK FALSE
