SPECIFICATION FairSpec
CONSTANTS
    Names = {n1, n2}
    NoRecord = NoRecord
    NoDocument = NoDocument
    Malformed = Malformed
    Scale = 100
    MinSuccess = 80
    RecoverSuccess = 90
    MinRuns = 2
    DemoteAfter = 2
    PolicyMaxAge = 1
    MaxAge = 2
    MaxRecords = 1
    Gaps = {1, 2}
INVARIANTS
    ReturnIsEarned
    FailuresAreRuns
PROPERTIES
    StableNodeReturns
