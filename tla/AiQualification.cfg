SPECIFICATION Spec
CONSTANTS
    None = None
    n1 = n1
    n2 = n2
    n3 = n3
    openai = openai
    claude = claude
    Nodes <- TwoNodes
    Services <- OneService
    ServiceOrder <- OneOrder
    Systemic <- OneService
    Region <- RegionEach
    Sentinel <- EveryNode
    PassTTL <- PassOne
    FailTTL <- FailZero
    Minimum <- AtLeastOne
    MaxAge = 1
    MaxRecords = 1
    MaxDrift = 1
    MaxLate = 0
    MaxTime = 4
INVARIANTS
    PublishedPoolsAreProven
    ExclusionsAreRecent
PROPERTIES
    RecordedVerdictsSurvive
