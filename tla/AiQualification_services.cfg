SPECIFICATION Spec
CONSTANTS
    None = None
    n1 = n1
    n2 = n2
    n3 = n3
    openai = openai
    claude = claude
    Nodes <- OneNode
    Services <- TwoServices
    ServiceOrder <- TwoOrder
    Systemic <- OneService
    Region <- RegionOne
    Sentinel <- OnlyNode
    PassTTL <- PassOne
    FailTTL <- FailZero
    Minimum <- AtLeastOne
    MaxAge = 1
    MaxRecords = 1
    MaxDrift = 1
    MaxLate = 1
    MaxTime = 4
INVARIANTS
    AdmissionsAreProven
PROPERTIES
    FreshVerdictsSurvive
