SPECIFICATION Spec
CONSTANTS
    None = None
    n1 = n1
    n2 = n2
    n3 = n3
    openai = openai
    claude = claude
    Nodes <- ThreeNodes
    Services <- OneService
    ServiceOrder <- OneOrder
    Systemic <- OneService
    Region <- TwoRegions
    Sentinel <- FirstOfRegion
    PassTTL <- PassOne
    FailTTL <- FailZero
    Minimum <- AtLeastOne
    MaxAge = 1
    MaxRecords = 3
    MaxDrift = 1
    MaxLate = 1
    MaxTime = 3
PROPERTIES
    SystemicWritesNothing
CHECK_DEADLOCK FALSE
