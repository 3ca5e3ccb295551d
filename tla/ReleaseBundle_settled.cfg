SPECIFICATION FairSpec
CONSTANTS
    None = None
    Empty = Empty
    c1 = c1
    c2 = c2
    c3 = c3
    i1 = i1
    i2 = i2
    i3 = i3
    Contents <- ThreeContents
    ReleaseIds <- ThreeIds
    ReleaseIdOf <- ThreeIdOf
    Settled = TRUE
    MaxFaults = 3
INVARIANTS
    QuiescentIsHealthy
    ReportIsTruthful
    PublishedIsComplete
PROPERTIES
    IntentIsMonotonic
    ImplementsRegister
    InterruptedReleaseIsFinished
