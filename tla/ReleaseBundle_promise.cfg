SPECIFICATION Spec
CONSTANTS
    None = None
    Empty = Empty
    c1 = c1
    c2 = c2
    c3 = c3
    i1 = i1
    i2 = i2
    i3 = i3
    Contents <- TwoContents
    ReleaseIds <- TwoIds
    ReleaseIdOf <- TwoIdOf
    Settled = TRUE
    MaxFaults = 1
INVARIANTS
    FailureRestoresOrReports
