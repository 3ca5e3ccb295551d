SPECIFICATION OperationsSpec
CONSTANTS
    None = None
    Empty = Empty
    c1 = c1
    c2 = c2
    c3 = c3
    i1 = i1
    i2 = i2
    i3 = i3
    Contents <- ThreeContents
    ReleaseIds <- ThreeIds
    ReleaseIdOf <- ThreeIdOf
    Settled = TRUE
    MaxFaults = 2
    Window = 0
    MaxRecords = 2
    MaxClock = 2
    RetentionFaults = 1
    Values = {old, wanted, absent}
    Wanted = wanted
    Statuses = {307, 400, 403, 404, 408, 413, 425, 429, 500, 503}
INVARIANTS
    ReferencesAreStaged
    LiveIsAccountedFor
    PartialDeletionIsRemembered
    ConclusionsAreFinal
PROPERTIES
    ImplementsContract
CHECK_DEADLOCK FALSE
