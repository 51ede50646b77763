\* Two executions overlap after stalls and crashes; a cancel may come at any time,
\* and staff create a contact with one of the keys of the file.
SPECIFICATION FairSpec
CONSTANTS
    w1 = w1
    w2 = w2
    k1 = k1
    k2 = k2
    NoWorker = NoWorker
    Workers = {w1, w2}
    Keys = {k1, k2}
    NRows = 2
    BatchRows = 2
    MaxAttempts = 2
    MaxClaims = 3
    MaxFaults = 1
    StaffContacts = {k2}
INVARIANTS RowsOnce CompletedAccounts
PROPERTIES SkipsExisting CancelStops ImportEnds
\* An import that has ended stays as it is.
CHECK_DEADLOCK FALSE
