\* Two instances work on a file or a link that is edited, retried and removed, through crashes,
\* expired leases and failing calls.
SPECIFICATION FairSpec
CONSTANTS
    w1 = w1
    w2 = w2
    file = file
    link = link
    u1 = u1
    u2 = u2
    Workers = {w1, w2}
    Requests = {file, link}
    KindOf <- MCKind
    Urls = {u1, u2}
    Limit = 2
    MaxAttempts = 2
    MaxRows = 1
    MaxUploads = 2
    MaxEdits = 2
    MaxFaults = 2
INVARIANTS ReadyIsCurrent OriginalKept
PROPERTIES RemovedStaysRemoved SourcesSettle FilesRemoved
\* When everything is settled there may be nothing left to do.
CHECK_DEADLOCK FALSE
