\* Two members of staff and an automation book, move, cancel and delete for two assignees. A
\* session whose requests are used up may stop.
SPECIFICATION Spec
CONSTANTS
    u1 = u1
    u2 = u2
    c1 = c1
    c2 = c2
    c3 = c3
    a1 = a1
    a2 = a2
    a3 = a3
    b1 = b1
    Staff = {a1, a2}
    Bots = {b1}
    Assignees = {u1, u2}
    Contacts = {c1, c2}
    Starts = {0, 1, 2, 4}
    Duration = 1
    DayLength = 6
    Pre = 2
    Post = 1
    MaxPerSlot = 1
    MaxPerDay = 2
    Statuses = {"SCHEDULED", "CANCELED"}
    RetryLimit = 2
    MaxRequests = 3
INVARIANTS StaffNeverDoubleBook DayLimitKept ContactFree BufferKept EventsTellStatus
SYMMETRY MCSymmetry
CHECK_DEADLOCK FALSE
