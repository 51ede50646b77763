SPECIFICATION Spec
CONSTANTS
    u1 = u1
    u2 = u2
    c1 = c1
    c2 = c2
    c3 = c3
    a1 = a1
    a2 = a2
    a3 = a3
    b1 = b1
    Staff = {a1}
    Bots = {b1}
    Assignees = {u1}
    Contacts = {c1, c2}
    Starts = {0}
    Duration = 1
    DayLength = 5
    Pre = 0
    Post = 0
    MaxPerSlot = 1
    MaxPerDay = 2
    Statuses = {"SCHEDULED", "CANCELED"}
    RetryLimit = 3
    MaxRequests = 2
INVARIANTS NoDoubleBooking
CHECK_DEADLOCK FALSE
