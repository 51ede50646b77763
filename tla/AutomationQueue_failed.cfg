\* The acknowledgement of one segment is lost. A closed event is the end, so the system may stop.
SPECIFICATION Spec
CONSTANTS
    N = 2
    Decision <- MCDecision
    ServiceEvent = FALSE
    Retries = 1
    MaxCrashes = 0
    MaxStalls = 0
    MaxThrows = 0
    MaxLost = 1
    MaxFaults = 1
CHECK_DEADLOCK FALSE
INVARIANTS CommittedIsNotFailed
