\* A service event with two dispatches, with up to three faults: a crash, a worker that is overtaken
\* (its leases expire while it lives), transient errors that exhaust the retries, a commit whose
\* acknowledgement is lost; and staff steps. A closed event is the end, so the system may stop.
SPECIFICATION FairSpec
CONSTANTS
    N = 2
    Decision <- MCDecision
    ServiceEvent = TRUE
    Retries = 1
    MaxCrashes = 1
    MaxStalls = 2
    MaxThrows = 2
    MaxLost = 1
    MaxFaults = 3
CHECK_DEADLOCK FALSE
INVARIANTS ClosedEventAccounts RunMatchesDispatch ActionsAtMostOnce
PROPERTIES KeepsPromise NoRunAfterSupersede EventCloses
