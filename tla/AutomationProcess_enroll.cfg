\* Two instances enroll two batches; one may stall, a statement or an instance may fail, and
\* two requests may start the process.
SPECIFICATION FairSpec
CONSTANTS
    w1 = w1
    w2 = w2
    Workers = {w1, w2}
    NBatches = 2
    BatchSize = 1
    MaxAttempts = 2
    MaxFaults = 1
    MaxStalls = 1
    Deletable <- MCDeletable
    MaxStarts = 2
INVARIANTS EnrolledOnce CompletedIsAnswered
PROPERTIES ProcessEnds
\* A process that has ended stays as it is.
CHECK_DEADLOCK FALSE
