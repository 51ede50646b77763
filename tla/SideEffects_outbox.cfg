\* A notification and a file; three executions overlap; three faults of any kind.
SPECIFICATION FairEffectsSpec
CONSTANTS
    n1 = n1
    f1 = f1
    x1 = x1
    x2 = x2
    x3 = x3
    Effects = {n1, f1}
    Files = {f1}
    Executions = {x1, x2, x3}
    MaxEffectAttempts = 2
    MaxEffectFaults = 3
INVARIANTS CompletedIsEmitted GivenUpLast
PROPERTIES EffectsSettle
\* When every row has ended there is nothing left to do.
CHECK_DEADLOCK FALSE
