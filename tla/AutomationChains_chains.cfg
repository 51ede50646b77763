\* One chain of two automations that claim their place and two that do not; two sessions.
SPECIFICATION FairSpec
CONSTANTS
    n1 = n1
    n2 = n2
    s1 = s1
    s2 = s2
    NoRun = NoRun
    Autos = {1, 2, 3, 4}
    Open = {3, 4}
    Nodes = {n1, n2}
    Effect <- MCEffect
    Yields = {2}
    Sessions = {s1, s2}
    MaxDepth = 1
    MaxStarts = 1
    Retries = 1
    MaxChains = 1
INVARIANTS StartedOnce
PROPERTIES ChainsEnd
\* A chain that has ended stays so.
CHECK_DEADLOCK FALSE
