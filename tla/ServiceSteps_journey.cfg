\* Two workflows gate every completion; staff, workers and payments interleave over three entries.
SPECIFICATION Spec
CONSTANTS
    a1 = a1
    a2 = a2
    Automations = {a1, a2}
    MaxSteps = 2
    MaxEntries = 3
SYMMETRY AutomationSymmetry
INVARIANTS AdvancedOnce StatusMatchesWork OnlyPastWaitStrands
PROPERTIES ObsoleteIsInert
