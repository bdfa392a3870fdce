\* A builder's failed repair decides the round of a later pull request.
CONSTANTS
    p = p  q = q
    none = none  old = old  new = new  other = other
    Paths <- MCPaths
    Contents <- MCFewContents
    Absent = none
    BaseTree <- MCBase
    Turns <- MCFewTurns
    N = 2
    MaxIterations = 2
    Faults = FALSE
    MaxOutside = 0
SPECIFICATION Spec
PROPERTY
    OutcomesAreIndependent
\* A run ends: its last state has no successor.
CHECK_DEADLOCK FALSE
