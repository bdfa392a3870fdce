\* The default branch moves between the run's base and the publication.
CONSTANTS
    p = p  q = q
    none = none  old = old  new = new  other = other
    Paths <- MCPaths
    Contents <- MCFewContents
    Absent = none
    BaseTree <- MCBase
    Turns <- MCFewTurns
    N = 2
    MaxIterations = 2
    Faults = FALSE
    MaxOutside = 1
SPECIFICATION Spec
PROPERTY
    ForeignWorkSurvives
\* A run ends: its last state has no successor.
CHECK_DEADLOCK FALSE
