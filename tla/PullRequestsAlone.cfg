\* One run alone in its repository, every call answered.
CONSTANTS
    p = p  q = q
    none = none  old = old  new = new  other = other
    Paths <- MCPaths
    Contents <- MCContents
    Absent = none
    BaseTree <- MCBase
    Turns <- MCTurns
    N = 2
    MaxIterations = 2
    Faults = FALSE
    MaxOutside = 0
SPECIFICATION Spec
INVARIANTS
    TypeOK
    ReportMatchesGitHub
PROPERTIES
    LandsWhatWasGated
    ForeignWorkSurvives
\* A run ends: its last state has no successor.
CHECK_DEADLOCK FALSE
