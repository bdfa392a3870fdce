\* Calls fail, and others touch the repository or the settings once.
CONSTANTS
    p = p  q = q
    none = none  old = old  new = new  other = other
    Paths <- MCPaths
    Contents <- MCFewContents
    Absent = none
    BaseTree <- MCBase
    Turns <- MCFewTurns
    N = 2
    MaxIterations = 2
    Faults = TRUE
    MaxOutside = 1
SPECIFICATION FairSpec
INVARIANTS
    SettledIsProven
    RepairIsBounded
    VerdictMatchesPullRequests
PROPERTIES
    OutageIsNotRepaired
    ImplementsDelivery
    EventuallySettles
\* A run ends: its last state has no successor.
CHECK_DEADLOCK FALSE
