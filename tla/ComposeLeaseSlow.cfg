\* Live holders may outlast the lease.
CONSTANTS
    r1 = r1  r2 = r2  r3 = r3  none = none
    Runs <- MCRuns
    NoRun = none
    Slow = TRUE
SPECIFICATION Spec
INVARIANTS
    TypeOK
    EvictedOutlasted
\* Once every run has composed, raised or hung there is nothing left to do.
CHECK_DEADLOCK FALSE
