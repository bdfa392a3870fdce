\* Two runs with a pull request each, in a session that takes one; the threshold
\* covers one round, so that a repair may be beyond it.
CONSTANTS
    r1 = r1  r2 = r2
    Runs <- MCTwoRuns
    MaxConcurrent = 1
    Repairs = 1
    MaxIterations = 1
    Faults = FALSE
SPECIFICATION Spec
INVARIANT
    LimitKept
\* The session is over when every run is.
CHECK_DEADLOCK FALSE
