\* One run with two pull requests, and everything that may go wrong.
CONSTANTS
    r1 = r1  r2 = r2
    Runs <- MCOneRun
    MaxConcurrent = 1
    Repairs = 2
    MaxIterations = 2
    Faults = TRUE
SPECIFICATION FairSpec
INVARIANTS
    TypeOK
    InterruptedIsDead
    FailedIsPermanent
PROPERTIES
    VerdictIsFinal
    
    EveryRunIsAnswered
\* The session is over when every run is.
CHECK_DEADLOCK FALSE
