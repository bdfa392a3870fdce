\* Only a holder that hangs outlasts the lease.
CONSTANTS
    r1 = r1  r2 = r2  r3 = r3  none = none
    Runs <- MCRuns
    NoRun = none
    Slow = FALSE
SPECIFICATION FairSpec
INVARIANT
    EvidenceIsOwn
PROPERTIES
    ImplementsEvidenceLog
    EveryoneIsLetIn
\* Once every run has composed, raised or hung there is nothing left to do.
CHECK_DEADLOCK FALSE
