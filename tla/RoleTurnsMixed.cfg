\* A builder and the checker, dispatched either way; one command survives its shell.
SPECIFICATION FairSpec
CONSTANTS
    Items = 1
    Repairs = 1
    Modes <- MCBoth
    Survivors = 1
INVARIANTS
    TypeOK
    OwnEvidence
PROPERTIES
    EveryTurnIsAnswered
\* A run ends: its last state has no successor.
CHECK_DEADLOCK FALSE
