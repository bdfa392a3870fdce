CONSTANTS
    Items = {"i1"}
    Labels <- RoleAndWork
    Attempts = 2
    Rounds = 2
    Outlive = TRUE
    MaxOutside = 2
SPECIFICATION FairSpec
INVARIANTS TypeOK ReportIsTrue
PROPERTIES NoBlindWrite PublicationsEnd
CHECK_DEADLOCK FALSE
