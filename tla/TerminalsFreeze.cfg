\* One shell and a viewer that follows it; the third chunk is more than the buffer keeps.
CONSTANTS
    DevSessions = {"d"}
    RoleSessions = {}
    Recreating = {}
    DevFolders = {"clone"}
    Within <- Alone
    Start = "clone"
    Viewers = {"v"}
    MaxShells = 1
    MaxChunks = 3
    Cap = 2
    Torn = {}
    KeepWorkspaces = 0
SPECIFICATION TerminalsSpec
PROPERTY
    NewBytesAppear
\* Shells and chunks are bounded.
CHECK_DEADLOCK FALSE
