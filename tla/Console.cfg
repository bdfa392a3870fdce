\* One part at a time, each with the actors that race for its state.
CONSTANTS
    Roles = {"builder", "checker"}
    Harnessed = {"builder"}
    Pasted = {11}
    Env <- NoEnv
    Editors = {"e1"}
    Dispatchers = {"d1"}
    MaxDeploys = 2
    MaxEdits = 2
    AwsFails = TRUE
    Repos = {"r1", "r2"}
    EnvRepo = ""
    Doctors = {"d1", "d2"}
    Keys = {"k1", "k2"}
    Savers = {"s1", "s2"}
    MaxTurns = 1
    MaxSaves = 3
    VaultFails = TRUE
    DevSessions = {"d"}
    RoleSessions = {"p"}
    Recreating = {"p"}
    DevFolders = {"clone", "sub"}
    Within <- Nested
    Start = "clone"
    Viewers = {"v"}
    MaxShells = 2
    MaxChunks = 2
    Cap = 2
    Torn = {1}
    KeepWorkspaces = 0
    RtSessions = {"r1"}
    RtViewers = {"w1"}
    MaxAttempts = 2
    MaxOutputs = 4
    StartSize = 80
    Measured = {120}
    Root <- HomePath
    Label <- HomeLabel
    Names <- TwoNames
    Junk <- JunkNames
    Harness <- HarnessPaths
    RootJunk = {}
    Dotted = {}
    Depth = 2
    TreeDepth = 2
    Contents = {"v1"}
    Agents = {"claude"}
    ShelfArns = {"arn1", "arn2"}
    Purposes = {"p"}
    Conversations = {"c"}
    ChatTurns = {1, 2}
    ChatMakers = {"builder"}
    ChatCheckers = {"checker"}
    MaxRemembered = 1
    MaxCalls = 1
    MaxRewired = 1
    Boxes = {"b1", "b2"}
    HistoryRuns = {"r1", "r2"}
    KeptFiles = 1
    Limit = 1
    MaxRunSaves = 3
    Makers = {"opencode", "claude", "codex"}
    Checkers = {"kiro"}
    CapabilityOf <- Capabilities
    PresetOf <- Starts
    AnyMaker = "*"
    NOwners = 2
    PullRequest = "pr1"
    KeptDirs = 1
    MaxEnded = 2
    LedgerRuns = {"r1"}
    Requests = {"q1", "q2"}
    MaxSessions = 1
    Samples <- Latencies
    Repositories <- Tracking
    MaxTouched = 1
    MaxRounds = 2
SPECIFICATION Spec
INVARIANTS
    TypeOK
    DeploymentsAreServed
    ConnectionsAreReal
    NoProcessOutlives
    StreamHasOneGap
    RunsAreSound
    OutcomeIsProven
    ShownPathsLeadBack
    MetricsAreReal
    ListsAreRight
PROPERTY
    FollowerShowsAll
\* Bounded parts come to their end.
CHECK_DEADLOCK FALSE
