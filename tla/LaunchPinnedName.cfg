SPECIFICATION MCSpec
CONSTANTS
    JobIds = {j1, j2}
    Hooks = {h1, h2}
    MaxClock = 3
    l1 = l1
    l2 = l2
    l3 = l3
    Launches = {l1, l2, l3}
    RootOf <- MCRootOf
    MaxEnds = 2
    Procs = {p1, p2}
    JobFiles = {f1, f2}
    MaxBreaks = 1
    Readers = {r1, r2}
    MaxPhase = 1
    MaxFails = 1
    r1 = r1
    r2 = r2
    c1 = c1
    c2 = c2
    c3 = c3
    d1 = d1
    d2 = d2
    d3 = d3
    Deps = {d1, d2, d3}
    MainHolds <- MCMainHolds
    Commands = {c1, c2, c3}
    Paths = {w1}
    MaxSlips = 2
    Callers = {c1, c2, c3}
    Slots = {"default", "other"}
    Texts = {t1, t2}
    Kinds = {"implement", "tournament"}
    Keys = {k1, k2}
    TextPairs <- MCTextPairs
    Blank = ""
    Context = 1
    MaxLines = 5
    ClaudeRows <- MCRows
    Registry <- MCRegistry
    AlphaWords = {"astra", "kimi", "glm", "opus", "haiku"}
    Ladder <- MCLadder
    ClaudeLadder = {"low", "high", "xhigh", "max"}
    Fallback = "xhigh"
    Roles = {"implementer", "implementation-reviewer"}
    InlineRoles = {"implementation-reviewer"}
    BuiltIn <- MCBuiltIn
    ConfigCalls = {g1, g2}
    Changes <- MCChanges
    Catalogs <- MCCatalogs
    FlagSets <- MCFlags
    Tasks = {"t1", "t2", "t3"}
    Claudes = {"s1"}
    Codexes = {"x1", "x2"}
    Profiles <- MCProfiles
    MaxRows = 2
INVARIANTS
    PinnedModelRuns
\* A session is over when its jobs are, and its hooks have run.
CHECK_DEADLOCK FALSE
