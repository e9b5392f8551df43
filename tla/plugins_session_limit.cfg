CONSTANTS
    r1 = r1  r2 = r2  p1 = p1  p2 = p2
    Runs = {r1, r2}
    WithToken = {r1, r2}
    None = None  Torn = Torn
    NameOf <- MCNameOf  VarOf <- MCVarOf
    Hosts = {"codex", "opencode"}
    WithHooks = {r1, r2}
    NoBuild = {r2}
    WithInstall = {r1, r2}
    Changed = {}
    SourceFaults = 1
    Clients = {"devin", "pi"}
    MaxFailures = 2
    MaxKills = 1
    MaxEdits = 1
    Old = Old
    Processes = {p1, p2}
    AppOf <- MCAppOf  SessionOf <- MCSessionOf  Requested <- MCRequested
    Texts = {"t1", "t2"}
    SessionLimit = 1
    DailyLimit = 2
    HashLimit = 1
    LastDay = 2
    PolicyFaults = 1
    Corrupt = Corrupt  Nobody = Nobody
    PiCallers <- MCCallers  PiCalls <- MCCalls
    PiMemories = 3
    PageSize = 2
    AppIds = {"x", "y"}
    PiFaults = 1
SPECIFICATION WatchedSpec
INVARIANT SessionLimitKept
CHECK_DEADLOCK FALSE
