SPECIFICATION ServicesSpec
CONSTANTS
    Clients = {c1}
    Lifetime = 2
    Period = 2
    Grace = 1
    ByteLimit = 3
    MaxVersion = 3
    MaxBoots = 1
    Keys = {k1, k2, k3}
    Burst = 2
    Rps = 1
    MaxKeys = 2
    Servers = {s1, s2}
    WindowSize = 2
    MaxRequests = 2
    MaxTime = 3
    MaxAsks = 3
    Managers = {m1, m2}
    Names <- MCNames
    Targets <- MCTargets
    FeedLists <- MCFeedLists
    MaxOverrides = 2
    Threads <- MCThreads
    ProcOf <- MCProcOf
    Answers = {1, 2}
    Entries <- MCEntries
    MaxIds = 2
    MaxLookups = 3
    Domains = {"d1", "d2"}
    Handlers = {h1, h2}
    ConfigIds = {1, 2}
    DomainOf <- MCDomainOf
    Defaults = {1}
    MaxTokens = 2
    Payloads = {p1, p2}
    Editors = {e1, e2}
    MaxEdits = 3
    MaxAborts = 1
    ZoneIds = {1, 2}
    Policies = {"public", "team"}
    RecordIds = {1}
    RecordData = {x1, x2}
INVARIANTS ServicesTypeOK CookieHonoured BurstIfKept WindowQuota OnlyFailuresLeak VerdictOfLastCall
     WaitersAwaitALookup PulledFromOwnDomain HistoryCompleteIfSerial
    ExportedRecordsCoexist
PROPERTIES ImplementsLease
CHECK_DEADLOCK FALSE
