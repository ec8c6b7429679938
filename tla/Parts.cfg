CONSTANTS
    Editors = {e1, e2}
    None = None
    Template = "tmpl"
    BadTemplate = "bad"
    Redacted = "redacted"
    K1 = "k1"
    K2 = "k2"
    KT = "kt"
    KE = "ke"
    Searches = {s1, s2}
    Queries = {q1, q2}
    NoChild = NoChild
    NoAnswer = NoAnswer
    Failed = Failed
    MaxRespawns = 2
    Embedded = {"bing", "brave"}
    Dormant = {"brave"}
    Overrides = {"bing"}
    Unpinned = Unpinned
    Calls <- Chats
    MaxChunk = 9
    Boxes = {"a"}
    Keys = {k1}
    MaxSearches = 2
    MaxAsks = 2
    Threads = {t1, t2}
    Requests = {r1, r2}
    NoRecord = NoRecord
    MaxLines = 3
    MaxDay = 3
    MaxRuns = 2
    MaxFiles = 3
    Fetches = {f1, f2}
    Urls <- MCUrls
    Texts = {x1, x2}
    PrivateHosts = {"10.0.0.1"}
    PublicHosts = {"8.8.8.8"}
    MaxRedirects = 1
    Burst = 1
    NumCases = 1
    Protos = {"openai", "anthropic"}
    Verdicts <- MCVerdicts
    MaxTurns = 2
    MaxDeltas = 1
    MaxSessions = 3
    Paths = {"/api/pages/{url}", "/api/capabilities", "/api/threads", "/api/config"}
    Changing = {"/api/pages/{url}"}
    Tokens = {"op"}
    Anonymous = "anonymous"
    Accepts = {"html"}
    Ttls = {1, 2}
    Versions = {"v1", "v2"}
    Specs = {1, 2}
    Recorded = {1, 2}
    Sites <- MCSites
    Markups <- MCMarkups
    Unloadable = Unloadable
    Absent = Absent
    MaxRecords = 2
    MaxChanges = 2
INIT Init
NEXT Next
INVARIANTS
    LiveMatchesFile
    OwnAnswer
    AnswersAsWished
    NothingLostOnTheWire
    
    
    
    
    
    DriftIsTold
PROPERTIES
    SavesOnlyItsFields
CHECK_DEADLOCK FALSE
