SPECIFICATION MCSpec
CONSTANTS
    Ips = {"127.0.0.1", "192.168.5.111", "localhost"}
    ParsedIps = {"127.0.0.1", "192.168.5.111"}
    LocalIps = {"127.0.0.1"}
    Ports = {9000}
    Paths = {"/tmp/tadpole.sock", "/long/path"}
    LongPaths = {"/long/path"}
    MaxEntries = 2
    IntBits = 5
    Groups = 2
    GroupBits = 3
    LoggerNames = {1, 2}
    LevelTexts = {"DEBUG", "fatal"}
    LogFiles = {"a.log"}
    MaxDefs = 2
    MaxApps = 1
    Threads = {t1, t2}
    Appenders = {a1, a2}
    Stdout = {a1, a2}
    Levels = {0, 1}
    MaxAppenders = 2
    PatternChars = {"%", "m", "x", "["}
    MaxPattern = 5
    Positions = {0, 1, 2, 3, 4, 5, 6}
CHECK_DEADLOCK FALSE
INVARIANTS
    ListenersExact
    OrphanedOnlyByDuplicate
    BoundAsConfigured
    SubnetsRight
    AppendersAsConfigured
    PatternKept
    BitsKept
PROPERTIES
    DeliveredExactly
