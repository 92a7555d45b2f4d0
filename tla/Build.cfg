\* Two servers and the time server; graphs of one node (fewer than the servers),
\* two and four (more).  One retry and one GET per command, one late or repeated
\* datagram.
SPECIFICATION BuildSpec
CONSTANTS
    s1 = s1
    s2 = s2
    ts = ts
    NoAddr = NoAddr
    Server = {s1, s2}
    Addr = {s1, s2, ts}
    TimeServer = ts
    startId <- MCStartId
    startNext = 6
    RESERVED_CLUSTER_ID = 4
    MaxIssued = 6
    MaxId = 7
    TIME_SERVER_ID = 7
    COMMAND_RETRY_COUNT = 1
    GetRetries = 1
    MaxOdd = 1
    Files <- MCFiles
    groupCounts = {2, 3}
INVARIANT TypeOK
INVARIANT NoForeignEdges
INVARIANT BuiltAsDrawn
INVARIANT GraphKept
PROPERTY NeverWorse
PROPERTY Finishes
