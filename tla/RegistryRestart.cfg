\* The tracker is restarted once; nothing else goes wrong.
SPECIFICATION CrashSpec
CONSTANTS
    s1 = s1
    s2 = s2
    ts = ts
    NoAddr = NoAddr
    Addr <- MCAddr
    Server <- MCServer
    TimeServer = ts
    startId <- AskBoth
    RESERVED_CLUSTER_ID = 1
    MaxIssued = 4
    MaxId = 5
    TIME_SERVER_ID = 5
    MaxInFlight = 2
    MaxRenames = 0
    MaxExpiries = 0
    MaxRestarts = 1
CHECK_DEADLOCK FALSE
INVARIANT UniqueIds
