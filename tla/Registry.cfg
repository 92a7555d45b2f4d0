\* Two servers that ask the tracker for an id and the time server.  Three issued
\* ids, a rename by a client, an expiry; two datagrams under way let one overtake
\* the other.  Exited processes send nothing: the model may stop.
SPECIFICATION RegistrySpec
CONSTANTS
    s1 = s1
    s2 = s2
    ts = ts
    NoAddr = NoAddr
    Addr <- MCAddr
    Server <- MCServer
    TimeServer = ts
    startId <- AskBoth
    RESERVED_CLUSTER_ID = 1
    MaxIssued = 4
    MaxId = 5
    TIME_SERVER_ID = 5
    MaxInFlight = 2
    MaxRenames = 1
    MaxExpiries = 1
    MaxRestarts = 0
SYMMETRY Symmetry
CHECK_DEADLOCK FALSE
INVARIANT TypeOK
INVARIANT AddrUnique
INVARIANT UniqueIds
PROPERTY OnlyOldForgotten
 
