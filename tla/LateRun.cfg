\* A client gives a server its id after another one connected to that id.
SPECIFICATION LateSpec
CONSTANTS
    s1 = s1
    s2 = s2
    Server <- MCServer
    Id = {1, 2, 3}
    GraphId = {1, 2, 3}
    RemoteId = {3}
    OutCapacity = 1
    MaxTime = 2
    MaxRepeats = 1
INVARIANT LocalThroughMemory
