\* Two servers, with the id of node 1 or one of the tracker's (2), connect to and
\* drop nodes 1 and 3 (remote) as they please while the main thread rebuilds its
\* routes.  Two buffers tell reordering and repetition; one slot of outQ is filled
\* by the first.
SPECIFICATION FairSpec
CONSTANTS
    s1 = s1
    s2 = s2
    Server <- MCServer
    Id = {1, 2, 3}
    GraphId = {1, 3}
    RemoteId = {3}
    OutCapacity = 1
    MaxTime = 2
    MaxRepeats = 1
INVARIANT TypeOK
INVARIANT RoutesFresh
 
INVARIANT LocalThroughMemory
 
PROPERTY ConnectTakesEffect
