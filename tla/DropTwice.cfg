\* A DROP reaches the server twice, or names a cluster it is not connected to.
\* The process may crash and stop: deadlock is not an error here.
SPECIFICATION RepeatSpec
CONSTANTS
    s1 = s1
    s2 = s2
    Server <- MCServer
    Id = {1, 2, 3, 4}
    GraphId = {1, 2, 3}
    RemoteId = {3}
    OutCapacity = 0
    MaxTime = 0
    MaxRepeats = 0
CHECK_DEADLOCK FALSE
PROPERTY DropOnlyNamed
