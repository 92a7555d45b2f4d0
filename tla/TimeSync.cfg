\* One host.  A request every 2 ticks at most and delays of one tick each way: a
\* late T meets the next request.  Both signs of the skew, since C++ rounds
\* towards zero; the time server moves once and the tracker forgets once.
SPECIFICATION FairSpec
CONSTANTS
    Host = {h}
    Port = {p1, p2}
    NoPort = NoPort
    Skew <- Apart
    SYNC_INTERVAL = 1
    MaxDelay = 1
    MaxInFlight = 2
    MaxMoves = 1
    MaxForgets = 1
INVARIANT TypeOK
INVARIANT DeltaBounded
PROPERTY Settles
