\* Two hosts, no delay, a time server that stays where it is.
SPECIFICATION Spec
CONSTANTS
    Host = {h1, h2}
    Port = {p}
    NoPort = NoPort
    Skew <- OnServerAndApart
    SYNC_INTERVAL = 1
    MaxDelay = 0
    MaxInFlight = 2
    MaxMoves = 0
    MaxForgets = 0
INVARIANT Synchronized
