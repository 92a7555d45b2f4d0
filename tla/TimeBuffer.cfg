\* Buffers of two impulses, offsets of -6 .. 5 and ints of -7 .. 6: the clock and a
\* cluster one tick ahead of it go past the wrap of an int.  A datagram lives two
\* ticks, and the deltas are up to one tick off.
SPECIFICATION Spec
CONSTANTS
    MAX_OUTPUT_NODES = 2
    HALF_SHORT = 6
    HALF_INT = 7
    PACKET_LIFE_TIME = 2
    MaxAhead = 1
    MaxDelta = 1
    MaxNow = 6
    MaxSent = 2
INVARIANT TypeOK
INVARIANT TimesKept
INVARIANT LostOnlyIdle
INVARIANT FullOrLate
INVARIANT SilenceIsShort
