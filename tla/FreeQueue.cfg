\* A ring of 3 slots (2 usable) wraps, fills and empties within a few calls;
\* two values tell order, loss and repetition apart.
SPECIFICATION FairSpec
CONSTANTS
    SIZE = 3
    Value = {v1, v2}
    NoValue = NoValue
INVARIANT TypeOK
INVARIANT NoSlotRace
INVARIANT NeverPopsNull
PROPERTY ImplementsFifo
PROPERTY PublishedIsTaken
