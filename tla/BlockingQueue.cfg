\* Two threads on either side: a woken popper can find the value gone, and a
\* push can meet no, one or two waiters.  Two values tell order and loss apart.
SPECIFICATION FairSpec
CONSTANTS
    Pusher = {m1, m2}
    Popper = {s1, s2}
    Value = {v1, v2}
    NoValue = NoValue
    NoThread = NoThread
    MaxLen = 2
INVARIANT TypeOK
INVARIANT FrontOfNonEmpty
INVARIANT NoLostWakeup
PROPERTY ImplementsFifo
PROPERTY EventuallyPopped
