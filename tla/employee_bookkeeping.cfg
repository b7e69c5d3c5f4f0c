SPECIFICATION Spec
CONSTANTS
    t1 = t1
    t2 = t2
    short = short
    long = long
    twice = twice
    s1 = s1
    s2 = s2
    Threads = {t1, t2}
    NoThread = NoThread
    Salt = {s1, s2}
    NoSalt = NoSalt
    Pay = {0, 1}
    Password <- MCPassword
    LongEnough <- MCLongEnough
    Image <- MCImage
    Incoming <- MCIncoming
    Ops <- DirtyCalls
INVARIANT MarkTellsChanges
PROPERTIES MutexReleased
