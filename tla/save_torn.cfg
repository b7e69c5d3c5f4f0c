SPECIFICATION SharedSpec
CONSTANTS
    t1 = t1
    long = long
    other = other
    s1 = s1
    s2 = s2
    Threads = {t1}
    NoThread = NoThread
    Salt = {s1, s2}
    NoSalt = NoSalt
    Pay = {0}
    Password = {long, other}
    LongEnough = {long, other}
    Image <- MCImage
    Incoming = {}
    Ops = {"changePassword"}
INVARIANT SavedCredentialsAgree
