SPECIFICATION SessionSpec
CONSTANTS
    u1 = u1
    u2 = u2
    short = short
    pw1 = pw1
    pw2 = pw2
    Uuid = {u1, u2}
    Content <- MCContent
    Address = {a1, a2}
    NoNode = NoNode
    Garbage = Garbage
    NoAccount = NoAccount
    Lost = Lost
    Validation = "None"
    InitialFiles <- MCInitialFiles
    FreedMemory = {"kept"}
    Ops = {"update", "load", "save"}
    MaxRegistry = 3
    Password = {short, pw1, pw2}
    LongEnough = {pw1, pw2}
    DefaultPassword = pw1
    Status = {"ONLINE", "OFFLINE"}
    Nobody = Nobody
INVARIANT SuccessKeepsChanges
