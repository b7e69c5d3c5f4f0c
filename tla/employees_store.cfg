SPECIFICATION Spec
CONSTANTS
    u1 = u1
    u2 = u2
    c1 = c1
    c2 = c2
    Uuid = {u1, u2}
    Content = {c1, c2}
    Address = {a1, a2}
    NoNode = NoNode
    Garbage = Garbage
    NoAccount = NoAccount
    Lost = Lost
    Validation = "Loose"
    InitialFiles <- MCInitialFiles
    FreedMemory = {"overwritten"}
    Ops = {"add", "update", "remove", "load", "save"}
    MaxRegistry = 4
PROPERTIES ImplementsAccountStore
