SPECIFICATION Spec
CONSTANTS
    p1 = p1
    p2 = p2
    t1 = t1
    t2 = t2
    t3 = t3
    x1 = x1
    x2 = x2
    s1 = s1
    s2 = s2
    Process = {p1, p2}
    Threads = {t1, t2, t3}
    ProcessOf <- MCProcessOf
    Product = {x1, x2}
    Supplier = {s1, s2}
    NoThread = NoThread
    Clients <- MCClients
    MaxCalls = 1
    NoBasis = NoBasis
    Unreadable = Unreadable
INVARIANTS TypeOK RequestsKept SuppliersOfOneVersion
PROPERTIES CallsEnd ImplementsRequisitionLog
CHECK_DEADLOCK FALSE
