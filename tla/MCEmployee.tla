----------------------------- MODULE MCEmployee -----------------------------
(* Instances of Employee for TLC.                                          *)
EXTENDS Employee, TLC

CONSTANTS t1, t2, short, long, twice, s1, s2

(* "long" and "twice" stand for passwords of eight characters or more such *)
(* that one repeats the other: saltPwd repeats a password to fill its      *)
(* block, so both have the same image.                                     *)
MCPassword == {short, long, twice}
MCLongEnough == {long, twice}
MCImage == [p \in MCPassword |-> IF p = short THEN short ELSE long]

MCRecord(p, s, perms, d) ==
    [salt |-> s, hash |-> [image |-> MCImage[p], salt |-> s],
     permissions |-> perms, salary |-> 0, s |-> "OFFLINE", dirty |-> d]

MCIncoming ==
    {MCRecord(long, s1, {"AUTH"}, FALSE),
     MCRecord(short, s2, {"AUTH", "ADMINISTRATOR"}, TRUE)}

ThreadSymmetry == Permutations(Threads)

AccountCalls ==
    {"authenticate", "changePassword", "setPassword", "addPermission",
     "assign"}
DirtyCalls ==
    {"setPassword", "removePermission", "setPay", "setStatus", "assign",
     "markDirty", "markClean"}
=============================================================================
