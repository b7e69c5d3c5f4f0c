--------------------------- MODULE MCRequisitions ---------------------------
(* Instances of Requisitions for TLC.                                      *)
EXTENDS Requisitions

CONSTANTS p1, p2, t1, t2, t3, x1, x2, s1, s2

MCProcessOf == [t \in Threads |-> IF t = t3 THEN p2 ELSE p1]

Request(x) == [op |-> "request", product |-> x]
Load(x, s) == [op |-> "load", product |-> x, supplier |-> s]
Save(x) == [op |-> "save", product |-> x]
Finish == [op |-> "finish"]

(* The second process makes requests; the first also changes the supplier  *)
(* of a product while it is requested and saved.                           *)
MCClients ==
    [t \in Threads |->
        IF t = t3 THEN {Request(x1), Finish}
        ELSE {Request(x1), Request(x2), Load(x1, s2), Save(x1), Finish}]
=============================================================================
