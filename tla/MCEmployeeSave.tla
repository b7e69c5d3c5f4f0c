--------------------------- MODULE MCEmployeeSave ---------------------------
(* An instance of EmployeeSave for TLC: one thread sets passwords while    *)
(* another saves.                                                          *)
EXTENDS EmployeeSave

CONSTANTS t1, long, other, s1, s2

MCImage == [p \in {long, other} |-> p]
=============================================================================
