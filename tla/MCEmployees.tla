---------------------------- MODULE MCEmployees ----------------------------
(* Instances of Employees for TLC.                                         *)
EXTENDS Employees

CONSTANTS u1, u2, c1, c2

MCEntry(u, c, h) == [uuid |-> u, content |-> c, hashcode |-> h]

(* Nothing yet, a shipped file without hash codes, and a file another tool *)
(* wrote: one UUID twice, one entry whose hash code does not match.        *)
MCInitialFiles ==
    {Absent,
     Whole(<<MCEntry(u1, c1, "none")>>),
     Whole(<<MCEntry(u1, c1, "match"), MCEntry(u2, c1, "mismatch"),
             MCEntry(u1, c2, "match")>>)}
=============================================================================
