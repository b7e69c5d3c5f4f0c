----------------------------- MODULE MCSession -----------------------------
(* Instances of Session for TLC.                                           *)
EXTENDS Session

CONSTANTS u1, u2, short, pw1, pw2

MCContent == [pwd : Password, perms : SUBSET Permission]

MCEntry(u, p, perms) ==
    [uuid |-> u, content |-> [pwd |-> p, perms |-> perms],
     hashcode |-> "none"]

(* Nothing yet, a user and an administrator, and a list whose first        *)
(* employee may not log in and appears twice.                              *)
MCInitialFiles ==
    {Absent,
     Whole(<<MCEntry(u1, short, {"AUTH"}), MCEntry(u2, pw1, Permission)>>),
     Whole(<<MCEntry(u1, pw1, {}), MCEntry(u2, short, {"AUTH"}),
             MCEntry(u2, pw1, {"AUTH"})>>)}
=============================================================================
