----------------------------- MODULE MCProducts -----------------------------
(* Instances of Products for TLC.                                          *)
EXTENDS Products

CONSTANTS u1, u2, c1, c2, address1, address2, number

MCMailingAddress == [c \in Content |-> IF c = c1 THEN address1 ELSE address2]

MCEntry(u, c, h) ==
    [uuid |-> u, content |-> c, phone |-> number, hashcode |-> h]

(* Nothing yet, a file cut off, and one that another tool wrote: a UUID    *)
(* twice and an entry whose hash code does not match.                      *)
MCInitialFiles ==
    {Absent, Torn,
     Whole(<<MCEntry(u1, c1, "match"), MCEntry(u2, c1, "mismatch"),
             MCEntry(u1, c2, "none")>>)}
=============================================================================
