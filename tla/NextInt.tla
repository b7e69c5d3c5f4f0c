------------------------------- MODULE NextInt -------------------------------
(***************************************************************************)
(* Random::nextInt(bound) as a function of the value it draws              *)
(* (Random.cpp:56-70).  Generator models how the draws are shared.         *)
(***************************************************************************)
EXTENDS Integers

(* next(31) gives one of these many values, the int that are not negative. *)
INT_VALUES == 2147483648
Bits == 0 .. INT_VALUES - 1
Bound == 1 .. INT_VALUES - 1

(* (bound & -bound) == bound: no other bounds divide a power of two.       *)
IsPowerOfTwo(bound) == \E share \in Nat : bound * share = INT_VALUES

(* An int of 32 bits that an addition may have overflowed, which is        *)
(* undefined: a build may let it wrap round or take it for the sum.        *)
AsInt(sum, wraps) ==
    IF wraps /\ sum >= INT_VALUES THEN sum - 2 * INT_VALUES ELSE sum

(* The while condition does not send the loop back for another value.      *)
Taken(bound, bits, wraps) ==
    \/ IsPowerOfTwo(bound)
    \/ AsInt(bits - (bits % bound) + (bound - 1), wraps) >= 0

nextIntBelow(bound, bits) ==
    IF IsPowerOfTwo(bound) THEN (bound * bits) \div INT_VALUES
    ELSE bits % bound
=============================================================================
