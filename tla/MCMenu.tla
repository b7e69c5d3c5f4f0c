------------------------------- MODULE MCMenu -------------------------------
(* Instances of Menu for TLC.                                              *)
EXTENDS Menu

MCStray == {-1, 5}
=============================================================================
