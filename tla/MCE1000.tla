------------------------------ MODULE MCE1000 ------------------------------
(* Instances of E1000 for TLC: the rings are shortened, so that they wrap   *)
(* several times within the bounds.                                         *)
EXTENDS E1000
=============================================================================
