---------------------------- MODULE MCAccessControl ----------------------------
(* AccessControl on small instances. *)
EXTENDS AccessControl, TLC

RequestSymmetry == Permutations(Requests)
===============================================================================
