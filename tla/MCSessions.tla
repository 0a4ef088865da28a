------------------------------ MODULE MCSessions ------------------------------
(* Sessions on small instances. *)
EXTENDS Sessions, TLC

CallSymmetry == Permutations(Calls)
===============================================================================
