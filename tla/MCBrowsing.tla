------------------------------ MODULE MCBrowsing ------------------------------
(* Browsing on small instances. *)
EXTENDS Browsing, TLC

ClientSymmetry == Permutations(Clients)
===============================================================================
