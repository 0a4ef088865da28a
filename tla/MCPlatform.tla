------------------------------ MODULE MCPlatform ------------------------------
(* Platform on small instances. *)
EXTENDS Platform, TLC

PlatformSymmetry == Permutations(Requests) \cup Permutations(Edits)
===============================================================================
