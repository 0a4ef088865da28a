------------------------------- MODULE MCCatalog -------------------------------
(* Catalog on small instances. *)
EXTENDS Catalog, TLC

EditSymmetry == Permutations(Edits)
===============================================================================
