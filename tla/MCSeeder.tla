-------------------------------- MODULE MCSeeder --------------------------------
(* Seeder on small instances. *)
EXTENDS Seeder, TLC

SeedSymmetry == Permutations(Runs)
===============================================================================
