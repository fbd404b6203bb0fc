---------------------------- MODULE MCMigration ----------------------------
(* Symmetry for the migration runs. *)
EXTENDS Migration

Symmetry == Permutations(Table) \cup Permutations(Key)
=============================================================================
