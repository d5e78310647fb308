---------------------------- MODULE MCMigration -----------------------------
(* Instances of Migration for TLC.                                          *)
EXTENDS Migration, TLC

CONSTANTS f, g, json, k0, k1, d0, d1, p0, p1

Symmetry ==
    Permutations({f, g}) \cup Permutations({k0, k1})
      \cup Permutations({d0, d1}) \cup Permutations({p0, p1})
=============================================================================
