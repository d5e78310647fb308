---------------------------- MODULE MCMetaStore -----------------------------
(* Instances of MetaStore for TLC.                                          *)
EXTENDS MetaStore, TLC

CONSTANTS a, b, c, x, y, k

Symmetry == Permutations({a, b, c}) \cup Permutations({x, y})
=============================================================================
