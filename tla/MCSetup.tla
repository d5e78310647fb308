------------------------------ MODULE MCSetup -------------------------------
(* Instances of Setup for TLC.                                              *)
EXTENDS Setup, TLC

CONSTANTS a, b, dir, git, e1, e2

Symmetry == Permutations(Machines) \cup Permutations(Embedders)
=============================================================================
