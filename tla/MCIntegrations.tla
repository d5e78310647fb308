--------------------------- MODULE MCIntegrations ---------------------------
(* Instances of Integrations for TLC.                                       *)
EXTENDS Integrations, TLC

CONSTANTS p1, p2, u

Symmetry == Permutations(Procs)
=============================================================================
