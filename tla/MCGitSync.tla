----------------------------- MODULE MCGitSync ------------------------------
(* Instances of GitSync for TLC.                                            *)
EXTENDS GitSync

CONSTANTS m1, m2
=============================================================================
