------------------------------ MODULE MCVault -------------------------------
(* Instances of Vault for TLC.                                              *)
EXTENDS Vault, TLC

CONSTANTS a, b, t1, t2, short, long

MCSize == short :> 1 @@ long :> 2

(* The directory starts with files of the given texts, or without.          *)
MCOldShort == {[at |-> 0, txt |-> short, ok |-> TRUE]}
MCOldLong  == {[at |-> 0, txt |-> long, ok |-> TRUE]}
MCNoFiles  == {}

Symmetry == Permutations({a, b}) \cup Permutations({t1, t2})
=============================================================================
