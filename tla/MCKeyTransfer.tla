--------------------------- MODULE MCKeyTransfer ----------------------------
(* Instances of KeyTransfer for TLC.                                        *)
EXTENDS KeyTransfer, TLC

CONSTANTS s1, s2, r1, r2

MeantPairs == r1 :> s1 @@ r2 :> s2
Twice      == s1 :> 1 @@ r1 :> 2 @@ s2 :> 1 @@ r2 :> 1
=============================================================================
