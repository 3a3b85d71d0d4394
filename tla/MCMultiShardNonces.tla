------------------------- MODULE MCMultiShardNonces -------------------------
(* Three accounts, two of which end in the same byte, with small spaces.       *)
EXTENDS MultiShardNonces, TLC

CONSTANTS ann, ben, dan

MCLastByte == (ann :> 0) @@ (ben :> 1) @@ (dan :> 1)
=============================================================================
