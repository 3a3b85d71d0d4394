--------------------------- MODULE MCNFTCreateRole ---------------------------
(* Two accounts in each of two shards: moves of the role within a shard and     *)
(* between shards.                                                             *)
EXTENDS NFTCreateRole, TLC

CONSTANTS ann, ben, cid, dan, s1, s2

MCShardOf == (ann :> s1) @@ (ben :> s1) @@ (cid :> s2) @@ (dan :> s2)
=============================================================================
