--------------------------- MODULE MCMultiTransfer ---------------------------
(* Two accounts in one shard and a contract that accepts no payment in the other; *)
(* lists of up to two entries of a fungible token and an NFT, the same token     *)
(* twice included.                                                               *)
EXTENDS MultiTransferArguments, TLC

CONSTANTS ana, ben, shop, s1, s2, gold, art

MCShardOf == (ana :> s1) @@ (ben :> s1) @@ (shop :> s2)

MCEndowment ==
  (ana :> ((gold :> 2) @@ (art :> 3))) @@ (ben :> ((gold :> 0) @@ (art :> 0)))
    @@ (shop :> ((gold :> 0) @@ (art :> 0)))

\* 3 stands for a value of more than 32 bytes.
MCBytesOf == (0 :> 0) @@ (1 :> 1) @@ (2 :> 1) @@ (3 :> 3)

MCFreezable == {<<ana, art>>}
MCPausable == {<<s1, gold>>}
=============================================================================
