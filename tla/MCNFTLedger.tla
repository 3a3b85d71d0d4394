----------------------------- MODULE MCNFTLedger -----------------------------
(* A user and a contract in one shard and a user in another, or a user in each     *)
(* of three; what they may do, and in which epochs, is chosen by the run.          *)
EXTENDS NFTLedger, TLC

CONSTANTS ana, ben, shop, leo, s1, s2, s3

MCAccounts == {ana, shop, leo}
MCShardOf == (ana :> s1) @@ (shop :> s1) @@ (leo :> s2)

\* The flags of the three ways to keep metadata, and of what was mended since.
OnAccounts == {"CheckFrozenCollection"}
Once == OnAccounts \cup {"SaveToSystemAccount"}
Always == Once \cup {"SendAlways", "AlwaysSaveTokenMetaData", "FixOldTokenLiquidity",
                     "WipeSingleNFTLiquidityDecrease"}

OnlyAlways == <<Always>>
AllEpochs == <<OnAccounts, Once, Always>>

AnyTime == [n \in Nonces |-> 1]

\* Two accounts change metadata, one adds to tokens, two burn them.
MCRoles == [r \in NFTRoles |->
  CASE r = "create" -> {ana} [] r = "add" -> {ana} [] r = "burn" -> {leo, shop}
    [] r = "uri" -> {leo} [] OTHER -> {ana}]

\* Token 1 is semi-fungible, token 2 exists once, the metadata of token 3 are deleted.
KindSupply == 1 :> 2 @@ 2 :> 1 @@ 3 :> 2
KindVersions == 1 :> 2 @@ 2 :> 3 @@ 3 :> 1
KindFreezes == {<<ana, 0>>, <<leo, 0>>, <<leo, 1>>, <<leo, 3>>}

\* A chain of three shards, a token that exists once and one created since Once.
EpochAccounts == {ana, ben, leo}
EpochShardOf == (ana :> s1) @@ (ben :> s2) @@ (leo :> s3)
EpochRoles == [r \in NFTRoles |->
  CASE r = "create" -> {ana} [] r = "add" -> {ana} [] r = "burn" -> {}
    [] r = "uri" -> {leo} [] OTHER -> {ana}]
EpochSupply == 1 :> 1 @@ 2 :> 3
EpochVersions == 1 :> 3 @@ 2 :> 1
EpochLaunch == 1 :> 1 @@ 2 :> 2

\* An old token of which there are two.
OldSupply == [n \in Nonces |-> 2]

WipeSupply == [n \in Nonces |-> 1]
WipeFreezes == {<<leo, n>> : n \in Nonces}

Interchangeable == Permutations(TransferIds)
=============================================================================
