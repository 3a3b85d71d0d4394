-------------------------- MODULE MCFungibleLedger --------------------------
(* Two users in one shard and a contract in another: transfers within a shard, *)
(* across shards and to and from a contract that accepts no direct payment.    *)
EXTENDS FungibleLedger, TLC

CONSTANTS alice, bob, vault, s1, s2

MCAccounts == {alice, bob, vault}
MCShards == {s1, s2}
MCShardOf == (alice :> s1) @@ (bob :> s1) @@ (vault :> s2)
MCContracts == {vault}
MCPayable == {alice, bob}

\* What DCTSC may set, grant and list.
MCToggles == {<<s1, "paused">>, <<s2, "paused">>, <<s1, "limited">>, <<s1, "burnForAll">>}
MCListable == {<<s1, vault>>}
Grants == {<<alice, "mint">>, <<alice, "burn">>, <<bob, "transfer">>}
=============================================================================
