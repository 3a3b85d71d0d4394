-------------------------- MODULE MCAccountFunctions --------------------------
(* A user and a contract in each of two shards; both contracts name users.      *)
EXTENDS AccountFunctions, TLC

CONSTANTS ann, bob, reg, shop, s1, s2, k, secret, short, long

MCShardOf == (ann :> s1) @@ (bob :> s2) @@ (reg :> s1) @@ (shop :> s2)

MCDeployer == (reg :> ann) @@ (shop :> ann)

MCCost ==
  [f \in {"ChangeOwnerAddress", "ClaimDeveloperRewards", "SetUserName", "SaveKeyValue"} |-> 1]

MCValues == {NoValue, short, long}
MCLength == (k :> 1) @@ (secret :> 1) @@ (NoValue :> 0) @@ (short :> 1) @@ (long :> 3)

Request(fn, from, to, arg, async, gas) ==
  [fn |-> fn, from |-> from, to |-> to, arg |-> arg, async |-> async, gas |-> gas]

\* The shop changes hands between both users and itself, and all of them claim; both
\* contracts name one user; some calls have too little gas.
MCRequests ==
  {Request("ChangeOwnerAddress", from, shop, to, FALSE, 2) : from, to \in {ann, bob, shop}}
    \cup {Request("ChangeOwnerAddress", from, shop, NoName, FALSE, 2) : from \in {ann, bob}}
    \cup {Request("ClaimDeveloperRewards", from, shop, NoName, FALSE, 2) : from \in {ann, bob, shop}}
    \cup {Request("ClaimDeveloperRewards", ann, shop, NoName, FALSE, 0)}
    \cup {Request("ClaimDeveloperRewards", shop, shop, NoName, TRUE, 2)}
    \cup {Request("SetUserName", from, ann, from, FALSE, 2) : from \in {reg, shop}}

MCSaves ==
  [user : {bob}, gas : {8, 20},
   pairs : {<<<<secret, short>>>>, <<<<k, NoValue>>>>, <<<<k, short>>>>, <<<<k, long>>>>}
             \cup {<<<<k, v>>, <<k, long>>>> : v \in {short, long}}]

Interchangeable == Permutations(CallIds)
=============================================================================
