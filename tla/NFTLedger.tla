------------------------------ MODULE NFTLedger ------------------------------
(***************************************************************************)
(* The NFTs of one collection on a sharded chain, through the epochs that  *)
(* changed where their metadata are kept.  At first they lie on every      *)
(* account, next to its quantity.  SaveToSystemAccount moves them to the   *)
(* system account of every shard where the token is held, which also       *)
(* remembers the shards they were sent to, so that a transfer need not     *)
(* bring them twice.  Since SendAlways every transfer brings them, and the *)
(* record counts the liquidity, the quantity held in its shard: when that  *)
(* falls to zero the record is deleted (dctDataStorage.go, dctNFT*.go,     *)
(* updateNFTAttributes.go, dctFreezeWipe.go, dctDeleteMetadata.go).        *)
(*                                                                         *)
(* As in FungibleLedger an action is one successful call.  Who may create, *)
(* with which nonce, and whether a transfer is limited is not decided      *)
(* here: see NFTCreateRole and FungibleLedger.                             *)
(***************************************************************************)
EXTENDS Integers, Sequences, FiniteSets, FiniteSetsExt, Functions

CONSTANTS
  Accounts,
  Shards,
  ShardOf,      \* the shard of every account
  Contracts,    \* accounts that may refuse a payment or fail after it
  Nonces,       \* the tokens of the collection
  Amounts,      \* quantities a call may carry
  RoleHolders,  \* who has each of the roles of NFTRoles
  Barred,       \* pairs the limited-transfer check of FungibleLedger refuses
  Freezable,    \* accounts, each with a key, that DCTSC may freeze and wipe
  Deletable,    \* tokens whose metadata the allowed address deletes or adds
  Schedule,     \* the flags of the epochs, one set after the other
  Launch,       \* bound: the epoch in which a token is created, or a later one
  MaxTokens,    \* bound on the number of tokens created
  MaxSupply,    \* bound on the supply of every token
  MaxVersion,   \* bound on the versions of every token's metadata
  TransferIds   \* one id per message between shards; bounds their number

NFTRoles == {"create", "add", "burn", "uri", "attributes"}

\* In frozen, 0 stands for the collection, as in computeDCTNFTTokenKey.
Keys == Nonces \cup {0}

ASSUME NFTAssumption ==
  /\ IsFiniteSet(Accounts)
  /\ ShardOf \in [Accounts -> Shards]
  /\ Nonces \subseteq Nat \ {0}
  /\ Amounts \subseteq Nat \ {0}
  /\ RoleHolders \in [NFTRoles -> SUBSET Accounts]
  /\ Freezable \subseteq Accounts \X Keys
  /\ Deletable \subseteq Nonces
  /\ 1 \in DOMAIN Schedule
  /\ MaxSupply \in [Nonces -> Nat] /\ MaxVersion \in [Nonces -> Nat]

VARIABLES
  quantity,  \* DCToken.Value in every account's record of a token
  frozen,    \* the keys under which every account has a frozen record
  paused,    \* shards whose system account says that the collection is paused
  own,       \* the version of the metadata that an account keeps itself, 0 if none
  meta,      \* the system account's record of every token, in every shard
  latest,    \* how many versions of its metadata a token has had
  inFlight,  \* transfers that left a shard and have not been executed
  supply,    \* created and added less burned and wiped
  epoch      \* the flags that are enabled

vars == <<quantity, frozen, paused, own, meta, latest, inFlight, supply, epoch>>

Flags == Schedule[epoch]

\* A record of the system account: which version of the metadata it has, whether
\* Reserved says that it counts liquidity, Value, the liquidity, and Properties, the
\* shards that are known to have the metadata.
Records == [version : Nat, tracked : BOOLEAN, liquidity : Nat, sent : SUBSET Shards]
NoRecord == [version |-> 0, tracked |-> FALSE, liquidity |-> 0, sent |-> {}]

\* DCTNFTTransfer as it travels, with the version of the metadata it brings, 0 if none.
Transfers ==
  [id : TransferIds, from : Accounts, to : Accounts, nonce : Nonces,
   val : Amounts, version : Nat, ret : BOOLEAN]

TypeOK ==
  /\ quantity \in [Accounts -> [Nonces -> Nat]]
  /\ frozen \in [Accounts -> SUBSET Keys]
  /\ paused \subseteq Shards
  /\ own \in [Accounts -> [Nonces -> Nat]]
  /\ meta \in [Shards -> [Nonces -> Records]]
  /\ latest \in [Nonces -> Nat]
  /\ inFlight \subseteq Transfers
  /\ supply \in [Nonces -> Int]
  /\ epoch \in DOMAIN Schedule

Init ==
  /\ quantity = [a \in Accounts |-> [n \in Nonces |-> 0]]
  /\ frozen = [a \in Accounts |-> {}]
  /\ paused = {}
  /\ own = [a \in Accounts |-> [n \in Nonces |-> 0]]
  /\ meta = [s \in Shards |-> [n \in Nonces |-> NoRecord]]
  /\ latest = [n \in Nonces |-> 0]
  /\ inFlight = {}
  /\ supply = [n \in Nonces |-> 0]
  /\ epoch = 1

-----------------------------------------------------------------------------
(* The storage: dctDataStorage                                             *)

\* MUTATION: the freeze of the collection is not looked up.
PausedOnly(a) == ShardOf[a] \in paused

\* checkCollectionIsFrozenForAccount, and the pause of the collection.
CollectionStopped(a) ==
  \/ ShardOf[a] \in paused
  \/ "CheckFrozenCollection" \in Flags /\ 0 \in frozen[a]

\* checkFrozenPauseProperties with the account's own record.
Stopped(a, n, ret) == ~ret /\ (n \in frozen[a] \/ CollectionStopped(a))

\* Metadata are kept by the shards, which remember where they sent them...
InSystemAccount == "SaveToSystemAccount" \in Flags
SentOnce == InSystemAccount /\ "SendAlways" \notin Flags

\* ... or count the tokens they have.
CountsLiquidity == InSystemAccount /\ "SendAlways" \in Flags

\* The metadata that an account reads, 0 if none.  Those of its shard have precedence.
Version(a, n) ==
  LET r == meta[ShardOf[a]][n] IN
  IF InSystemAccount /\ r # NoRecord THEN r.version ELSE own[a][n]

\* What an account keeps itself once a quantity is saved.
OwnCopy(version, q) == IF InSystemAccount \/ q = 0 THEN 0 ELSE version

\* MUTATION: the record that replaces another counts liquidity from zero.
StoreMetadataReserved(r, version, mustUpdateAll, old, here) ==
  IF version = 0 \/ ~InSystemAccount \/ (r # NoRecord /\ ~mustUpdateAll) THEN r
  ELSE [version |-> version, tracked |-> CountsLiquidity, liquidity |-> 0,
        sent |-> IF SentOnce THEN here ELSE {}]

\* saveDCTMetaDataToSystemAccount of metadata that are in the shards here; old tells that
\* the account has its own.  A new record counts liquidity, unless it is of an old token;
\* one that replaces another does not, and forgets the other shards.  Metadata that
\* arrive rewrite those of a record that does not count liquidity.
StoreMetadata(r, version, mustUpdateAll, old, here) ==
  IF version = 0 \/ ~InSystemAccount THEN r
  ELSE IF r = NoRecord \/ mustUpdateAll
       THEN [version |-> version,
             tracked |-> CountsLiquidity /\ r = NoRecord
                           /\ ~(old /\ "FixOldTokenLiquidity" \in Flags),
             liquidity |-> 0,
             sent |-> IF SentOnce THEN here ELSE {}]
  ELSE IF CountsLiquidity /\ ~r.tracked /\ "AlwaysSaveTokenMetaData" \in Flags
       THEN [r EXCEPT !.version = version]
  ELSE r

\* The record of account a's shard once a's token is saved with this version.
Saved(a, n, version, mustUpdateAll) ==
  StoreMetadata(meta[ShardOf[a]][n], version, mustUpdateAll, own[a][n] # 0, {ShardOf[a]})

\* A record of an old token, left without liquidity by the transfers of the past.
Uncounted(r, v) == "FixOldTokenLiquidity" \in Flags /\ r.liquidity = 0 /\ v < 0

CanAddLiquidity(r, v) ==
  CountsLiquidity => /\ r # NoRecord
                     /\ r.tracked => r.liquidity + v >= 0 \/ Uncounted(r, v)

\* MUTATION: the record stays when its liquidity falls to zero.
AddLiquidityAndKeep(r, v) ==
  IF CountsLiquidity /\ r.tracked THEN [r EXCEPT !.liquidity = @ + v] ELSE r

\* AddToLiquiditySystemAcc
AddLiquidity(r, v) ==
  IF ~CountsLiquidity \/ ~r.tracked THEN r
  ELSE IF Uncounted(r, v) THEN [r EXCEPT !.tracked = FALSE]
  ELSE IF r.liquidity + v = 0 THEN NoRecord
  ELSE [r EXCEPT !.liquidity = @ + v]

AlreadySent(r, s) == SentOnce /\ s \in r.sent

\* WasAlreadySentToDestinationShardAndUpdateState: its answer is AlreadySent.
MarkSent(r, s) == IF SentOnce /\ r # NoRecord THEN [r EXCEPT !.sent = @ \cup {s}] ELSE r

\* The nonce that extractTokenIdentifierAndNonceDCTWipe reads in the argument of a
\* wipe.  It splits the argument at every '-' (45), also at one among the nonce's
\* bytes, and takes what stands before it.  MaxByte bounds the bytes of a nonce.
MaxByte == 2
WipedNonce(n) ==
  LET dashes == {k \in 0..MaxByte : (n \div 256^k) % 256 = 45}
  IN  IF dashes = {} THEN n ELSE n \div 256^(Max(dashes) + 1)

-----------------------------------------------------------------------------
(* Creating, changing and burning tokens                                   *)

\* dctNFTCreate; the nonce is a new one (NFTCreateRole, MultiShardNonces).
\* A record the account has under the new key is overwritten.
NFTCreate(a, n, q) ==
  LET r == Saved(a, n, 1, TRUE) IN
  /\ a \in RoleHolders["create"]
  /\ q > 1 => a \in RoleHolders["add"]
  /\ latest[n] = 0
  /\ epoch >= Launch[n]
  /\ Cardinality({k \in Nonces : latest[k] > 0}) < MaxTokens
  /\ q <= MaxSupply[n]
  /\ ~CollectionStopped(a)
  /\ CanAddLiquidity(r, q)
  /\ quantity' = [quantity EXCEPT ![a][n] = q]
  /\ frozen' = [frozen EXCEPT ![a] = @ \ {n}]
  /\ own' = [own EXCEPT ![a][n] = OwnCopy(1, q)]
  /\ meta' = [meta EXCEPT ![ShardOf[a]][n] = AddLiquidity(r, q)]
  /\ latest' = [latest EXCEPT ![n] = 1]
  /\ supply' = [supply EXCEPT ![n] = @ + q]
  /\ UNCHANGED <<paused, inFlight, epoch>>

HasToken(a, n) == quantity[a][n] > 0 \/ n \in frozen[a]

NFTAddQuantity(a, n, v) ==
  LET r == Saved(a, n, Version(a, n), FALSE) IN
  /\ a \in RoleHolders["add"]
  /\ HasToken(a, n)
  /\ supply[n] + v <= MaxSupply[n]
  /\ ~Stopped(a, n, FALSE)
  /\ CanAddLiquidity(r, v)
  /\ quantity' = [quantity EXCEPT ![a][n] = @ + v]
  /\ own' = [own EXCEPT ![a][n] = OwnCopy(Version(a, n), quantity[a][n] + v)]
  /\ meta' = [meta EXCEPT ![ShardOf[a]][n] = AddLiquidity(r, v)]
  /\ supply' = [supply EXCEPT ![n] = @ + v]
  /\ UNCHANGED <<frozen, paused, latest, inFlight, epoch>>

\* MUTATION: the quantity burned is not compared with the one held.
NFTBurnUnchecked(a, n, v) ==
  LET r == Saved(a, n, Version(a, n), FALSE) IN
  /\ a \in RoleHolders["burn"]
  /\ HasToken(a, n)
  /\ ~Stopped(a, n, FALSE)
  /\ CanAddLiquidity(r, -v)
  /\ quantity' = [quantity EXCEPT ![a][n] = @ - v]
  /\ own' = [own EXCEPT ![a][n] = OwnCopy(Version(a, n), quantity[a][n] - v)]
  /\ meta' = [meta EXCEPT ![ShardOf[a]][n] = AddLiquidity(r, -v)]
  /\ supply' = [supply EXCEPT ![n] = @ - v]
  /\ UNCHANGED <<frozen, paused, latest, inFlight, epoch>>

\* Burners are those isAllowedToBurn lets burn.
NFTBurn(a, n, v) ==
  LET r == Saved(a, n, Version(a, n), FALSE) IN
  /\ a \in RoleHolders["burn"]
  /\ quantity[a][n] >= v
  /\ ~Stopped(a, n, FALSE)
  /\ CanAddLiquidity(r, -v)
  /\ quantity' = [quantity EXCEPT ![a][n] = @ - v]
  /\ own' = [own EXCEPT ![a][n] = OwnCopy(Version(a, n), quantity[a][n] - v)]
  /\ meta' = [meta EXCEPT ![ShardOf[a]][n] = AddLiquidity(r, -v)]
  /\ supply' = [supply EXCEPT ![n] = @ - v]
  /\ UNCHANGED <<frozen, paused, latest, inFlight, epoch>>

\* SaveDCTNFTToken with mustUpdateAllFields.  The call needs the metadata.
NewVersion(a, n) ==
  /\ HasToken(a, n)
  /\ ~Stopped(a, n, FALSE)
  /\ Version(a, n) # 0
  /\ latest[n] < MaxVersion[n]
  /\ latest' = [latest EXCEPT ![n] = @ + 1]
  /\ own' = [own EXCEPT ![a][n] = OwnCopy(latest[n] + 1, quantity[a][n])]
  /\ meta' = [meta EXCEPT ![ShardOf[a]][n] = Saved(a, n, latest[n] + 1, TRUE)]
  /\ UNCHANGED <<quantity, frozen, paused, inFlight, supply, epoch>>

NFTAddURI(a, n) == a \in RoleHolders["uri"] /\ NewVersion(a, n)

NFTUpdateAttributes(a, n) == a \in RoleHolders["attributes"] /\ NewVersion(a, n)

-----------------------------------------------------------------------------
(* Transfers                                                               *)

\* MUTATION: the liquidity falls as if the tokens left the shard.
TransferInShardCounted(from, to, n, v) ==
  LET r == Saved(from, n, Version(from, n), FALSE) IN
  /\ from # to
  /\ ShardOf[from] = ShardOf[to]
  /\ <<from, to>> \notin Barred
  /\ quantity[from][n] >= v
  /\ ~Stopped(from, n, FALSE)
  /\ ~Stopped(to, n, FALSE)
  /\ CanAddLiquidity(r, -v)
  /\ quantity' = [quantity EXCEPT ![from][n] = @ - v, ![to][n] = @ + v]
  /\ own' = [own EXCEPT ![from][n] = OwnCopy(Version(from, n), quantity[from][n] - v),
                        ![to][n] = OwnCopy(Version(from, n), v)]
  /\ meta' = [meta EXCEPT ![ShardOf[from]][n] = AddLiquidity(r, -v)]
  /\ UNCHANGED <<frozen, paused, latest, inFlight, supply, epoch>>

\* dctNFTTransfer within a shard.  Both accounts are saved with the metadata that the
\* sender reads; the second save finds the record of the first.
TransferInShard(from, to, n, v) ==
  /\ from # to
  /\ ShardOf[from] = ShardOf[to]
  /\ <<from, to>> \notin Barred
  /\ quantity[from][n] >= v
  /\ ~Stopped(from, n, FALSE)
  /\ ~Stopped(to, n, FALSE)
  /\ quantity' = [quantity EXCEPT ![from][n] = @ - v, ![to][n] = @ + v]
  /\ own' = [own EXCEPT ![from][n] = OwnCopy(Version(from, n), quantity[from][n] - v),
                        ![to][n] = OwnCopy(Version(from, n), v)]
  /\ meta' = [meta EXCEPT ![ShardOf[from]][n] = Saved(from, n, Version(from, n), FALSE)]
  /\ UNCHANGED <<frozen, paused, latest, inFlight, supply, epoch>>

Unused(id) == \A m \in inFlight : m.id # id

\* createNFTOutputTransfers: a single token always brings its metadata.
SendToOtherShard(id, from, to, n, v) ==
  LET r == AddLiquidity(Saved(from, n, Version(from, n), FALSE), -v)
      bare == AlreadySent(r, ShardOf[to]) /\ v # 1
  IN
  /\ ShardOf[from] # ShardOf[to]
  /\ <<from, to>> \notin Barred
  /\ quantity[from][n] >= v
  /\ ~Stopped(from, n, FALSE)
  /\ CanAddLiquidity(Saved(from, n, Version(from, n), FALSE), -v)
  /\ Unused(id)
  /\ quantity' = [quantity EXCEPT ![from][n] = @ - v]
  /\ own' = [own EXCEPT ![from][n] = OwnCopy(Version(from, n), quantity[from][n] - v)]
  /\ meta' = [meta EXCEPT ![ShardOf[from]][n] = MarkSent(r, ShardOf[to])]
  /\ inFlight' = inFlight \cup
       {[id |-> id, from |-> from, to |-> to, nonce |-> n, val |-> v,
         version |-> IF bare THEN 0 ELSE Version(from, n), ret |-> FALSE]}
  /\ UNCHANGED <<frozen, paused, latest, supply, epoch>>

\* MUTATION: the node does not save the metadata of a transfer that it executes.
MetadataSavedLater(m) == meta[ShardOf[m.to]][m.nonce]

\* SaveNFTMetaDataToSystemAccount, which the node calls for every transfer that reaches
\* its shard, whether its execution succeeds or not.
MetadataSaved(m) ==
  LET r == meta[ShardOf[m.to]][m.nonce] IN
  IF SentOnce
  THEN StoreMetadata(r, m.version, TRUE, FALSE, {ShardOf[m.from], ShardOf[m.to]})
  ELSE r

\* The record of the destination's shard when its token is saved.
Received(m) ==
  StoreMetadata(MetadataSaved(m), m.version, FALSE, own[m.to][m.nonce] # 0,
                {ShardOf[m.from], ShardOf[m.to]})

Accepted(m) == ~Stopped(m.to, m.nonce, m.ret) /\ CanAddLiquidity(Received(m), m.val)

\* dctNFTTransfer on the destination's shard.  The record that is saved has the
\* properties of the message: a returned transfer unfreezes the record it reaches.
Deliver(m) ==
  /\ Accepted(m)
  /\ quantity' = [quantity EXCEPT ![m.to][m.nonce] = @ + m.val]
  /\ frozen' = [frozen EXCEPT ![m.to] = @ \ {m.nonce}]
  /\ own' = [own EXCEPT ![m.to][m.nonce] = OwnCopy(m.version, m.val)]
  /\ meta' = [meta EXCEPT ![ShardOf[m.to]][m.nonce] = AddLiquidity(Received(m), m.val)]
  /\ inFlight' = inFlight \ {m}
  /\ UNCHANGED <<paused, latest, supply, epoch>>

Refused(m) == ~m.ret /\ (m.to \in Contracts \/ ~Accepted(m))

\* MUTATION: the answer goes to the destination again.
SendBackNowhere(m) ==
  /\ Refused(m)
  /\ inFlight' = (inFlight \ {m}) \cup {[m EXCEPT !.ret = TRUE]}
  /\ meta' = [meta EXCEPT ![ShardOf[m.to]][m.nonce] = MetadataSaved(m)]
  /\ UNCHANGED <<quantity, frozen, paused, own, latest, supply, epoch>>

\* MUTATION: the metadata of a transfer that fails are not saved.
SendBackUnsaved(m) ==
  /\ Refused(m)
  /\ inFlight' = (inFlight \ {m})
       \cup {[m EXCEPT !.from = m.to, !.to = m.from, !.ret = TRUE]}
  /\ UNCHANGED <<quantity, frozen, paused, own, meta, latest, supply, epoch>>

\* The node's answer to a transfer that the destination refuses or fails after.
SendBack(m) ==
  /\ Refused(m)
  /\ inFlight' = (inFlight \ {m})
       \cup {[m EXCEPT !.from = m.to, !.to = m.from, !.ret = TRUE]}
  /\ meta' = [meta EXCEPT ![ShardOf[m.to]][m.nonce] = MetadataSaved(m)]
  /\ UNCHANGED <<quantity, frozen, paused, own, latest, supply, epoch>>

-----------------------------------------------------------------------------
(* Calls of DCTSC and of the address that manages the metadata             *)

ToggleFreeze(a, k, freeze) ==
  /\ frozen' = [frozen EXCEPT ![a] = IF freeze THEN @ \cup {k} ELSE @ \ {k}]
  /\ UNCHANGED <<quantity, paused, own, meta, latest, inFlight, supply, epoch>>

\* The collection's record has no tokens: wiping it only ends the freeze.
WipeCollection(a) ==
  /\ 0 \in frozen[a]
  /\ frozen' = [frozen EXCEPT ![a] = @ \ {0}]
  /\ UNCHANGED <<quantity, paused, own, meta, latest, inFlight, supply, epoch>>

\* What a wipe of v tokens takes off the liquidity: of which nonce, 0 of none.
WipeLiquidity(s, n, v) ==
  IF "WipeSingleNFTLiquidityDecrease" \in Flags /\ n # 0
  THEN /\ CanAddLiquidity(meta[s][n], -v)
       /\ meta' = [meta EXCEPT ![s][n] = AddLiquidity(@, -v)]
  ELSE UNCHANGED meta

\* dctFreezeWipe with wipe set
Wipe(a, n) ==
  /\ n \in Nonces \cap frozen[a]
  /\ WipeLiquidity(ShardOf[a], WipedNonce(n), quantity[a][n])
  /\ quantity' = [quantity EXCEPT ![a][n] = 0]
  /\ frozen' = [frozen EXCEPT ![a] = @ \ {n}]
  /\ own' = [own EXCEPT ![a][n] = 0]
  /\ supply' = [supply EXCEPT ![n] = @ - quantity[a][n]]
  /\ UNCHANGED <<paused, latest, inFlight, epoch>>

TogglePause(s) ==
  /\ paused' = IF s \in paused THEN paused \ {s} ELSE paused \cup {s}
  /\ UNCHANGED <<quantity, frozen, own, meta, latest, inFlight, supply, epoch>>

DeleteMetadata(s, n) ==
  /\ "SendAlways" \in Flags
  /\ meta' = [meta EXCEPT ![s][n] = NoRecord]
  /\ UNCHANGED <<quantity, frozen, paused, own, latest, inFlight, supply, epoch>>

\* The metadata are an argument: any version the token had.
AddMetadata(s, n, version) ==
  /\ "SendAlways" \in Flags
  /\ meta[s][n] = NoRecord
  /\ meta' = [meta EXCEPT ![s][n] = [NoRecord EXCEPT !.version = version]]
  /\ UNCHANGED <<quantity, frozen, paused, own, latest, inFlight, supply, epoch>>

-----------------------------------------------------------------------------

\* EnableEpochsHandler: the next epoch begins, whatever is on its way.
Activate ==
  /\ epoch + 1 \in DOMAIN Schedule
  /\ epoch' = epoch + 1
  /\ UNCHANGED <<quantity, frozen, paused, own, meta, latest, inFlight, supply>>

Next ==
  \/ Activate
  \/ \E a \in Accounts, n \in Nonces, v \in Amounts :
       NFTCreate(a, n, v) \/ NFTAddQuantity(a, n, v) \/ NFTBurn(a, n, v)
  \/ \E a \in Accounts, n \in Nonces : NFTAddURI(a, n) \/ NFTUpdateAttributes(a, n)
  \/ \E from, to \in Accounts, n \in Nonces, v \in Amounts :
       \/ TransferInShard(from, to, n, v)
       \/ \E id \in TransferIds : SendToOtherShard(id, from, to, n, v)
  \/ \E m \in inFlight : Deliver(m) \/ SendBack(m)
  \/ \E target \in Freezable :
       \/ \E freeze \in BOOLEAN : ToggleFreeze(target[1], target[2], freeze)
       \/ Wipe(target[1], target[2])
       \/ target[2] = 0 /\ WipeCollection(target[1])
  \/ \E s \in Shards : TogglePause(s)
  \/ \E s \in Shards, n \in Deletable :
       DeleteMetadata(s, n) \/ \E v \in 1..latest[n] : AddMetadata(s, n, v)

Spec == Init /\ [][Next]_vars

-----------------------------------------------------------------------------
(* Properties                                                              *)

LocalHolders(s) == {a \in Accounts : ShardOf[a] = s}

HeldIn(s, n) == SumFunctionOnSet([a \in Accounts |-> quantity[a][n]], LocalHolders(s))

\* A record that counts liquidity counts exactly the tokens held in its shard, so
\* it is deleted when the last of them leaves and not before.  Every path that
\* changes a quantity has to tell the liquidity, once (AddToLiquiditySystemAcc).
\* Needs the wipes to decrease the liquidity of the token they wipe, and no metadata
\* to be deleted under a holder.
LiquidityCounted ==
  \A s \in Shards, n \in Nonces \ Deletable :
    meta[s][n].tracked => meta[s][n].liquidity = HeldIn(s, n)

\* Even when the metadata are deleted under a holder and come back with a later
\* transfer, the liquidity of a record is never zero and never more than its shard
\* holds: whoever sends a token away does not leave a record behind that nothing can
\* ever bring to zero.
LiquidityCovered ==
  \A s \in Shards, n \in Nonces :
    meta[s][n].tracked => meta[s][n].liquidity \in 1..HeldIn(s, n)

\* Who has a token finds its metadata in its shard; without them it could neither
\* send the token to another shard nor burn it (AddToLiquiditySystemAcc fails).
HoldersHaveMetadata ==
  \A a \in Accounts, n \in Nonces \ Deletable :
    quantity[a][n] > 0 => meta[ShardOf[a]][n] # NoRecord

\* Of a token that exists once the holder reads the latest metadata, through every epoch:
\* a change made in one shard is not lost when the token goes to another and comes back,
\* although the records it left behind are out of date, and although the copy of an
\* account gives way to a record of its shard (saveMetadataIfRequired).
HolderSeesLatest ==
  \A a \in Accounts, n \in Nonces \ Deletable :
    MaxSupply[n] = 1 /\ quantity[a][n] > 0 => Version(a, n) = latest[n]

\* While metadata are sent to a shard only once, a shard that a record says has them has
\* them, or they are on their way to it, whatever changes, fails, comes back or is
\* overtaken meanwhile (WasAlreadySentToDestinationShardAndUpdateState "checks whether NFT
\* metadata was sent to destination shard or not").  For tokens created since then.
SentShardsGetMetadata ==
  SentOnce => \A s, t \in Shards, n \in Nonces :
    "SaveToSystemAccount" \in Schedule[Launch[n]] /\ t \in meta[s][n].sent
      => \/ meta[t][n] # NoRecord
         \/ \E m \in inFlight : m.nonce = n /\ m.version # 0 /\ ShardOf[m.to] = t

\* The first move of a token whose metadata are still on its account leaves the liquidity
\* of the shard alone, for it was never counted (setReservedToNilForOldToken: old tokens
\* "are not compatible with the new liquidity model").
OldTokensNotCounted ==
  [][\A a \in Accounts, n \in Nonces :
       /\ own[a][n] # 0 /\ own'[a][n] = 0
       /\ \E m \in inFlight' \ inFlight : m.from = a /\ m.nonce = n
       /\ meta[ShardOf[a]][n].tracked
       => meta'[ShardOf[a]][n].liquidity = meta[ShardOf[a]][n].liquidity]_vars

\* A stopped account keeps its tokens: whoever is frozen, for the token or for the
\* whole collection, or lives in a shard where the collection is paused, gets and loses
\* none but by a wipe or by the return of its own transfer (checkFrozenPauseProperties).
StoppedTokensStay ==
  [][\A a \in Accounts, n \in Nonces :
       /\ latest[n] > 0
       /\ \/ n \in frozen[a]
          \/ ShardOf[a] \in paused
          \/ "CheckFrozenCollection" \in Flags /\ 0 \in frozen[a]
       /\ quantity'[a][n] # quantity[a][n]
       => \/ n \in frozen[a] \ frozen'[a] /\ quantity'[a][n] = 0
          \/ \E m \in inFlight \ inFlight' :
               m.ret /\ m.to = a /\ m.nonce = n /\ quantity'[a][n] = quantity[a][n] + m.val]_vars

\* A wipe takes the wiped tokens off the liquidity of their shard
\* (dctFreezeWipe.removeLiquidity and the test of its flag).
WipeDecreasesLiquidity ==
  [][\A a \in Accounts, n \in Nonces :
       /\ n \in frozen[a] \ frozen'[a]
       /\ quantity[a][n] > 0 /\ quantity'[a][n] = 0
       /\ meta[ShardOf[a]][n].tracked
       => meta'[ShardOf[a]][n].liquidity = meta[ShardOf[a]][n].liquidity - quantity[a][n]]_vars

\* A message as a transfer of TokenEscrow: a return is still the sender's.
OriginOf(m) ==
  [id |-> m.id, val |-> m.val,
   from |-> IF m.ret THEN m.to ELSE m.from, to |-> IF m.ret THEN m.from ELSE m.to]

Escrow(n) == INSTANCE TokenEscrow
               WITH Holders <- Accounts, Values <- Amounts,
                    holding <- [a \in Accounts |-> quantity[a][n]],
                    pending <- {OriginOf(m) : m \in {x \in inFlight : x.nonce = n}},
                    supply <- supply[n]

\* Every token of the collection implements TokenEscrow: each transfer is settled once,
\* to its destination or to its sender, and tokens come and go only by creating, adding,
\* burning and wiping.  This is \A n \in Nonces : Escrow(n)!Spec, with the quantifier
\* moved inside.
ImplementsEscrow ==
  /\ \A n \in Nonces : Escrow(n)!Init
  /\ [][\A n \in Nonces : [Escrow(n)!Next]_(Escrow(n)!vars)]_vars
=============================================================================
