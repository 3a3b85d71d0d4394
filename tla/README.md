# k-vm-common-go in TLA+

The repository holds what the virtual machines of a sharded chain have in common:
the built-in functions that move tokens between accounts and shards
(`builtInFunctions/`), the container that serves them (`container/`), and the parsers
and types around them. This directory holds its specification: TLA+ modules translated
from the code, TLC configurations that check them on small instances, and theorems
that TLAPS has checked for every instance.

    tlc -config MCFungibleLedger_ledger.cfg MCFungibleLedger
    tlapm FungibleLedgerProofs.tla

`PROJECT.json` lists the components, the runs with a mutant for each property, the
lines of code that every definition stands for, findings, hazards and theorems.

## 1. The system

**How it runs.** A node executes the transactions of its shard one after the other.
For a built-in function it looks the name up in the container and calls
`ProcessBuiltinFunction` with the accounts of sender and destination that live in the
shard (nil for the one that does not). The function changes account storage and
answers with a `VMOutput`, whose output transfers the node turns into messages to
other shards. If the function returns an error, the node undoes everything the call
did; when the call came from another shard, it sends the tokens back with
`ReturnCallAfterError` set. Settings, freezes and roles come from the DCT system
contract (DCTSC) on the metachain, in messages of their own. Each shard has a *system
account*, with the settings of the tokens, the metadata and the liquidity of NFTs.

| Component | State | Operations | Interacts by | What is hard |
|---|---|---|---|---|
| Fungible tokens (`dctTransfer`, `dctBurn`, `dctLocalMint`, `dctLocalBurn`) | balance and frozen flag per account | transfer, its execution at the destination, its return, mint, burn | messages between shards; settings; roles; payable check | freezes and pauses change while tokens are on their way; what was checked at the sender no longer holds at the destination |
| Freeze, wipe, settings, roles, transfer addresses (`dctFreezeWipe`, `dctGlobalSettings`, `dctRoles`, `dctTransferRole`) | flags per account and per shard | toggles by DCTSC | messages from the metachain to every shard, at different times | shards disagree for a while |
| Payment to contracts (`payable.go`) | none | `CheckPayable`, `DetermineIsSCCallAfter` | called by every transfer | a return must be accepted by a contract that accepts nothing |
| NFT create role (`dctNFTCreateRoleTransfer`, `dctRoles`) | role and last nonce per account | give, move, receive, create | a message that carries the nonce to the next shard | two creators, reused nonces |
| Several creators (`dctRoles.computeStartNonce`) | a counter per creator | set, unset, create | nothing: the spaces must keep them apart | arithmetic on the last byte of addresses |
| NFTs (`dctNFT*`, `updateNFTAttributes`, `dctDeleteMetadata`, `dctDataStorage`) | quantity per account; metadata on accounts or per shard, liquidity and a bitmap of informed shards | create, add, burn, change, transfer, freeze, wipe, delete and add metadata; the activation of an epoch | messages that carry the metadata, or rely on earlier ones | stale metadata in shards the token has left; liquidity counted by many operations; three ways to keep metadata, one after the other |
| Multi transfer (`multiDCTNFTTransfer`) | as above | a list of transfers in one call | one message for the list | failure in the middle, one token twice, the whole list coming back |
| Container, gas schedule (`creator`, `container`, `mutexMap`, the locks of each function) | map of functions, costs in each | get, add, replace, remove, keys; change of the schedule | goroutines, `sync.RWMutex` | costs change under running calls; the map changes under the loop |
| SaveKeyValue (`keyValueStorage`) | keys of one account | save | — | gas is added pair by pair and subtracted at the end, in 64 bits |
| Account functions (`changeOwnerAddress`, `claimDeveloperRewards`, `saveUserName`) | owner and rewards of a contract, name of a user | change, claim, name | executed in the caller's shard and again in the account's; output transfers | calls that cross a change of owner; who is paid, and who gives gas back, in which shard |
| Virtual machine output (`output.go`) | accumulated account updates | merge | called by virtual machines | merging twice |
| Parsers, transaction builder (`parsers`, `txDataBuilder`) | none | pure functions | — | arguments that do not match |

## 2. Modules

| Module | Models | Composes |
|---|---|---|
| `TokenEscrow` | the promise of a token: amounts are held or pending in one transfer, settled once; only what is booked in the supply comes or goes | — |
| `FungibleLedger` | fungible tokens, freezes, settings, roles, payment | instantiates `TokenEscrow` |
| `NFTLedger` | NFTs of a collection through the epochs, metadata and liquidity | instantiates `TokenEscrow`, once per token |
| `NFTCreateRole` | the create role with its nonce, moving between shards | — |
| `MultiShardNonces` | creators in several shards with spaces of their own | — |
| `MultiTransfer` | lists of tokens | — |
| `MultiTransferArguments` | the arguments that lists travel in, read by the function and by the transfer parser | extends `MultiTransfer` |
| `AccountFunctions` | owner, rewards, name and stored values of accounts | — |
| `GasSchedule` | container, concurrent calls, change of the schedule | — |
| `FoldLemmas` | lemmas about sums over finite sets and folds over lists | extends TLAPS |
| `*Proofs` | theorems about the module they extend | extends it, TLAPS and, for sums and folds, `FoldLemmas`; `MultiTransferProofs` instantiates `TokenEscrow`, once per token |
| `MC*` | constants for TLC | extends the module |

**Common conventions.** An action is one call that succeeds. A call that fails leaves
no trace, because the node undoes it, so it is no step; only a failure on another shard
is one (`SendBack`, the node's answer, external to this repository). Guards are the
conditions under which the code does not return an error. `inFlight` holds the messages
between shards, a set: the node may execute them in any order. `ret` is
`ReturnCallAfterError`. The flags of the epochs (`EnableEpochsHandler`) are the constant
`Flags` in `FungibleLedger` and `MultiTransfer`, where an instance is the chain between two
activations; in `NFTLedger` they change (`Activate`). Bytes, logs, gas and the
encoding of arguments are left out except where a module is about them.
Definitions marked `MUTATION` are wrong variants of the one below them; they are used
by nothing here and serve to show that each property can fail.

**FungibleLedger.** `balance` and `frozen` are `DCToken.Value` and the frozen bit of
`DCToken.Properties`; `settings[s]` and `listed[s]` are the system account of shard `s`
(paused, limited, burnForAll; addresses with the transfer role); `granted` is the
`DCTRoles` record; `supply` is DCTSC's account of the total. `TransferInShard`,
`SendToOtherShard` and `Deliver` are the three ways through
`dctTransfer.ProcessBuiltinFunction`, by which accounts are nil. `Accepts` joins the
checks of the destination (`addToDCTBalance`, `CheckPayable`); `TransferAllowed` is the
limited-transfer check. `Issue` is DCTSC sending new supply. `MaxInForce` bounds how many
freezes, settings, roles and listings there are at one time, not which, so that every pair
of them meets.

**NFTLedger.** `meta[s][n]` is the record of token `n` in the system account of shard
`s`: the version of the metadata (all of name, URIs, attributes... as one number), whether
`Reserved` says that it counts liquidity, `Value`, the liquidity, and the shards marked in
`Properties` as having the metadata. `own[a][n]` is the copy of the metadata on the account
itself, which the code reads when the system account has none. `StoreMetadata` is
`saveDCTMetaDataToSystemAccount`, `AddLiquidity` is `AddToLiquiditySystemAcc`; both are
functions of a record, so an action writes `meta` once. `latest` counts versions and
`supply` the tokens; neither is in the code, they are there for the properties. `epoch`
counts along `Schedule`, a sequence of sets of flags: metadata on accounts, then sent to a
shard once (`SaveToSystemAccount`), then always (`SendAlways`). `Activate` is one step for
all shards, and messages may cross it. Two simplifications: transfers of quantity zero are
left out, and metadata are changed only by who finds them (`NewVersion`). Of the payable
check only the outcome is kept: any account of `Contracts` may refuse a transfer or fail after
it, and a return is taken, as it is since `FixAsyncCallbackCheck`; the check itself is in
`FungibleLedger` and `MultiTransfer`. Two consequences of the code are left standing, outside
the properties:

- A message sent before `SaveToSystemAccount` and executed after it marks the shard of
  its sender as informed, although there is no record there. `SentShardsGetMetadata` is
  therefore about tokens created since (`Launch`).
- While metadata are sent once, a message without them may be executed before the one that
  brings them. If its tokens are sent on, or an epoch begins, before that one arrives, the
  holder is without metadata. In which order a node executes messages is not decided in
  this repository.

**NFTCreateRole, MultiShardNonces.** `latestNonce` is the value under `getNonceKey`,
`createRoles` how often the role is listed (`DCTSetRole` appends without looking,
`deleteRoles` takes off one). `orders` are DCTSC's calls and `roleMsgs` the messages that
carry a nonce. `serialised` records whether DCTSC has let every move end before the next;
that contract is not in the repository, so it may do either, and a property says which of the
two it is about.

In `MultiShardNonces` DCTSC sets, unsets and sets again the multi-shard roles of any address.
Each time the counter goes back to the start of the space (`PutBack`, `dctRoles.go:72-83`), so
that nonces do repeat after a second setting: the model shows it, and the properties say when
it can happen. `NoncesRepeatOnlyIfPutBack` holds whatever DCTSC does; `DistinctNonces` is about
a DCTSC that gives the roles to an address once at most and to no two that end alike
(`GivenOnce`), and may unset them at will. Which of the two DCTSC is, is not decided in this
repository. `sets`, `resets` and the `term` of a token are history, not in the code.
`HasSpace` bounds a creator by its space, which the comment at `dctRoles.go:98` says cannot be
used up.

**MultiTransfer.** A list is folded over a result record (`ok`, quantities, liquidity), as
the loop of the code goes through the entries; `Commit` keeps the result if every entry
went well. The payable check is modelled with its flags and the kinds of calls
(`MustVerifyPayable`): the destination may refuse the list by it, or stop or lack the
liquidity for one of its entries (`Accepts`), or the contract called after the list may fail
(`CallFollows`); the list then comes back whole (`Returned`). The other errors of
`addNFTToDestination` are of records or messages that cannot be unmarshalled, and are left
out. Accounts live in shards other than the metachain. Balances and liquidity only: metadata
are `NFTLedger`'s, roles `FungibleLedger`'s (`Barred` stands for the pairs they refuse). The
liquidity is that of the epochs that count it, in which every message brings the metadata.

**MultiTransferArguments.** An argument is what was written in it and its length. The module
writes a list as the user does (`CallArguments`) and as the sender's shard does
(`MessageArguments`), and reads it three ways: as the function does at the sender, as it does
at the destination, and as `parseMultiDCTNFTTransfer` does without knowing which of them it
looks at. That a marshalled token is longer than the 32 bytes of a number is an assumption:
its metadata hold the address of the creator.

**AccountFunctions.** A call between shards is a message in `calls`: the function runs
without the account where the caller lives (`CallOtherShard`, which has the checks that need
no account) and with it where the account lives (`Execute`, or `Fail` if it is refused).
`payouts` are the output transfers of claims; `reward`, `balance`, `owner` and `userName`
are fields of the accounts. `last` is the gas of the call that the last step completed:
what its caller provided, what it cost, and what both executions gave back.
`SaveKeyValue` folds the pairs of a call as its loop does, and subtracts the gas modulo
`Word`, which stands for 2^64.

**GasSchedule.** One step per access to shared state: the map's operations hold its
mutex throughout; `SetNewGasConfig` takes a lock and writes two fields; a call reads costs
when it checks and when it charges. `dctNFTCreate` stands for the functions, which all
lock in the same way. A waiting writer stops new readers, as `sync.RWMutex` documents.

## 3. Runs

| Run | Question | Bounds |
|---|---|---|
| `fungible_ledger` | With freezes, wipes, pauses, limits and roles at any time: conserved, stopped accounts keep their tokens, refunds accepted, limited transfers need the role of one side, each transfer settled once, and in the end | 2 users in a shard, a contract that is not payable in another, DCTSC; supply 2, amount 1, 2 messages: two transfers cross, one returns while another leaves; any 2 freezes, settings, roles or listings in force |
| `create_role` | The role moves within and between shards: it is never lost, and while each move ends before the next, nonces are consecutive, there is one creator, and every owner gets the role | 2 accounts in each of 2 shards, 3 tokens, 2 calls or messages under way |
| `multishard` | Nonces are distinct if the roles are given once, and repeat only where creators end alike or a counter was put back, whatever is set and unset | 3 accounts, last bytes 0, 1 and again 1, spaces of 2 nonces, each counter put back up to 3 times, 4 tokens: creators come to the end of their spaces, and nonces repeat in both ways |
| `nft_ledger` | Liquidity exact, holders have metadata, stopped accounts keep tokens, transfers settled once | 3 accounts in 2 shards; one token at a time of three kinds: semi-fungible (supply 2), single (3 versions), with metadata deleted and added by hand; 2 messages |
| `nft_epochs` | The holder of a single token sees its latest metadata through all epochs; shards marked as informed are | 3 accounts in 3 shards, 3 epochs, 2 messages; a token of supply 1 with 3 versions (changed in two shards, with stale records left behind), or one of supply 3 |
| `nft_wipe` | **violated**, see Findings | nonces 1 and 45 |
| `nft_old` | **violated**, see Findings | a token of supply 2 created before the epochs, 1 message |
| `multi_transfer` | A list does what its totals say or nothing; liquidity, conservation; a list that comes back is taken, also by a contract that is not payable; the parser reads what is moved | 2 users in a shard and a contract that is not payable in another; all lists of 1 or 2 entries over a fungible token and an NFT, values 0 to 3, of which 3 stands for more than 32 bytes; direct and asynchronous calls, with and without a function after the list; one freeze and one pause at the users, 1 message |
| `account_accounts` | Rewards are paid once and to the owner, gas given back once, names stay, growing storage is paid for | 2 users and 2 contracts in 2 shards, 2 rewards, 2 messages; the owner may be either user or the contract itself |
| `account_gas` | **violated**, see Findings | same |
| `gas_edits` | No call mixes schedules; a change reaches all unless a key is gone; change and calls end | 2 functions, 2 executors, 3 objects, 2 changes, one key edited |
| `gas_removal` | **violated**, see Findings | same |

`nft_ledger` and `nft_epochs` do not check the sum of the tokens: `ImplementsEscrow`, which
is proved, says it already, for every step of `TokenEscrow` conserves what is held and
pending.

The hazards need two actors and at most two messages: a crossing, a return that meets a
freeze, a stale record in the shard left before. The instances have both and mostly a third
account in the same shard for transfers that use no message. Symmetry is used only for the
ids of messages in a run without liveness.

**Fairness.** `FairSpec` of `FungibleLedger` and `NFTCreateRole`: weak fairness of the
execution of each message, because a node executes what reaches its shard; users and DCTSC
owe nothing. A message that is refused becomes a return, and a return is always
accepted, so weak fairness per id is enough. `FairSpec` of `GasSchedule`: a goroutine that can
go on does; nobody has to start a change or a call, and calls may come without end.

**Findings.**

- `nft_wipe`: `extractTokenIdentifierAndNonceDCTWipe` (`logsAndEvents.go:47`) splits the key
  of the wiped token at every `-`, also where that byte belongs to the nonce (45 and other
  nonces with such a byte). The nonce is read wrong and the liquidity of the token is not
  decreased, which `TestDctFreezeWipe_WipeShouldDecreaseLiquidityIfFlagIsEnabled` expects (it
  wipes nonce 37). `WipedNonce` models the split byte by byte.
- `nft_old`: `dctDataStorage.go:293` looks at the account that is saved to decide whether a
  token is an old one, whose liquidity was never counted; the mark is kept per token and
  shard. When another account's transfer arrives first, the record counts, and the first move
  of the old tokens is taken off it: the record may be deleted while tokens are left. The
  comment at `dctDataStorage.go:480` says that the field is set to nil for old tokens
  because they are not compatible with the new liquidity model.
- `account_gas`: `SaveKeyValue` does not compare the gas used with the gas provided for a pair
  whose value is already stored (`keyValueStorage.go:75-77`), and `:99` subtracts one from
  the other: if the last pairs of a call are such, `GasRemaining` may wrap around to almost
  2^64. `output.go:123` says that it is the gas provided less the gas used. The bytes that
  are really added are always paid for (`GrowthPaid`).
- `gas_removal`: `GasScheduleChange` (`creator.go:93`) returns when a key is gone from the
  container; functions not yet reached keep their costs, while the comment at
  `creator.go:82` says that all contracts must be updated.

## 4. Theorems

They hold for all sets of accounts, shards, flags and messages that satisfy the named
assumptions of the modules (`AddressAssumption`, `ParameterAssumption`, `RoleAssumption`,
`SpaceAssumption`, `NFTAssumption`, `MultiAssumption`, `LengthAssumption`,
`AccountAssumption`, `GasAssumption`), which TLC evaluates for each instance. Where something is added up, the
assumptions say that there are finitely many accounts, tokens or keys.

| Module | Theorem | Argument |
|---|---|---|
| `FungibleLedgerProofs` | `TypeCorrect`: `[]TypeOK` | inductive with `UniqueTransfers`: ids tell messages apart |
| | `RefundsAlwaysAccepted`: `[]RefundsAccepted` | `Accepts` of a returned message needs only its type: the checks let it through |
| | `StoppedAccountsKeepFunds`: `[][StoppedFundsStep]` | one case per action: every one that changes a balance is guarded by `Blocked`, ends a freeze by wiping or takes back a return |
| | `LimitedTransfersHaveRole`: `[][LimitedTransferStep]` | with the supply unchanged only `TransferInShard` and `SendToOtherShard` take tokens from an account, and both ask `TransferAllowed` first; its party is the sender, or the receiver, whose balance grows or whose message is new (`Unused`) |
| | `TokensConserved`: `[]Conservation` | a step changes the balances of at most two accounts and adds or removes one message; the lemmas of `FoldLemmas` say what that does to the two sums. `UniqueTransfers` is needed for the return, whose message must not be there yet |
| | `LedgerImplementsEscrow`: `Spec => Escrow!Spec` | pending transfers are the messages with sender and destination of a return swapped back (`OriginOf`); `SendBack` is a stutter, `Deliver` of a return is `Cancel`. Distinct ids are needed so that settling one message removes one pending transfer |
| `NFTLedgerProofs` | `TypeCorrect`: `[](TypeOK /\ UniqueTransfers /\ Uncreated)` | a step does to quantities, messages and supply one of six things (`Effect`: gain, loss, shift, leave, arrive, return), and to the rest what `RestKept` says; the other theorems use these two lemmas. `Uncreated` (of a token without versions there is nothing anywhere) is needed because `NFTCreate` overwrites the quantity, and is an addition only when it was zero |
| | `StoppedTokens`: `StoppedTokensStay` | every shape of `Effect` that changes a quantity is guarded by `Free`, wipes, or takes back a return |
| | `EveryTokenImplementsEscrow`: `ImplementsEscrow` | per token as for the fungible ledger; a step on another token is a stutter |
| | `LiquidityTold`, `LiquidityNotOvercounted`, `MetadataFound`: `LiquidityCounted`, `LiquidityCovered`, `HoldersHaveMetadata` | assume `CountingEpochs` and `PlainNonces`. The invariant `LInv` relates the record of a token in a shard to the sum of what the accounts of the shard hold (`HeldIn`): equal, or for a token whose metadata can be deleted, from one to the sum. It needs that no copy is on an account (`own` is 0) and that a message brings the metadata of its token |
| | `SentMetadata`: `SentShardsGetMetadata` | assumes `LastingFlags`. For a token of these epochs (`Modern`) a marked shard has a record or a message with the metadata is on its way there (`Reached`); a shard is marked when metadata are sent to it, and a message that brings metadata comes from a shard with a record, so that nothing is lost when it is returned instead |
| | `LatestSeen`: `HolderSeesLatest` | assumes `LastingFlags`, `MendedEpochs` and `PlainNonces`. A token of supply 1 is with one account, in one message, or nowhere (`UInv`). In the first case what that account reads is the latest version; in the second the message brings it; stale records elsewhere do not count liquidity, so that the delivery overwrites them |
| `NFTCreateRoleProofs` | `TypeCorrect`, `RoleStays` | whatever DCTSC does, a role is taken only where there is one (`TypeOK`), and what takes it leaves an order or a message for the next owner, so `RoleNotLost` is inductive |
| | `NoncesConsecutive`, `OneCreator` | while `serialised` the *token* (role and nonce) is in one place: an account that has the role, a message, or an order about to give it. The inductive invariant says where, and that the nonce there is the number of tokens created |
| `MultiShardNoncesProofs` | `TypeCorrect`, `NoncesDistinct`, `NoncesRepeatRarely`: `[]DistinctNonces`, `[]NoncesRepeatOnlyIfPutBack` | a counter is not behind a nonce of its term, which begins when it is put back (`Counters`), so nonces of one term differ; every nonce is in the space of its creator, and spaces are disjoint because `Stride` times different bytes are at least `Stride` apart. Who was given the roles once created all its tokens in one term (`OneTerm`), because the term ends with the role |
| `MultiTransferProofs` | `TypeCorrect`, `TokensConserved`, `LiquidityTold`: `TypeOK`, `Conservation`, `LiquidityCounted` | one inductive invariant `IInv` (types, finitely many messages with distinct ids, the two sums). A call is a fold over its list: what one entry does to the sums is carried to the whole list by induction over its prefixes (`RanUpTo`), and a list that fails is undone (`Commit`) |
| | `ReturnsTaken`: `[]ReturnsAccepted` | no entry of a return is stopped, by induction over the list; the liquidity it is added to is what the shard had and the entries before have added (`RanUpTo`), so never less than nothing; and the payable check passes returns since `FixAsyncCallbackCheck`, and payable accounts before. All three parts of `Accepts` are needed |
| | `TotalsSay`: `[]ListsAddUp` | while a list goes on, each token of the sender is down and of the receiver up by the total of the entries done (`Sum` of the prefix); a balance is large enough for every prefix just when it is for the total, because no value is negative |
| | `ParserReads`: `[]ParserReadsTransfers` | the arguments of a list of `n` entries are a head and `n` triples; entry `i` is found at `3i-2` to `3i` after the head, by induction over the triples written (`FlattenTriples`). Only the length tells a number from a marshalled token, and `LengthAssumption` keeps their lengths apart |
| | `ListsAreEscrow`: `StepsAreEscrow` | per token a list is one transfer of its total (`Sum`): `TransferInShard` is `Move`, `SendToOtherShard` is `Reserve`, `Deliver` is `Commit` or `Cancel`, the rest are stutters. Stated in the proofs module only; the mapping is that of the other two ledgers |
| `AccountFunctionsProofs` | `NamesKept`: `NamesStay` | of the three functions only `SetUserName` changes a name, and its check of the name is made where the name is |
| | `OwnerIsPaid`: `RewardsGoToOwner` | the invariant `AInv` (types of what messages change, ids tell messages apart) makes a claim's payout new; without it a second claim with equal rewards might add nothing |
| | `GasBackOnce`: `[]GasGivenBackOnce` | what the sender's shard gives back (`GivenBack`) and what the destination's leaves add up to the gas less the cost at most, for each function and place |
| | `RewardsPaidOnce`: `[]RewardsConserved` | with `AInv` a claim empties the reward into one balance or one new payout, and a payout is executed once; the rest is the sum lemmas |
| | `TypeCorrect`, `GrowthIsCovered`: `[]TypeOK`, `GrowthPaid` | induction over the pairs of a call (`SavedRuns`, `SavedCovered`): the storage keeps its type, and for every prefix of the list the bytes added cost at most the gas used so far, which is at most the gas provided whenever bytes were added |
| `GasScheduleProofs` | `TypeCorrect`, `NoMixedCosts`: `[]OneSchedulePerCall` | the inductive invariant `GInv`: while a function is being rewritten nobody reads it (`Exclusion`); but for that function both costs are of one schedule (`CostsAgree`); what a call has seen is what its function still charges (`SeenIsCharged`) |
| | `ChangeReaches`: `[][ChangeReachesStep]` | the invariant `RInv`: a key nobody edits keeps its function (`Kept`), which during a change is still to do, in hand, or has both new costs (`Reached`); a change can end with an empty list or at a key that is gone |

**Hypotheses of the metadata theorems.** They say in which epochs (`Schedule`) the code
makes the promise at all, and are satisfied by the runs that check the properties
(`CountingEpochs` and `PlainNonces` by `nft_ledger`, the other two by `nft_epochs`):

- `CountingEpochs`: `SaveToSystemAccount`, `SendAlways` and `WipeSingleNFTLiquidityDecrease`
  are enabled throughout. Before, records do not count liquidity, and a wipe does not take
  from it (`dctFreezeWipe.go`).
- `LastingFlags`: a flag once enabled stays enabled, as an epoch handler compares the
  current epoch with the one in the configuration.
- `MendedEpochs`: where `SendAlways` is enabled, `AlwaysSaveTokenMetaData` and
  `FixOldTokenLiquidity` are. Without the first, `saveMetadataIfRequired`
  (`dctDataStorage.go:431`) leaves the stale record of a shard to which the token comes
  back, and the holder reads that; without the second, tokens that were never counted are
  subtracted from records. `nft_epochs` goes through three epochs of this kind.
- `PlainNonces`: no byte of a nonce is 45; the run `nft_wipe` shows what happens otherwise.

**Induction over data.** The library's induction theorems take an operator as a
parameter, which the provers cannot instantiate. `SetInduction` in `FoldLemmas` takes a set
of numbers instead: if a number were not in it there would be a least one, because `<` on
the naturals is well-founded. Every induction here is over such a set, of the sizes or
indices for which the fact holds. Sums: the recursive function behind `SumFunction` exists on
all subsets of a finite set (`AddsExists`), so it may be unfolded, and it follows one
changed value (`SumChange`), a new or removed element (`SumAdd`, `SumRemove`), and is at
least each of its terms (`SumAtLeast`). Lists: `FoldExists` says the same of the function
behind `FoldLeft`, and `FoldPasses` that a fold goes from one result to the next, entry by
entry. `MultiTransferProofs` and `AccountFunctionsProofs` then show by induction over the
index what holds of every result on the way.

**Only model-checked.** Liveness (`TransfersSettle`, `NewOwnerCreates`, `ChangeEnds`,
`CallsEnd`), which needs fairness and ENABLED. Every safety invariant and action property
of the passing runs has a theorem. The four violated properties have counterexamples, and
no theorem.

## 5. Not modelled

- `output.go`: merging of output accounts. Nothing under `src/` calls it but its tests, and
  what the virtual machines merge, and how often, is not in the repository.
- The parsers but that of multi transfers: the other transfer parsers take their arguments by
  position; those of call, deploy and storage data split strings; `dataField` describes
  transactions for display. In `MultiTransferArguments` the number of transfers is a number
  that fits: its 64-bit arithmetic (`multiDCTNFTTransfer.go:151`) is not modelled.
- The transaction builder, addresses, code metadata, interfaces and errors: formatting,
  predicates on bytes and declarations. Mocks: test code.
- The construction of the container, `SetPayableHandler`, and the switches that make a
  function inactive before its epoch.
- Gas inside the token functions: their order of checks is the same in every path, and a
  call without enough gas fails without a trace. `GasLocked`, kept for callbacks.
- Logs, except the identifier of a wiped token, which decides what is written.
- A system contract that breaks its own rules; a node that loses or repeats a message
  between shards; shards that activate an epoch at different times. All are outside the
  repository.

## 6. Plan

1. Core, done: fungible tokens with escrow, roles and nonces, NFTs, lists, gas schedule;
   theorems for the first three.
2. Second part, done: NFTs through the epochs with the bitmap of informed shards, the account
   functions, `SaveKeyValue`, the arguments of lists and their parser; the create role under
   a DCTSC that waits and one that does not, in one model.
   Theorems for the account functions and the gas schedule.
3. Third part, done: theorems for every safety invariant and action property that the passing
   runs check; lists of transfers as steps of `TokenEscrow`; the lemmas on sums and folds.
4. Next: lemmas towards liveness that need no fairness, such as which action settles a
   message and that nothing but its own delivery or return removes it; the steps of the
   create role between accounts as an implementation of a single token.
