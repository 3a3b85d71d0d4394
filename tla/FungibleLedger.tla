--------------------------- MODULE FungibleLedger ---------------------------
(***************************************************************************)
(* One fungible DCT token on a sharded chain: the built-in functions that  *)
(* transfer, mint, burn, freeze, wipe and pause it and that grant the      *)
(* rights to do so (src/builtInFunctions).  A built-in function runs       *)
(* atomically on the shard that executes it and an error leaves no trace,  *)
(* so an action is one successful call; its guard is what the code checks  *)
(* before it returns an error.  A transfer between shards is two calls     *)
(* with a message between them, and a call that fails at the destination   *)
(* makes the node send the tokens back in a call with ReturnCallAfterError *)
(* set.  Messages arrive in any order.                                     *)
(*                                                                         *)
(* The DCT system contract (DCTSC, on the metachain) and the scheduling of *)
(* messages are the node's: they are modelled from how src/ uses them.     *)
(***************************************************************************)
EXTENDS Integers, FiniteSets, FiniteSetsExt, Functions

CONSTANTS
  Accounts,    \* addresses that hold tokens, users and contracts
  DCTSC,       \* the address of the DCT system contract
  Shards,      \* the shards that execute user accounts
  Meta,        \* the metachain, home of DCTSC
  ShardOf,     \* the shard of every account
  Contracts,   \* accounts that are smart contracts
  Payable,     \* accounts IsPayable accepts: users and payable contracts
  Amounts,     \* values a call may carry
  CallTypes,   \* vm.CallType: "direct", "async", "callback", "execute"
  Followups,   \* argument after the value: "none", "empty" or a "named" function
  Freezable,   \* accounts that DCTSC may freeze
  Toggles,     \* pairs shard, setting that DCTSC may toggle
  Grantable,   \* pairs account, role that DCTSC may grant
  Listable,    \* pairs shard, transfer address that DCTSC may list
  MaxListed,   \* maxNumAddresses of NewDCTTransferRoleAddressFunc
  Flags,       \* the epoch flags that are enabled
  MaxSupply,   \* bound on the supply
  MaxInForce,  \* bound on the freezes, settings, roles and listings at one time
  TransferIds  \* one id per message between shards; bounds their number

Roles == {"mint", "burn", "transfer"}
Settings == {"paused", "limited", "burnForAll"}
Addresses == Accounts \cup {DCTSC}

ASSUME AddressAssumption ==
  /\ IsFiniteSet(Accounts)
  /\ DCTSC \notin Accounts
  /\ ShardOf \in [Accounts -> Shards]
  /\ Meta \notin Shards
  /\ Contracts \subseteq Accounts
  /\ Payable \subseteq Accounts

ASSUME ParameterAssumption ==
  /\ Amounts \subseteq Nat \ {0}
  /\ CallTypes \subseteq {"direct", "async", "callback", "execute"}
  /\ Followups \subseteq {"none", "empty", "named"}
  /\ Freezable \subseteq Accounts
  /\ Toggles \subseteq Shards \X Settings
  /\ Grantable \subseteq Accounts \X Roles
  /\ Listable \subseteq Shards \X Accounts
  /\ MaxSupply \in Nat /\ MaxInForce \in Nat /\ MaxListed \in Nat

VARIABLES
  balance,   \* DCToken.Value of every address, 0 when it has no record
  frozen,    \* Frozen in DCToken.Properties of every account
  granted,   \* how often every account's DCTRoles lists a role
  settings,  \* the settings that are on, in every shard's system account
  listed,    \* transfer addresses, in every shard's system account
  inFlight,  \* transfers that left a shard and have not been executed
  supply     \* issued and minted less burned and wiped: what DCTSC accounts for

vars == <<balance, frozen, granted, settings, listed, inFlight, supply>>

\* A transfer call as it travels: ret is vmInput.ReturnCallAfterError.
Transfers ==
  [id : TransferIds, from : Addresses, to : Addresses, val : Amounts,
   call : {"direct", "async", "callback", "execute"},
   then : {"none", "empty", "named"}, ret : BOOLEAN]

TypeOK ==
  /\ balance \in [Addresses -> Nat]
  /\ frozen \in [Accounts -> BOOLEAN]
  /\ granted \in [Accounts -> [Roles -> Nat]]
  /\ settings \in [Shards -> SUBSET Settings]
  /\ listed \in [Shards -> SUBSET Accounts]
  /\ inFlight \subseteq Transfers
  /\ supply \in Int

Init ==
  /\ balance = [a \in Addresses |-> 0]
  /\ frozen = [a \in Accounts |-> FALSE]
  /\ granted = [a \in Accounts |-> [r \in Roles |-> 0]]
  /\ settings = [s \in Shards |-> {}]
  /\ listed = [s \in Shards |-> {}]
  /\ inFlight = {}
  /\ supply = 0

-----------------------------------------------------------------------------
(* What the calls check                                                    *)

HomeOf(a) == IF a = DCTSC THEN Meta ELSE ShardOf[a]

HasRole(a, r) == granted[a][r] > 0

\* MUTATION: a returned transfer is stopped too.
BlockedEvenIfReturned(a, ret) ==
  a # DCTSC /\ (frozen[a] \/ "paused" \in settings[ShardOf[a]])

\* MUTATION: a pause does not stop anybody.
BlockedOnlyIfFrozen(a, ret) ==
  ~ret /\ a # DCTSC /\ frozen[a]

\* checkFrozeAndPause: neither DCTSC nor a returned transfer is stopped.
Blocked(a, ret) ==
  /\ ~ret
  /\ a # DCTSC
  /\ frozen[a] \/ "paused" \in settings[ShardOf[a]]

\* MUTATION: the balance is not compared with the value.
CanDebitUnchecked(a, v) == ~Blocked(a, FALSE)

\* addToDCTBalance with a negative value.
CanDebit(a, v) == ~Blocked(a, FALSE) /\ balance[a] >= v

\* MUTATION: the limit is looked up where the destination lives.
TransferAllowedAtDestination(from, to) ==
  to # DCTSC /\ "limited" \in settings[ShardOf[to]] => HasRole(from, "transfer")

\* checkIfTransferCanHappenWithLimitedTransfer, run where the sender lives: the
\* destination's own role is seen only if the destination lives there too.
\* Before the flag roles were looked up under a key nobody has.
TransferAllowed(from, to) ==
  "limited" \in settings[ShardOf[from]] =>
    /\ "CheckCorrectTokenIDForTransferRole" \in Flags
    /\ \/ "SendAlways" \in Flags /\ {from, to} \cap listed[ShardOf[from]] # {}
       \/ HasRole(from, "transfer")
       \/ to # DCTSC /\ ShardOf[to] = ShardOf[from] /\ HasRole(to, "transfer")

HasFunctionArgument(t) ==
  t.then = "named" \/ (t.then = "empty" /\ "CheckFunctionArgument" \notin Flags)

MustVerifyPayable(t) ==
  /\ "FixAsyncCallbackCheck" \in Flags => t.call # "callback" /\ ~t.ret
  /\ "FixAsyncCallbackCheck" \notin Flags => t.call # "async"
  /\ t.call # "execute"
  /\ t.from # DCTSC
  /\ ~HasFunctionArgument(t)

\* dctTransfer.ProcessBuiltinFunction, the part that concerns the destination.
Accepts(t) ==
  /\ HomeOf(t.to) = Meta => "TransferToMeta" \in Flags
  /\ MustVerifyPayable(t) => t.to \in Payable
  /\ ~Blocked(t.to, t.ret)

\* DetermineIsSCCallAfter: the transfer goes on with a call of the destination.
CallsAfter(t) ==
  /\ t.then = "named" \/ (t.then = "empty" /\ "CheckFunctionArgument" \notin Flags)
  /\ t.ret => t.call = "callback"
  /\ t.to \in Contracts

-----------------------------------------------------------------------------
(* Transfers                                                               *)

\* MUTATION: both balances are read before either is written.
TransferInShardStale(t) ==
  /\ HomeOf(t.to) = HomeOf(t.from)
  /\ TransferAllowed(t.from, t.to)
  /\ CanDebit(t.from, t.val)
  /\ Accepts(t)
  /\ balance' = [balance EXCEPT ![t.from] = balance[t.from] - t.val,
                               ![t.to] = balance[t.to] + t.val]
  /\ UNCHANGED <<frozen, granted, settings, listed, inFlight, supply>>

\* DCTTransfer within a shard: debit, then credit, in one call.
TransferInShard(t) ==
  /\ HomeOf(t.to) = HomeOf(t.from)
  /\ TransferAllowed(t.from, t.to)
  /\ CanDebit(t.from, t.val)
  /\ Accepts(t)
  /\ balance' = [[balance EXCEPT ![t.from] = @ - t.val] EXCEPT ![t.to] = @ + t.val]
  /\ UNCHANGED <<frozen, granted, settings, listed, inFlight, supply>>

Unused(id) == \A m \in inFlight : m.id # id

\* DCTTransfer on the sender's shard: a user's transaction goes on to the
\* destination by itself, a contract's is sent on as an output transfer.
SendToOtherShard(t) ==
  /\ HomeOf(t.to) # HomeOf(t.from)
  /\ HomeOf(t.to) = Meta => "TransferToMeta" \in Flags
  /\ TransferAllowed(t.from, t.to)
  /\ CanDebit(t.from, t.val)
  /\ Unused(t.id)
  /\ balance' = [balance EXCEPT ![t.from] = @ - t.val]
  /\ inFlight' = inFlight \cup {t}
  /\ UNCHANGED <<frozen, granted, settings, listed, supply>>

\* DCTTransfer on the destination's shard, where the sender has no account.
Deliver(t) ==
  /\ Accepts(t)
  /\ balance' = [balance EXCEPT ![t.to] = @ + t.val]
  /\ inFlight' = inFlight \ {t}
  /\ UNCHANGED <<frozen, granted, settings, listed, supply>>

\* MUTATION: the answer does not say that it returns a failed call.
ReturnedUnmarked(t, followup) ==
  [t EXCEPT !.from = t.to, !.to = t.from, !.then = followup]

\* The node's answer to a call that failed at the destination.  An
\* asynchronous call is answered by its callback.
Returned(t, followup) ==
  [t EXCEPT !.from = t.to, !.to = t.from, !.ret = TRUE, !.then = followup,
            !.call = IF t.call = "async" THEN "callback" ELSE "direct"]

\* MUTATION: the failed call stays in flight and is tried again.
SendBackAndRetry(t, followup) ==
  /\ ~t.ret
  /\ ~Accepts(t) \/ CallsAfter(t)
  /\ inFlight' = inFlight \cup {Returned(t, followup)}
  /\ UNCHANGED <<balance, frozen, granted, settings, listed, supply>>

\* The destination rejects the transfer, or the contract call after it fails.
SendBack(t, followup) ==
  /\ ~t.ret
  /\ ~Accepts(t) \/ CallsAfter(t)
  /\ inFlight' = (inFlight \ {t}) \cup {Returned(t, followup)}
  /\ UNCHANGED <<balance, frozen, granted, settings, listed, supply>>

-----------------------------------------------------------------------------
(* Supply                                                                  *)

\* DCTSC issues tokens: they reach their owner as a transfer from DCTSC.
Issue(t) ==
  /\ supply + t.val <= MaxSupply
  /\ Unused(t.id)
  /\ inFlight' = inFlight \cup {t}
  /\ supply' = supply + t.val
  /\ UNCHANGED <<balance, frozen, granted, settings, listed>>

LocalMint(a, v) ==
  /\ HasRole(a, "mint")
  /\ ~Blocked(a, FALSE)
  /\ supply + v <= MaxSupply
  /\ balance' = [balance EXCEPT ![a] = @ + v]
  /\ supply' = supply + v
  /\ UNCHANGED <<frozen, granted, settings, listed, inFlight>>

TakeFrom(a, v) ==
  /\ balance' = [balance EXCEPT ![a] = @ - v]
  /\ supply' = supply - v
  /\ UNCHANGED <<frozen, granted, settings, listed, inFlight>>

LocalBurn(a, v) ==
  /\ "burnForAll" \in settings[ShardOf[a]] \/ HasRole(a, "burn")
  /\ CanDebit(a, v)
  /\ TakeFrom(a, v)

\* DCTBurn: the tokens are sent to DCTSC, which takes them off its books.
Burn(a, v) ==
  /\ "GlobalMintBurn" \in Flags
  /\ CanDebit(a, v)
  /\ TakeFrom(a, v)

-----------------------------------------------------------------------------
(* Calls of DCTSC, each executed on the shard of the account it concerns   *)

CountOf(f, S) == MapThenSumSet(LAMBDA x : Cardinality(f[x]), S)

\* What DCTSC has set and not unset; a role counts as often as it is granted.
InForce ==
  Cardinality({a \in Accounts : frozen[a]})
    + CountOf(settings, Shards) + CountOf(listed, Shards)
    + MapThenSumSet(LAMBDA g : granted[g[1]][g[2]], Accounts \X Roles)

MaySet == InForce < MaxInForce

ToggleFreeze(a, freeze) ==
  /\ freeze => MaySet
  /\ frozen' = [frozen EXCEPT ![a] = freeze]
  /\ UNCHANGED <<balance, granted, settings, listed, inFlight, supply>>

\* The account's record is deleted, its Frozen property with it.
Wipe(a) ==
  /\ frozen[a]
  /\ balance' = [balance EXCEPT ![a] = 0]
  /\ frozen' = [frozen EXCEPT ![a] = FALSE]
  /\ supply' = supply - balance[a]
  /\ UNCHANGED <<granted, settings, listed, inFlight>>

\* One shard at a time: DCTSC's calls reach the shards independently.
ToggleSetting(s, x, set) ==
  /\ x = "burnForAll" => "SendAlways" \in Flags
  /\ set => MaySet
  /\ settings' = [settings EXCEPT ![s] = IF set THEN @ \cup {x} ELSE @ \ {x}]
  /\ UNCHANGED <<balance, frozen, granted, listed, inFlight, supply>>

\* SetRole appends without looking for the role; UnSetRole drops one occurrence.
SetRole(a, r) ==
  /\ MaySet
  /\ granted' = [granted EXCEPT ![a][r] = @ + 1]
  /\ UNCHANGED <<balance, frozen, settings, listed, inFlight, supply>>

UnSetRole(a, r) ==
  /\ granted' = [granted EXCEPT ![a][r] = IF @ > 0 THEN @ - 1 ELSE @]
  /\ UNCHANGED <<balance, frozen, settings, listed, inFlight, supply>>

SetTransferAddress(s, a) ==
  /\ "SendAlways" \in Flags
  /\ Cardinality(listed[s] \cup {a}) <= MaxListed
  /\ MaySet
  /\ listed' = [listed EXCEPT ![s] = @ \cup {a}]
  /\ UNCHANGED <<balance, frozen, granted, settings, inFlight, supply>>

UnSetTransferAddress(s, a) ==
  /\ "SendAlways" \in Flags
  /\ listed' = [listed EXCEPT ![s] = @ \ {a}]
  /\ UNCHANGED <<balance, frozen, granted, settings, inFlight, supply>>

-----------------------------------------------------------------------------

\* The transfers an account may ask for; only contracts make the calls that are
\* not direct.
Requests ==
  {t \in [id : TransferIds, from : Accounts, to : Addresses, val : Amounts,
          call : CallTypes, then : Followups, ret : {FALSE}] :
     t.from \in Contracts \/ t.call = "direct"}

Issues ==
  [id : TransferIds, from : {DCTSC}, to : Accounts, val : Amounts,
   call : {"direct"}, then : {"none"}, ret : {FALSE}]

Settle(t) == Deliver(t) \/ \E followup \in {"none", "named"} : SendBack(t, followup)

Next ==
  \/ \E t \in Requests : TransferInShard(t) \/ SendToOtherShard(t)
  \/ \E t \in Issues : Issue(t)
  \/ \E t \in inFlight : Settle(t)
  \/ \E a \in Accounts, v \in Amounts : LocalMint(a, v) \/ LocalBurn(a, v) \/ Burn(a, v)
  \/ \E a \in Freezable : Wipe(a) \/ \E freeze \in BOOLEAN : ToggleFreeze(a, freeze)
  \/ \E t \in Toggles, set \in BOOLEAN : ToggleSetting(t[1], t[2], set)
  \/ \E g \in Grantable : SetRole(g[1], g[2]) \/ UnSetRole(g[1], g[2])
  \/ \E l \in Listable : SetTransferAddress(l[1], l[2]) \/ UnSetTransferAddress(l[1], l[2])

Spec == Init /\ [][Next]_vars

\* The node executes every message that reached a shard: under weak fairness of
\* its settlement each message is eventually executed.
FairSpec == Spec /\ \A id \in TransferIds : WF_vars(\E t \in inFlight : t.id = id /\ Settle(t))

-----------------------------------------------------------------------------
(* Properties                                                              *)

\* No step of a transfer, of its failure or of its return creates or destroys
\* tokens: what the accounts hold and what is on its way between shards is at all
\* times the supply that DCTSC accounts for (dctTransfer.go, dctFreezeWipe.go).
Conservation ==
  SumFunction(balance) + SumFunction([m \in inFlight |-> m.val]) = supply

\* Two messages in flight never carry the same transfer.
UniqueTransfers == \A m, n \in inFlight : m.id = n.id => m = n

StoppedFundsStep ==
  \A a \in Accounts :
    /\ frozen[a] \/ "paused" \in settings[ShardOf[a]]
    /\ balance'[a] # balance[a]
    => \/ frozen[a] /\ ~frozen'[a] /\ balance'[a] = 0
       \/ \E m \in inFlight \ inFlight' :
            m.ret /\ m.to = a /\ balance'[a] = balance[a] + m.val

\* The account of a frozen holder, and every account of a shard where the token
\* is paused, keeps its tokens.  Only a wipe takes them, and nothing is added but
\* a transfer of its own that failed and came back: checkFrozeAndPause guards every
\* path that changes a balance, and lets ReturnCallAfterError through.
StoppedFundsStay == [][StoppedFundsStep]_vars

\* Tokens that come back after a failed call are always taken, whatever happened
\* to the sender since they left: it may be frozen, its shard paused, and it may
\* be a contract that accepts no payment (mustVerifyPayable, checkFrozeAndPause).
\* The metachain takes DCTSC's own transfers back only if it takes transfers at all.
RefundsAccepted ==
  \A m \in inFlight :
    m.ret /\ (m.to = DCTSC => "TransferToMeta" \in Flags) => Accepts(m)

LimitedTransferStep ==
  \A a \in Accounts :
    /\ "limited" \in settings[ShardOf[a]]
    /\ balance'[a] < balance[a]
    /\ supply' = supply
    => \E b \in Addresses :
         /\ b = a \/ balance'[b] > balance[b] \/ \E m \in inFlight' \ inFlight : m.to = b
         /\ b \in listed[ShardOf[a]] \/ (b # DCTSC /\ HasRole(b, "transfer"))

\* While transfers are limited on an account's shard no tokens leave it, burns and
\* wipes apart, unless it or who it sends them to may transfer limited tokens
\* (checkIfTransferCanHappenWithLimitedTransfer).  The limit of the destination's
\* shard is not asked for: the settings reach the shards at different times.
LimitedTransferNeedsRole == [][LimitedTransferStep]_vars

\* Every transfer that left its shard is settled: whatever is frozen, paused or
\* rejected on the way, it ends with the destination or with the sender.
TransfersSettle ==
  \A id \in TransferIds : (~Unused(id)) ~> Unused(id)

\* The transfer a message is about: a returned one is still the sender's.
OriginOf(m) ==
  [id |-> m.id, val |-> m.val,
   from |-> IF m.ret THEN m.to ELSE m.from, to |-> IF m.ret THEN m.from ELSE m.to]

Escrow == INSTANCE TokenEscrow
            WITH Holders <- Addresses, Values <- Amounts, holding <- balance,
                 pending <- {OriginOf(m) : m \in inFlight}

\* The ledger implements TokenEscrow: every transfer is settled once, to its
\* destination or to its sender and never to anybody else, and tokens come and go only
\* where DCTSC's books say so.
ImplementsEscrow == Escrow!Spec
=============================================================================
