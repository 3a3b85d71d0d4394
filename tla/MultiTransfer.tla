---------------------------- MODULE MultiTransfer ----------------------------
(***************************************************************************)
(* MultiDCTNFTTransfer: one call that moves a list of tokens, fungible     *)
(* ones and NFTs, from one account to another (multiDCTNFTTransfer.go).    *)
(* The entries are processed one after the other, each on what the ones    *)
(* before it left; the first that fails makes the whole call fail, and the *)
(* node then undoes what the call has done so far.  To another shard the   *)
(* list goes in one message and comes back in one if it is refused.        *)
(*                                                                         *)
(* Of the metadata only the liquidity is kept here, 0 for no record; the   *)
(* rest is in NFTLedger.                                                   *)
(***************************************************************************)
EXTENDS Integers, Sequences, SequencesExt

CONSTANTS
  Accounts,
  Shards,
  ShardOf,      \* the shard of every account
  Contracts,    \* accounts that are smart contracts
  Payable,      \* accounts IsPayable accepts: users and payable contracts
  Fungibles,    \* fungible tokens: entries with nonce 0
  NFTs,         \* tokens with a nonce
  Endowment,    \* what every account holds at the start
  Barred,       \* pairs the limited-transfer check of FungibleLedger refuses
  Freezable,    \* pairs account, token that DCTSC may freeze
  Pausable,     \* pairs shard, token that DCTSC may pause
  Amounts,      \* values of an entry
  MaxEntries,   \* bound on the entries of a list
  CallTypes,    \* vm.CallType: "direct", "async", "callback", "execute"
  Followups,    \* argument after the list: "none", "empty" or a "named" function
  Flags,        \* the epoch flags of payable.go that are enabled
  TransferIds   \* one id per message between shards; bounds their number

Tokens == Fungibles \cup NFTs

ASSUME MultiAssumption ==
  /\ IsFiniteSet(Accounts)
  /\ ShardOf \in [Accounts -> Shards]
  /\ Contracts \subseteq Accounts /\ Payable \subseteq Accounts
  /\ CallTypes \subseteq {"direct", "async", "callback", "execute"}
  /\ Followups \subseteq {"none", "empty", "named"}
  /\ Fungibles \cap NFTs = {}
  /\ Endowment \in [Accounts -> [Tokens -> Nat]]
  /\ Freezable \subseteq Accounts \X Tokens
  /\ Pausable \subseteq Shards \X Tokens
  /\ Amounts \subseteq Nat
  /\ MaxEntries \in Nat

VARIABLES
  store,     \* what the shards keep, see Stores
  frozen,    \* pairs account, token with a frozen record
  paused,    \* pairs shard, token
  inFlight   \* lists of tokens that left a shard and have not been executed

vars == <<store, frozen, paused, inFlight>>

Entries == [token : Tokens, val : Amounts]
Lists == SeqOf(Entries, MaxEntries) \ {<<>>}

\* A call as it travels: ret is vmInput.ReturnCallAfterError.
Messages ==
  [id : TransferIds, from : Accounts, to : Accounts, list : Lists,
   call : {"direct", "async", "callback", "execute"},
   then : {"none", "empty", "named"}, ret : BOOLEAN]

\* The calls an account may make; only contracts make those that are not direct.
Requests ==
  {m \in [id : TransferIds, from : Accounts, to : Accounts, list : Lists,
          call : CallTypes, then : Followups, ret : {FALSE}] :
     m.from \in Contracts \/ m.call = "direct"}

Stores == [quantity : [Accounts -> [Tokens -> Nat]], liquidity : [Shards -> [NFTs -> Nat]]]

TypeOK ==
  /\ store \in Stores
  /\ frozen \subseteq Accounts \X Tokens
  /\ paused \subseteq Shards \X Tokens
  /\ inFlight \subseteq Messages

LocalHolders(s) == {a \in Accounts : ShardOf[a] = s}

TotalOf(quantity, holders, t) == SumFunctionOnSet([a \in Accounts |-> quantity[a][t]], holders)

Init ==
  /\ store = [quantity |-> Endowment,
              liquidity |-> [s \in Shards |-> [t \in NFTs |-> TotalOf(Endowment, LocalHolders(s), t)]]]
  /\ frozen = {}
  /\ paused = {}
  /\ inFlight = {}

-----------------------------------------------------------------------------
(* Entries.  A result is a store and whether no entry has failed so far.   *)

Stopped(a, t, ret) == ~ret /\ (<<a, t>> \in frozen \/ <<ShardOf[a], t>> \in paused)

\* AddToLiquiditySystemAcc for a token whose liquidity is counted.  It fails when there
\* is no record or not enough in it; tokens that arrive find a record, as in these
\* epochs every message brings the metadata and SaveDCTNFTToken has just saved it.
AddLiquidity(r, a, t, v) ==
  IF t \in Fungibles THEN r
  ELSE [r EXCEPT !.liquidity[ShardOf[a]][t] = @ + v,
                 !.ok = @ /\ r.liquidity[ShardOf[a]][t] + v >= 0]

AddQuantity(r, a, t, v) == [r EXCEPT !.quantity[a][t] = @ + v]

\* MUTATION: the entries are compared with what the account had before the call.
DebitStale(r, a, e) ==
  [AddQuantity(r, a, e.token, -e.val) EXCEPT !.ok =
     /\ @ /\ e.val > 0
     /\ store.quantity[a][e.token] >= e.val
     /\ ~Stopped(a, e.token, FALSE)]

\* transferOneTokenOnSenderShard, the sender's part
Debit(r, a, e) ==
  [AddQuantity(r, a, e.token, -e.val) EXCEPT !.ok =
     /\ @ /\ e.val > 0
     /\ r.quantity[a][e.token] >= e.val
     /\ ~Stopped(a, e.token, FALSE)]

\* addToDCTBalance and addNFTToDestination, without the liquidity
Credit(r, a, e, ret) ==
  [AddQuantity(r, a, e.token, e.val) EXCEPT !.ok = @ /\ ~Stopped(a, e.token, ret)]

\* MUTATION: the liquidity forgets the tokens that come back.
ArriveUnlessReturned(r, a, e, ret) ==
  IF ret THEN Credit(r, a, e, ret) ELSE AddLiquidity(Credit(r, a, e, ret), a, e.token, e.val)

\* An entry on the shard of the destination, the sender being elsewhere; on the shard
\* of the sender, the destination being elsewhere; and where both are.
Arrive(r, a, e, ret) == AddLiquidity(Credit(r, a, e, ret), a, e.token, e.val)
Leave(r, a, e) == AddLiquidity(Debit(r, a, e), a, e.token, -e.val)
Move(r, a, b, e) == Credit(Debit(r, a, e), b, e, FALSE)

Start == [ok |-> TRUE, quantity |-> store.quantity, liquidity |-> store.liquidity]

Moved(a, b, list) == FoldLeft(LAMBDA r, e : Move(r, a, b, e), Start, list)
Left(a, list) == FoldLeft(LAMBDA r, e : Leave(r, a, e), Start, list)
Arrived(m) == FoldLeft(LAMBDA r, e : Arrive(r, m.to, e, m.ret), Start, m.list)

\* MUTATION: what the entries did is kept although one of them failed.
CommitFailed(r) == store' = [quantity |-> r.quantity, liquidity |-> r.liquidity]

\* A call whose entries give result r succeeds with it, or fails without a trace.
Commit(r) ==
  /\ r.ok
  /\ store' = [quantity |-> r.quantity, liquidity |-> r.liquidity]

-----------------------------------------------------------------------------
(* Calls                                                                   *)

HasFunctionArgument(m) ==
  m.then = "named" \/ (m.then = "empty" /\ "CheckFunctionArgument" \notin Flags)

\* MUTATION: a return is asked whether it is payable.
MustVerifyPayableEvenIfReturned(m) ==
  /\ IF "FixAsyncCallbackCheck" \in Flags THEN m.call # "callback" ELSE m.call # "async"
  /\ m.call # "execute"
  /\ ~HasFunctionArgument(m)

\* No account of Accounts is DCTSC.
MustVerifyPayable(m) ==
  /\ IF "FixAsyncCallbackCheck" \in Flags THEN m.call # "callback" /\ ~m.ret
     ELSE m.call # "async"
  /\ m.call # "execute"
  /\ ~HasFunctionArgument(m)

CheckPayable(m) == MustVerifyPayable(m) => m.to \in Payable

\* The list goes on with a call of the destination, which may fail.
CallFollows(m) == m.then # "none" /\ m.to \in Contracts

TransferInShard(m) ==
  /\ m.from # m.to
  /\ ShardOf[m.from] = ShardOf[m.to]
  /\ <<m.from, m.to>> \notin Barred
  /\ CheckPayable(m)
  /\ Commit(Moved(m.from, m.to, m.list))
  /\ UNCHANGED <<frozen, paused, inFlight>>

Unused(id) == \A m \in inFlight : m.id # id

SendToOtherShard(m) ==
  /\ ShardOf[m.from] # ShardOf[m.to]
  /\ <<m.from, m.to>> \notin Barred
  /\ Unused(m.id)
  /\ Commit(Left(m.from, m.list))
  /\ inFlight' = inFlight \cup {m}
  /\ UNCHANGED <<frozen, paused>>

\* What the shard of the destination says to a list.
Accepts(m) == CheckPayable(m) /\ Arrived(m).ok

\* The record of an NFT that is saved has the properties of the message, so a return
\* ends the freeze of an NFT it reaches; that of a fungible token keeps its own.
Deliver(m) ==
  /\ CheckPayable(m)
  /\ Commit(Arrived(m))
  /\ frozen' = frozen \ {<<m.to, e.token>> : e \in {x \in ToSet(m.list) : x.token \in NFTs}}
  /\ inFlight' = inFlight \ {m}
  /\ UNCHANGED paused

\* The node's answer to a call that failed at the destination.  An asynchronous call
\* is answered by its callback.
Returned(m, followup) ==
  [m EXCEPT !.from = m.to, !.to = m.from, !.ret = TRUE, !.then = followup,
            !.call = IF m.call = "async" THEN "callback" ELSE "direct"]

\* MUTATION: only the first token of the list comes back.
SendBackFirst(m, followup) ==
  /\ ~m.ret
  /\ ~Accepts(m) \/ CallFollows(m)
  /\ inFlight' = (inFlight \ {m}) \cup {[Returned(m, followup) EXCEPT !.list = <<@[1]>>]}
  /\ UNCHANGED <<store, frozen, paused>>

\* The destination rejects the list, or the contract call after it fails.
SendBack(m, followup) ==
  /\ ~m.ret
  /\ ~Accepts(m) \/ CallFollows(m)
  /\ inFlight' = (inFlight \ {m}) \cup {Returned(m, followup)}
  /\ UNCHANGED <<store, frozen, paused>>

ToggleFreeze(a, t) ==
  /\ frozen' = IF <<a, t>> \in frozen THEN frozen \ {<<a, t>>} ELSE frozen \cup {<<a, t>>}
  /\ UNCHANGED <<store, paused, inFlight>>

TogglePause(s, t) ==
  /\ paused' = IF <<s, t>> \in paused THEN paused \ {<<s, t>>} ELSE paused \cup {<<s, t>>}
  /\ UNCHANGED <<store, frozen, inFlight>>

Next ==
  \/ \E m \in Requests : TransferInShard(m) \/ SendToOtherShard(m)
  \/ \E m \in inFlight :
       Deliver(m) \/ \E followup \in {"none", "named"} : SendBack(m, followup)
  \/ \E p \in Freezable : ToggleFreeze(p[1], p[2])
  \/ \E p \in Pausable : TogglePause(p[1], p[2])

Spec == Init /\ [][Next]_vars

-----------------------------------------------------------------------------
(* Properties                                                              *)

Sum(list, t) ==
  SumFunction([i \in DOMAIN list |-> IF list[i].token = t THEN list[i].val ELSE 0])

\* Lists may name a token more than once, come back, and fail at any entry: the tokens
\* that are held and on their way stay those of the start.
Conservation ==
  \A t \in Tokens :
    TotalOf(store.quantity, Accounts, t) + SumFunction([m \in inFlight |-> Sum(m.list, t)])
    = TotalOf(Endowment, Accounts, t)

\* Every entry that crosses the border of a shard tells the liquidity there, so that it
\* always is what the shard holds.
LiquidityCounted ==
  \A s \in Shards, t \in NFTs : store.liquidity[s][t] = TotalOf(store.quantity, LocalHolders(s), t)

\* A list does what its totals say, whatever the order of its entries and however
\* often a token is named: it goes through just when every value is positive, the
\* sender has the total of each token and neither side is stopped for one of them.
ListsAddUp ==
  \A a, b \in Accounts, list \in Lists :
    a # b /\ ShardOf[a] = ShardOf[b] =>
      LET named == {e.token : e \in ToSet(list)}
          r == Moved(a, b, list)
      IN  /\ r.ok <=> /\ \A e \in ToSet(list) : e.val > 0
                      /\ \A t \in named : Sum(list, t) <= store.quantity[a][t]
                      /\ {a, b} \X named \cap frozen = {}
                      /\ {ShardOf[a]} \X named \cap paused = {}
          /\ \A t \in Tokens :
               /\ r.quantity[a][t] = store.quantity[a][t] - Sum(list, t)
               /\ r.quantity[b][t] = store.quantity[b][t] + Sum(list, t)

\* A list that comes back is taken whole by whoever sent it, whatever has been frozen,
\* paused or moved since; since FixAsyncCallbackCheck also by a contract that accepts no
\* payment, which before was asked for its own tokens too (mustVerifyPayable).  No token
\* is caught between the shards.
ReturnsAccepted ==
  \A m \in inFlight :
    m.ret /\ ("FixAsyncCallbackCheck" \in Flags \/ m.to \in Payable) => Accepts(m)
=============================================================================
