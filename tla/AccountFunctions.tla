--------------------------- MODULE AccountFunctions ---------------------------
(***************************************************************************)
(* The built-in functions on single accounts: a contract is given to       *)
(* another owner, its owner claims the developer rewards, the DNS contract *)
(* names a user, and a user saves keys and values in its own storage       *)
(* (changeOwnerAddress.go, claimDeveloperRewards.go, saveUserName.go,      *)
(* keyValueStorage.go).  Caller and account may live in different shards:  *)
(* the function then runs first where the caller lives, which sees to the  *)
(* gas, and again where the account lives.                                 *)
(*                                                                         *)
(* An action is one successful call; what an erring call saved the node    *)
(* undoes.  Gas is counted in words of 64 bits; GasLocked, which a caller  *)
(* keeps for its callback, is left out.                                    *)
(***************************************************************************)
EXTENDS Integers, Sequences, FiniteSetsExt, SequencesExt

CONSTANTS
  Users,
  Contracts,
  ShardOf,       \* the shard of every address
  Deployer,      \* the user that deployed every contract
  DNS,           \* mapDnsAddresses: the contracts that may name users
  Names,
  NoName,        \* the name of a user without one
  EnableChange,  \* whether a user that has a name may get another
  Cost,          \* the gas of every function, of SaveKeyValue for a call without keys
  PersistPerByte,
  StorePerByte,
  Word,          \* gas counts from 0 to Word - 1; stands for 2^64
  Keys,
  Protected,     \* keys with the protected prefix
  Values,
  Length,        \* the bytes of every key and every value
  Requests,      \* the calls that users and contracts make
  Saves,         \* the calls of SaveKeyValue
  MaxEarned,     \* bound on the rewards
  CallIds        \* one id per call between shards; bounds their number

Addresses == Users \cup Contracts
NoValue == "" \* under a key that was never saved; saving it deletes the key

\* ContractCallInput.  arg is the new owner or the name; NoName stands for an
\* argument that has not the length of an address.
Calls ==
  [fn : {"ChangeOwnerAddress", "ClaimDeveloperRewards", "SetUserName"},
   from : Addresses, to : Addresses, arg : Addresses \cup Names \cup {NoName},
   async : BOOLEAN, gas : 0..Word-1]

ASSUME AccountAssumption ==
  /\ Users \cap Contracts = {}
  /\ IsFiniteSet(Users) /\ IsFiniteSet(Contracts) /\ IsFiniteSet(Keys)
  /\ Deployer \in [Contracts -> Users]
  /\ DNS \subseteq Contracts
  /\ NoName \notin Names
  /\ EnableChange \in BOOLEAN
  /\ Cost \in [{"ChangeOwnerAddress", "ClaimDeveloperRewards", "SetUserName", "SaveKeyValue"} -> Nat]
  /\ PersistPerByte \in Nat /\ StorePerByte \in Nat /\ Word \in Nat \ {0}
  /\ Protected \subseteq Keys
  /\ NoValue \in Values
  /\ Length \in [Keys \cup Values -> Nat] /\ Length[NoValue] = 0
  /\ Requests \subseteq Calls
  /\ \A r \in Requests : r.fn = "SetUserName" => r.arg \in Names \cup {NoName}
  /\ Saves \subseteq [user : Users, pairs : Seq(Keys \X Values), gas : 0..Word-1]
  /\ MaxEarned \in Nat

VARIABLES
  owner,     \* OwnerAddress of every contract
  reward,    \* DeveloperReward of every contract
  balance,   \* what every address has been paid
  userName,  \* of every user
  storage,   \* the values that every user saved under its keys
  calls,     \* calls on their way to the shard of their account
  payouts,   \* rewards on their way to the shard of the owner
  earned,    \* all rewards so far
  last       \* the gas of the call that the last step completed

vars == <<owner, reward, balance, userName, storage, calls, payouts, earned, last>>

NoCall == [fn |-> "none", provided |-> 0, used |-> 0, returned |-> 0]

TypeOK ==
  /\ owner \in [Contracts -> Addresses]
  /\ reward \in [Contracts -> Nat]
  /\ balance \in [Addresses -> Nat]
  /\ userName \in [Users -> Names \cup {NoName}]
  /\ storage \in [Users -> [Keys -> Values]]
  /\ calls \subseteq [id : CallIds, call : Requests]
  /\ payouts \subseteq [id : CallIds, to : Addresses, val : Nat]
  /\ earned \in Nat
  /\ last \in [fn : DOMAIN Cost \cup {"none"}, provided : Nat, used : Nat, returned : 0..Word-1]

Init ==
  /\ owner = Deployer
  /\ reward = [c \in Contracts |-> 0]
  /\ balance = [a \in Addresses |-> 0]
  /\ userName = [u \in Users |-> NoName]
  /\ storage = [u \in Users |-> [k \in Keys |-> NoValue]]
  /\ calls = {} /\ payouts = {}
  /\ earned = 0
  /\ last = NoCall

SameShard(r) == ShardOf[r.from] = ShardOf[r.to]

-----------------------------------------------------------------------------
(* Gas                                                                     *)

\* MUTATION: the gas is given back where the account lives, too.
GasRemainingTwice(r, callerHere) ==
  IF r.gas < Cost[r.fn] THEN 0 ELSE r.gas - Cost[r.fn]

\* computeGasRemaining: the gas is given back in the shard of the caller.
GasRemaining(r, callerHere) ==
  IF ~callerHere \/ r.gas < Cost[r.fn] THEN 0 ELSE r.gas - Cost[r.fn]

\* What a call between shards has given back before its message leaves.  A name takes
\* all its gas along.
GivenBack(r) ==
  IF r.fn = "SetUserName" \/ SameShard(r) THEN 0 ELSE GasRemaining(r, TRUE)

\* The gas that the call has given back in the end.
Account(r, remaining) ==
  last' = [fn |-> r.fn, provided |-> r.gas, used |-> Cost[r.fn],
           returned |-> GivenBack(r) + remaining]

-----------------------------------------------------------------------------
(* The functions, in the shard of the account they are about               *)

\* MUTATION: the length of the new owner's address is not checked.
ChangeOwnerToAnything(r) ==
  /\ r.fn = "ChangeOwnerAddress"
  /\ r.gas >= Cost[r.fn]
  /\ r.to \in Contracts /\ owner[r.to] = r.from
  /\ owner' = [owner EXCEPT ![r.to] = r.arg]
  /\ Account(r, GasRemaining(r, SameShard(r)))
  /\ UNCHANGED <<reward, balance, userName, payouts>>

ChangeOwnerAddress(r) ==
  /\ r.fn = "ChangeOwnerAddress"
  /\ r.arg \in Addresses
  /\ r.gas >= Cost[r.fn]
  /\ r.to \in Contracts /\ owner[r.to] = r.from
  /\ owner' = [owner EXCEPT ![r.to] = r.arg]
  /\ Account(r, GasRemaining(r, SameShard(r)))
  /\ UNCHANGED <<reward, balance, userName, payouts>>

\* MUTATION: the rewards of whoever asks are paid out.
ClaimByAnybody(r, id) ==
  /\ r.fn = "ClaimDeveloperRewards"
  /\ r.to \in Contracts
  /\ r.gas >= Cost[r.fn]
  /\ reward' = [reward EXCEPT ![r.to] = 0]
  /\ IF SameShard(r)
     THEN balance' = [balance EXCEPT ![r.from] = @ + reward[r.to]] /\ UNCHANGED payouts
     ELSE payouts' = payouts \cup {[id |-> id, to |-> r.from, val |-> reward[r.to]]}
            /\ UNCHANGED balance
  /\ Account(r, GasRemaining(r, SameShard(r)))
  /\ UNCHANGED <<owner, userName>>

\* MUTATION: the output for a contract in the same shard is left to be executed.
ClaimKeepingOutput(r, id) ==
  /\ r.fn = "ClaimDeveloperRewards"
  /\ r.to \in Contracts /\ owner[r.to] = r.from
  /\ r.gas >= Cost[r.fn]
  /\ reward' = [reward EXCEPT ![r.to] = 0]
  /\ balance' = IF SameShard(r) THEN [balance EXCEPT ![r.from] = @ + reward[r.to]] ELSE balance
  /\ payouts' = IF SameShard(r) /\ r.from \in Users THEN payouts
                ELSE payouts \cup {[id |-> id, to |-> r.from, val |-> reward[r.to]]}
  /\ Account(r, IF r.async THEN 0 ELSE GasRemaining(r, SameShard(r)))
  /\ UNCHANGED <<owner, userName>>

\* ClaimDeveloperRewards.  An owner in the same shard is paid at once; of the output
\* nothing is executed in that shard, and for a contract, whose calls are executed by a
\* virtual machine, it is emptied, the gas for the callback with it.  An owner in
\* another shard gets the rewards with the output.
ClaimDeveloperRewards(r, id) ==
  /\ r.fn = "ClaimDeveloperRewards"
  /\ r.to \in Contracts /\ owner[r.to] = r.from
  /\ r.gas >= Cost[r.fn]
  /\ reward' = [reward EXCEPT ![r.to] = 0]
  /\ IF SameShard(r)
     THEN balance' = [balance EXCEPT ![r.from] = @ + reward[r.to]] /\ UNCHANGED payouts
     ELSE payouts' = payouts \cup {[id |-> id, to |-> r.from, val |-> reward[r.to]]}
            /\ UNCHANGED balance
  /\ Account(r, IF r.async THEN 0 ELSE GasRemaining(r, SameShard(r)))
  /\ UNCHANGED <<owner, userName>>

\* MUTATION: the name that a user has is replaced.
SetUserNameAgain(r) ==
  /\ r.fn = "SetUserName"
  /\ r.gas >= Cost[r.fn]
  /\ r.from \in DNS /\ r.to \in Users
  /\ userName' = [userName EXCEPT ![r.to] = r.arg]
  /\ Account(r, r.gas - Cost[r.fn])
  /\ UNCHANGED <<owner, reward, balance, payouts>>

\* saveUserName
SetUserName(r) ==
  /\ r.fn = "SetUserName"
  /\ r.gas >= Cost[r.fn]
  /\ r.from \in DNS /\ r.to \in Users
  /\ EnableChange \/ userName[r.to] = NoName
  /\ userName' = [userName EXCEPT ![r.to] = r.arg]
  /\ Account(r, r.gas - Cost[r.fn])
  /\ UNCHANGED <<owner, reward, balance, payouts>>

Function(r, id) == ChangeOwnerAddress(r) \/ ClaimDeveloperRewards(r, id) \/ SetUserName(r)

-----------------------------------------------------------------------------
(* Calls and their messages                                                *)

CallInShard(r) ==
  /\ SameShard(r)
  /\ \E id \in CallIds : Function(r, id)
  /\ UNCHANGED <<storage, calls, earned>>

Unused(id) == \A m \in calls \cup payouts : m.id # id

\* The function in the shard of the caller, where the account is nil.  What it does not
\* check fails in the shard of the account.
CallOtherShard(r, id) ==
  /\ ~SameShard(r)
  /\ Unused(id)
  /\ r.fn # "ClaimDeveloperRewards" => r.gas >= Cost[r.fn]
  /\ r.fn = "SetUserName" => r.from \in DNS
  /\ r.fn = "ChangeOwnerAddress" => r.arg \in Addresses
  /\ calls' = calls \cup {[id |-> id, call |-> r]}
  /\ last' = NoCall
  /\ UNCHANGED <<owner, reward, balance, userName, storage, payouts, earned>>

Execute(m) ==
  /\ Function(m.call, m.id)
  /\ calls' = calls \ {m}
  /\ UNCHANGED <<storage, earned>>

Fails(r) ==
  CASE r.fn = "SetUserName" -> ~EnableChange /\ userName[r.to] # NoName
    [] OTHER -> r.gas < Cost[r.fn] \/ r.to \notin Contracts \/ owner[r.to] # r.from

\* A call that fails where its account lives changes nothing there.
Fail(m) ==
  /\ Fails(m.call)
  /\ calls' = calls \ {m}
  /\ last' = NoCall
  /\ UNCHANGED <<owner, reward, balance, userName, storage, payouts, earned>>

\* The node adds what an output transfer brings.
ReceivePayout(p) ==
  /\ balance' = [balance EXCEPT ![p.to] = @ + p.val]
  /\ payouts' = payouts \ {p}
  /\ last' = NoCall
  /\ UNCHANGED <<owner, reward, userName, storage, calls, earned>>

\* The node adds to the rewards of a contract that is called.
Earn(c) ==
  /\ earned < MaxEarned
  /\ reward' = [reward EXCEPT ![c] = @ + 1]
  /\ earned' = earned + 1
  /\ last' = NoCall
  /\ UNCHANGED <<owner, balance, userName, storage, calls, payouts>>

-----------------------------------------------------------------------------
(* SaveKeyValue                                                            *)

\* MUTATION: the gas provided is compared before the growth is added.
SavePairComparedFirst(s, pair, provided) ==
  LET key == pair[1]
      value == pair[2]
      used == s.used + (Length[key] + Length[value]) * PersistPerByte
      growth == Max({0, Length[value] - Length[s.stored[key]]})
  IN IF ~s.ok \/ key \in Protected THEN [s EXCEPT !.ok = FALSE]
     ELSE IF s.stored[key] = value THEN [s EXCEPT !.used = used]
     ELSE [stored |-> [s.stored EXCEPT ![key] = value],
           used |-> used + growth * StorePerByte, ok |-> provided >= used]

\* One pair of the arguments: s has the storage and the gas used so far, and ok.
SavePair(s, pair, provided) ==
  LET key == pair[1]
      value == pair[2]
      used == s.used + (Length[key] + Length[value]) * PersistPerByte
      growth == Max({0, Length[value] - Length[s.stored[key]]})
      total == used + growth * StorePerByte
  IN IF ~s.ok \/ key \in Protected THEN [s EXCEPT !.ok = FALSE]
     ELSE IF s.stored[key] = value THEN [s EXCEPT !.used = used]
     ELSE [stored |-> [s.stored EXCEPT ![key] = value], used |-> total, ok |-> provided >= total]

\* All pairs, one after the other.
SavedPairs(v) ==
  FoldLeft(LAMBDA s, pair : SavePair(s, pair, v.gas),
           [stored |-> storage[v.user], used |-> Cost["SaveKeyValue"], ok |-> TRUE], v.pairs)

SaveKeyValue(v) ==
  LET s == SavedPairs(v) IN
  /\ v.pairs # <<>>
  /\ s.ok
  /\ storage' = [storage EXCEPT ![v.user] = s.stored]
  /\ last' = [fn |-> "SaveKeyValue", provided |-> v.gas, used |-> s.used,
              returned |-> (v.gas - s.used) % Word]
  /\ UNCHANGED <<owner, reward, balance, userName, calls, payouts, earned>>

-----------------------------------------------------------------------------

Next ==
  \/ \E r \in Requests : CallInShard(r) \/ \E id \in CallIds : CallOtherShard(r, id)
  \/ \E m \in calls : Execute(m) \/ Fail(m)
  \/ \E p \in payouts : ReceivePayout(p)
  \/ \E c \in Contracts : Earn(c)
  \/ \E v \in Saves : SaveKeyValue(v)

Spec == Init /\ [][Next]_vars

-----------------------------------------------------------------------------
(* Properties                                                              *)

\* A reward is paid once: what the contracts have, what is on its way and what was
\* paid is what was earned, although a claim is executed in two shards, is answered
\* with a balance and with an output, and may be repeated before the first arrives.
RewardsConserved ==
  SumFunction(reward) + SumFunction(balance) + SumFunction([p \in payouts |-> p.val]) = earned

\* Rewards leave a contract for its owner only: a claim that was on its way while the
\* contract was given away takes nothing (ErrOperationNotPermitted).
RewardsGoToOwner ==
  [][\A c \in Contracts :
       reward'[c] < reward[c] =>
         \/ balance'[owner[c]] = balance[owner[c]] + reward[c]
         \/ \E p \in payouts' \ payouts : p.to = owner[c] /\ p.val = reward[c]]_vars

\* Where names do not change, a user keeps the first it was given, whichever DNS
\* contract of whichever shard gives it another, and however their messages cross.
NamesStay ==
  [][~EnableChange => \A u \in Users :
       userName[u] # NoName => userName'[u] = userName[u]]_vars

\* Over both shards a call does not give back more gas than it was provided with, less
\* its cost (computeGasRemaining: "gas is consumed in sender shard, returned already in
\* sender shard").
GasGivenBackOnce ==
  last.fn \notin {"SaveKeyValue", "none"} => last.returned <= last.provided - last.used

Bytes(stored) == SumFunction([k \in Keys |-> Length[stored[k]]])

\* However often one call names a key, the gas it was provided with covers every byte
\* that the storage grows by.
GrowthPaid ==
  [][\A u \in Users :
       StorePerByte * (Bytes(storage'[u]) - Bytes(storage[u])) <= last'.provided]_vars

\* What remains is what was provided less what was used (VMOutput: "GasRemaining =
\* VMInput.GasProvided - gas used").
GasRemainingIsRest ==
  last.fn = "SaveKeyValue" => last.returned = last.provided - last.used
=============================================================================
