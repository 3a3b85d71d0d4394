------------------------ MODULE AccountFunctionsProofs ------------------------
(***************************************************************************)
(* Theorems about AccountFunctions, for any users, contracts, requests and *)
(* calls of SaveKeyValue.  The storage of users is looked at last: what a  *)
(* call saves is a fold over its pairs, and no other action reads it.      *)
(***************************************************************************)
EXTENDS AccountFunctions, FoldLemmas

\* The types of what the messages between shards change.
AccountTypes ==
  /\ owner \in [Contracts -> Addresses]
  /\ reward \in [Contracts -> Nat]
  /\ balance \in [Addresses -> Nat]
  /\ userName \in [Users -> Names \cup {NoName}]
  /\ calls \subseteq [id : CallIds, call : Requests]
  /\ payouts \subseteq [id : CallIds, to : Addresses, val : Nat]

\* Ids tell the messages apart, so that a claim always adds a payout of its own.
UniqueIds ==
  /\ \A m, n \in calls : m.id = n.id => m = n
  /\ \A m \in calls, p \in payouts : m.id # p.id
  /\ \A p, q \in payouts : p.id = q.id => p = q

AInv == AccountTypes /\ UniqueIds

LEMMA InitAInv == Init => AInv
  BY AccountAssumption DEF Init, AInv, AccountTypes, UniqueIds, Addresses

LEMMA RequestTypes ==
  ASSUME NEW r \in Requests
  PROVE  /\ r.from \in Addresses /\ r.to \in Addresses
         /\ r.gas \in Nat /\ Cost[r.fn] \in Nat
         /\ r.fn \in {"ChangeOwnerAddress", "ClaimDeveloperRewards", "SetUserName"}
<1>1. r \in Calls
  BY AccountAssumption
<1>2. QED
  BY <1>1, AccountAssumption DEF Calls

\* A function changes the contracts, the users and the payouts within their types, and
\* a claim adds one payout at most, with the id it was given.
LEMMA FunctionTypes ==
  ASSUME AccountTypes, NEW r \in Requests, NEW id \in CallIds, Function(r, id)
  PROVE  /\ owner' \in [Contracts -> Addresses]
         /\ reward' \in [Contracts -> Nat]
         /\ balance' \in [Addresses -> Nat]
         /\ userName' \in [Users -> Names \cup {NoName}]
         /\ payouts' \subseteq [id : CallIds, to : Addresses, val : Nat]
         /\ \/ payouts' = payouts
            \/ ~SameShard(r) /\ \E v \in Nat :
                 payouts' = payouts \cup {[id |-> id, to |-> r.from, val |-> v]}
<1> USE DEF AccountTypes
<1>0. r.from \in Addresses /\ r.to \in Addresses
  BY RequestTypes
<1>1. CASE ChangeOwnerAddress(r)
  BY <1>1 DEF ChangeOwnerAddress
<1>2. CASE ClaimDeveloperRewards(r, id)
  <2>1. r.to \in Contracts /\ reward[r.to] \in Nat
    BY <1>2 DEF ClaimDeveloperRewards
  <2>2. CASE SameShard(r)
    BY <1>0, <1>2, <2>1, <2>2 DEF ClaimDeveloperRewards
  <2>3. CASE ~SameShard(r)
    BY <1>0, <1>2, <2>1, <2>3 DEF ClaimDeveloperRewards
  <2>4. QED
    BY <2>2, <2>3
<1>3. CASE SetUserName(r)
  BY <1>3, AccountAssumption DEF SetUserName
<1>4. QED
  BY <1>1, <1>2, <1>3 DEF Function
LEMMA StepAInv == AInv /\ [Next]_vars => AInv'
<1> SUFFICES ASSUME AInv, [Next]_vars PROVE AInv'
  OBVIOUS
<1> USE DEF AInv, AccountTypes, UniqueIds
<1>1. ASSUME NEW r \in Requests, CallInShard(r) PROVE AInv'
  <2>1. PICK id \in CallIds : Function(r, id)
    BY <1>1 DEF CallInShard
  <2>2. calls' = calls /\ SameShard(r)
    BY <1>1 DEF CallInShard
  <2>3. payouts' = payouts
    BY <2>1, <2>2, FunctionTypes
  <2>4. QED
    BY <2>1, <2>2, <2>3, FunctionTypes
<1>2. ASSUME NEW r \in Requests, NEW id \in CallIds, CallOtherShard(r, id) PROVE AInv'
  <2>1. /\ calls' = calls \cup {[id |-> id, call |-> r]}
        /\ UNCHANGED <<owner, reward, balance, userName, payouts>>
        /\ \A m \in calls \cup payouts : m.id # id
    BY <1>2 DEF CallOtherShard, Unused
  <2>2. AccountTypes'
    BY <2>1
  <2>3. UniqueIds'
    BY <2>1
  <2>4. QED
    BY <2>2, <2>3
<1>3. ASSUME NEW m \in calls, Execute(m) PROVE AInv'
  <2>1. Function(m.call, m.id) /\ calls' = calls \ {m} /\ m.call \in Requests /\ m.id \in CallIds
    BY <1>3 DEF Execute
  <2>2. AccountTypes'
    BY <2>1, FunctionTypes
  <2>3. CASE payouts' = payouts
    BY <2>1, <2>3, <2>2
  <2>4. ASSUME NEW v \in Nat, payouts' = payouts \cup {[id |-> m.id, to |-> m.call.from, val |-> v]}
        PROVE  UniqueIds'
    BY <2>1, <2>4
  <2>5. QED
    BY <2>1, <2>2, <2>3, <2>4, FunctionTypes
<1>4. ASSUME NEW m \in calls, Fail(m) PROVE AInv'
  BY <1>4 DEF Fail
<1>5. ASSUME NEW p \in payouts, ReceivePayout(p) PROVE AInv'
  <2>1. balance' \in [Addresses -> Nat]
    BY <1>5 DEF ReceivePayout
  <2>2. payouts' = payouts \ {p} /\ UNCHANGED <<owner, reward, userName, calls>>
    BY <1>5 DEF ReceivePayout
  <2>3. QED
    BY <2>1, <2>2
<1>6. ASSUME NEW c \in Contracts, Earn(c) PROVE AInv'
  BY <1>6 DEF Earn
<1>7. ASSUME NEW v \in Saves, SaveKeyValue(v) PROVE AInv'
  BY <1>7 DEF SaveKeyValue
<1>8. CASE UNCHANGED vars
  BY <1>8 DEF vars
<1>9. QED
  BY <1>1, <1>2, <1>3, <1>4, <1>5, <1>6, <1>7, <1>8 DEF Next

LEMMA SpecAInv == Spec => []AInv
  BY InitAInv, StepAInv, PTL DEF Spec

-----------------------------------------------------------------------------
(* Names                                                                   *)

NamesStep ==
  ~EnableChange => \A u \in Users : userName[u] # NoName => userName'[u] = userName[u]

LEMMA FunctionKeepsNames ==
  ASSUME AInv, NEW r \in Requests, NEW id \in CallIds, Function(r, id)
  PROVE  NamesStep
<1>1. CASE SetUserName(r)
  BY <1>1 DEF SetUserName, NamesStep, AInv, AccountTypes
<1>2. CASE userName' = userName
  BY <1>2 DEF NamesStep
<1>3. QED
  BY <1>1, <1>2 DEF Function, ChangeOwnerAddress, ClaimDeveloperRewards

LEMMA StepKeepsNames == AInv /\ [Next]_vars => NamesStep
<1> SUFFICES ASSUME AInv, [Next]_vars PROVE NamesStep
  OBVIOUS
<1>1. ASSUME NEW r \in Requests, CallInShard(r) PROVE NamesStep
  BY <1>1, FunctionKeepsNames DEF CallInShard
<1>2. ASSUME NEW m \in calls, Execute(m) PROVE NamesStep
  BY <1>2, FunctionKeepsNames DEF Execute, AInv, AccountTypes
<1>3. CASE userName' = userName
  BY <1>3 DEF NamesStep
<1>4. QED
  BY <1>1, <1>2, <1>3
     DEF Next, vars, CallOtherShard, Fail, ReceivePayout, Earn, SaveKeyValue

\* Where names do not change, no call replaces the name of a user, in whatever order the
\* messages of DNS contracts arrive (saveUserName).
THEOREM NamesKept == Spec => NamesStay
<1>1. Spec => [][NamesStep]_vars
  BY SpecAInv, StepKeepsNames, PTL DEF Spec
<1>2. QED
  BY <1>1 DEF NamesStay, NamesStep

-----------------------------------------------------------------------------
(* Rewards                                                                 *)

RewardsStep ==
  \A c \in Contracts :
    reward'[c] < reward[c] =>
      \/ balance'[owner[c]] = balance[owner[c]] + reward[c]
      \/ \E p \in payouts' \ payouts : p.to = owner[c] /\ p.val = reward[c]

\* A claim pays the caller, who is the owner; the payout is new because its id is.
LEMMA FunctionPaysOwner ==
  ASSUME AInv, NEW r \in Requests, NEW id \in CallIds, Function(r, id),
         SameShard(r) \/ \A p \in payouts : p.id # id
  PROVE  RewardsStep
<1> USE DEF AInv, AccountTypes
<1>1. CASE ClaimDeveloperRewards(r, id)
  <2> SUFFICES ASSUME NEW c \in Contracts, reward'[c] < reward[c]
               PROVE  \/ balance'[owner[c]] = balance[owner[c]] + reward[c]
                      \/ \E p \in payouts' \ payouts : p.to = owner[c] /\ p.val = reward[c]
    BY DEF RewardsStep
  <2>1. r.to = c /\ owner[c] = r.from /\ r.from \in Addresses
    BY <1>1, RequestTypes DEF ClaimDeveloperRewards
  <2>2. CASE SameShard(r)
    BY <1>1, <2>1, <2>2 DEF ClaimDeveloperRewards
  <2>3. CASE ~SameShard(r)
    <3>1. payouts' = payouts \cup {[id |-> id, to |-> r.from, val |-> reward[c]]}
      BY <1>1, <2>1, <2>3 DEF ClaimDeveloperRewards
    <3> DEFINE p == [id |-> id, to |-> r.from, val |-> reward[c]]
    <3>2. p \in payouts' /\ p.id = id /\ p.to = owner[c] /\ p.val = reward[c]
      BY <2>1, <3>1
    <3>3. p \notin payouts
      BY <2>3, <3>2
    <3>4. QED
      BY <3>2, <3>3
  <2>4. QED
    BY <2>2, <2>3
<1>2. CASE reward' = reward
  BY <1>2 DEF RewardsStep
<1>3. QED
  BY <1>1, <1>2 DEF Function, ChangeOwnerAddress, SetUserName

LEMMA StepPaysOwner == AInv /\ [Next]_vars => RewardsStep
<1> SUFFICES ASSUME AInv, [Next]_vars PROVE RewardsStep
  OBVIOUS
<1>1. ASSUME NEW r \in Requests, CallInShard(r) PROVE RewardsStep
  BY <1>1, FunctionPaysOwner DEF CallInShard
<1>2. ASSUME NEW m \in calls, Execute(m) PROVE RewardsStep
  BY <1>2, FunctionPaysOwner DEF Execute, AInv, AccountTypes, UniqueIds
<1>3. ASSUME NEW c \in Contracts, Earn(c) PROVE RewardsStep
  BY <1>3 DEF Earn, RewardsStep, AInv, AccountTypes
<1>4. CASE reward' = reward
  BY <1>4 DEF RewardsStep, AInv, AccountTypes
<1>5. QED
  BY <1>1, <1>2, <1>3, <1>4
     DEF Next, vars, CallOtherShard, Fail, ReceivePayout, SaveKeyValue

\* No reward leaves a contract but whole and to its owner at that moment, for any number
\* of claims and changes of owner that cross (claimDeveloperRewards, changeOwnerAddress).
THEOREM OwnerIsPaid == Spec => RewardsGoToOwner
<1>1. Spec => [][RewardsStep]_vars
  BY SpecAInv, StepPaysOwner, PTL DEF Spec
<1>2. QED
  BY <1>1 DEF RewardsGoToOwner, RewardsStep

-----------------------------------------------------------------------------
(* Gas                                                                     *)

LEMMA AccountGivesBackOnce ==
  ASSUME NEW r \in Requests, r.gas >= Cost[r.fn], NEW remaining,
         Account(r, remaining),
         \/ remaining = GasRemaining(r, SameShard(r))
         \/ remaining = 0
         \/ r.fn = "SetUserName" /\ remaining = r.gas - Cost[r.fn]
  PROVE  GasGivenBackOnce'
<1>1. r.gas \in Nat /\ Cost[r.fn] \in Nat
  BY RequestTypes
<1>2. GivenBack(r) + remaining <= r.gas - Cost[r.fn]
  BY <1>1 DEF GivenBack, GasRemaining
<1>3. last'.provided = r.gas /\ last'.used = Cost[r.fn] /\ last'.returned = GivenBack(r) + remaining
  BY DEF Account
<1>4. QED
  BY <1>2, <1>3 DEF GasGivenBackOnce

LEMMA FunctionGivesBackOnce ==
  ASSUME NEW r \in Requests, NEW id \in CallIds, Function(r, id)
  PROVE  GasGivenBackOnce'
<1>1. CASE ChangeOwnerAddress(r)
  BY <1>1, AccountGivesBackOnce DEF ChangeOwnerAddress
<1>2. CASE ClaimDeveloperRewards(r, id)
  <2>1. r.gas >= Cost[r.fn] /\ Account(r, IF r.async THEN 0 ELSE GasRemaining(r, SameShard(r)))
    BY <1>2 DEF ClaimDeveloperRewards
  <2>2. CASE r.async
    BY <2>1, <2>2, AccountGivesBackOnce
  <2>3. CASE ~r.async
    BY <2>1, <2>3, AccountGivesBackOnce
  <2>4. QED
    BY <2>2, <2>3
<1>3. CASE SetUserName(r)
  BY <1>3, AccountGivesBackOnce DEF SetUserName
<1>4. QED
  BY <1>1, <1>2, <1>3 DEF Function

LEMMA StepGivesBackOnce == AInv /\ GasGivenBackOnce /\ [Next]_vars => GasGivenBackOnce'
<1> SUFFICES ASSUME AInv, GasGivenBackOnce, [Next]_vars PROVE GasGivenBackOnce'
  OBVIOUS
<1>1. ASSUME NEW r \in Requests, CallInShard(r) PROVE GasGivenBackOnce'
  BY <1>1, FunctionGivesBackOnce DEF CallInShard
<1>2. ASSUME NEW m \in calls, Execute(m) PROVE GasGivenBackOnce'
  BY <1>2, FunctionGivesBackOnce DEF Execute, AInv, AccountTypes
<1>3. CASE last'.fn \in {"none", "SaveKeyValue"}
  BY <1>3 DEF GasGivenBackOnce
<1>4. CASE last' = last
  BY <1>4 DEF GasGivenBackOnce
<1>5. QED
  BY <1>1, <1>2, <1>3, <1>4
     DEF Next, vars, NoCall, CallOtherShard, Fail, ReceivePayout, Earn, SaveKeyValue

\* The two executions of a call together never give back gas that its cost has used, for
\* every cost and every amount provided (computeGasRemaining).
THEOREM GasBackOnce == Spec => []GasGivenBackOnce
<1>1. Init => GasGivenBackOnce
  BY DEF Init, NoCall, GasGivenBackOnce
<1>2. QED
  BY <1>1, SpecAInv, StepGivesBackOnce, PTL DEF Spec

-----------------------------------------------------------------------------
(* The sum of the rewards                                                  *)

\* From f to g a number v is added at e.
Grown(f, g, S, e, v) ==
  /\ IsFiniteSet(S) /\ e \in S /\ v \in Int
  /\ f \in [S -> Nat] /\ g \in [S -> Nat]
  /\ g[e] = f[e] + v /\ \A x \in S \ {e} : g[x] = f[x]

LEMMA SumGrown ==
  ASSUME NEW f, NEW g, NEW S, NEW e, NEW v, Grown(f, g, S, e, v)
  PROVE  SumFunction(f) \in Int /\ SumFunction(g) = SumFunction(f) + v
<1>1. /\ \A x \in S : f[x] \in Int /\ g[x] \in Int
      /\ f[e] \in Int /\ g[e] = f[e] + v /\ v \in Int /\ IsFiniteSet(S) /\ e \in S
      /\ \A x \in S \ {e} : g[x] = f[x]
      /\ DOMAIN f = S /\ DOMAIN g = S
  BY DEF Grown
<1>2. SumFunctionOnSet(g, S) = SumFunctionOnSet(f, S) - f[e] + g[e]
  BY <1>1, SumChange
<1>3. SumFunctionOnSet(f, S) \in Int
  BY <1>1, SumType
<1>4. SumFunctionOnSet(g, S) = SumFunctionOnSet(f, S) + v
  BY <1>1, <1>2, <1>3
<1>5. SumFunction(f) = SumFunctionOnSet(f, S) /\ SumFunction(g) = SumFunctionOnSet(g, S)
  BY <1>1, Zenon DEF SumFunction
<1>6. QED
  BY <1>3, <1>4, <1>5

\* The payouts of a set of messages.
Paid(set) == SumFunction([p \in set |-> p.val])

LEMMA PaidAdd ==
  ASSUME NEW set, IsFiniteSet(set), NEW m, m \notin set, \A x \in set \cup {m} : x.val \in Int
  PROVE  Paid(set) \in Int /\ Paid(set \cup {m}) = Paid(set) + m.val
<1> DEFINE f == [x \in set |-> x.val]
           g == [x \in set \cup {m} |-> x.val]
<1>1. DOMAIN f = set /\ DOMAIN g = set \cup {m}
  OBVIOUS
<1>2. Paid(set) = SumFunctionOnSet(f, set) /\ Paid(set \cup {m}) = SumFunctionOnSet(g, set \cup {m})
  BY <1>1, Zenon DEF Paid, SumFunction
<1>3. /\ \A x \in set : f[x] = g[x] /\ f[x] \in Int
      /\ \A x \in set \cup {m} : g[x] \in Int
      /\ g[m] = m.val
  OBVIOUS
<1> HIDE DEF f, g
<1>4. SumFunctionOnSet(f, set) = SumFunctionOnSet(g, set) /\ SumFunctionOnSet(f, set) \in Int
  BY <1>3, SumAgrees, SumType
<1>5. SumFunctionOnSet(g, set \cup {m}) = SumFunctionOnSet(g, set) + g[m]
  BY <1>3, SumAdd
<1>6. QED
  BY <1>2, <1>3, <1>4, <1>5

LEMMA PaidRemove ==
  ASSUME NEW set, IsFiniteSet(set), NEW m \in set, \A x \in set : x.val \in Int
  PROVE  Paid(set \ {m}) \in Int /\ Paid(set) = Paid(set \ {m}) + m.val
<1> DEFINE rest == set \ {m}
<1>1. IsFiniteSet(rest) /\ m \notin rest /\ rest \cup {m} = set
  BY FS_RemoveElement
<1> HIDE DEF rest
<1>2. \A x \in rest \cup {m} : x.val \in Int
  BY <1>1
<1>3. Paid(rest) \in Int /\ Paid(rest \cup {m}) = Paid(rest) + m.val
  BY <1>1, <1>2, PaidAdd
<1>4. QED
  BY <1>1, <1>3 DEF rest

Whole == SumFunction(reward) + SumFunction(balance) + Paid(payouts) = earned

RInv == IsFiniteSet(payouts) /\ earned \in Nat /\ Whole

LEMMA FiniteAddresses == IsFiniteSet(Addresses) /\ Contracts \subseteq Addresses
  BY AccountAssumption, FS_Union DEF Addresses

LEMMA SumsAreNumbers ==
  ASSUME AInv, IsFiniteSet(payouts)
  PROVE  /\ SumFunction(reward) \in Int /\ SumFunction(balance) \in Int /\ Paid(payouts) \in Int
         /\ \A p \in payouts : p.val \in Int /\ p.val \in Nat /\ p.to \in Addresses
<1>1. reward \in [Contracts -> Nat] /\ balance \in [Addresses -> Nat]
  BY DEF AInv, AccountTypes
<1>2. ASSUME NEW f, NEW S, IsFiniteSet(S), f \in [S -> Nat] PROVE SumFunction(f) \in Int
  <2>1. DOMAIN f = S /\ \A x \in S : f[x] \in Int
    BY <1>2
  <2>2. SumFunctionOnSet(f, S) \in Int
    BY <1>2, <2>1, SumType
  <2>3. QED
    BY <2>1, <2>2, Zenon DEF SumFunction
<1>3. SumFunction(reward) \in Int /\ SumFunction(balance) \in Int
  BY <1>1, <1>2, AccountAssumption, FiniteAddresses
<1>4. \A p \in payouts : p.val \in Int /\ p.val \in Nat /\ p.to \in Addresses
  BY DEF AInv, AccountTypes
<1>5. Paid(payouts) \in Int
  <2> DEFINE f == [p \in payouts |-> p.val]
  <2>1. DOMAIN f = payouts /\ \A p \in payouts : f[p] \in Int
    BY <1>4
  <2>2. Paid(payouts) = SumFunctionOnSet(f, payouts)
    BY <2>1, Zenon DEF Paid, SumFunction
  <2> HIDE DEF f
  <2>3. QED
    BY <2>1, <2>2, SumType
<1>6. QED
  BY <1>3, <1>4, <1>5

LEMMA InitRInv == Init => RInv
<1> SUFFICES ASSUME Init PROVE RInv
  OBVIOUS
<1>1. /\ reward = [c \in Contracts |-> 0] /\ balance = [a \in Addresses |-> 0]
      /\ payouts = {} /\ earned = 0
  BY DEF Init
<1>2. ASSUME NEW S, IsFiniteSet(S), NEW f, f = [x \in S |-> 0] PROVE SumFunction(f) = 0
  <2>1. DOMAIN f = S /\ \A x \in S : f[x] = 0
    BY <1>2
  <2>2. SumFunctionOnSet(f, S) = 0
    BY <1>2, <2>1, SumZero
  <2>3. QED
    BY <2>1, <2>2, Zenon DEF SumFunction
<1>3. SumFunction(reward) = 0 /\ SumFunction(balance) = 0
  BY <1>1, <1>2, AccountAssumption, FiniteAddresses
<1>4. Paid({}) = 0
  <2> DEFINE f == [p \in {} |-> p.val]
  <2>1. Paid({}) = SumFunctionOnSet(f, {})
    BY Zenon DEF Paid, SumFunction
  <2> HIDE DEF f
  <2>2. QED
    BY <2>1, SumEmpty
<1>5. QED
  BY <1>1, <1>3, <1>4, FS_EmptySet DEF RInv, Whole

\* A claim moves what the contract had to its owner, at once or with a payout.
LEMMA FunctionMovesRewards ==
  ASSUME AInv, RInv, NEW r \in Requests, NEW id \in CallIds, Function(r, id),
         SameShard(r) \/ \A p \in payouts : p.id # id, earned' = earned
  PROVE  RInv'
<1>1. CASE ClaimDeveloperRewards(r, id)
  <2> DEFINE v == reward[r.to]
  <2>1. /\ r.to \in Contracts /\ r.from \in Addresses
        /\ reward' = [reward EXCEPT ![r.to] = 0]
    BY <1>1, RequestTypes DEF ClaimDeveloperRewards
  <2>2. v \in Nat /\ v \in Int /\ -v \in Int
    BY <2>1 DEF AInv, AccountTypes
  <2>3. SumFunction(reward') = SumFunction(reward) + (-v)
    <3>1. Grown(reward, reward', Contracts, r.to, -v)
      BY <2>1, <2>2, AccountAssumption DEF AInv, AccountTypes, Grown
    <3>2. QED
      BY <3>1, SumGrown
  <2>4. /\ SumFunction(reward) \in Int /\ SumFunction(balance) \in Int /\ Paid(payouts) \in Int
        /\ IsFiniteSet(payouts) /\ earned \in Nat /\ Whole
        /\ \A p \in payouts : p.val \in Int
    BY SumsAreNumbers DEF RInv
  <2>5. CASE SameShard(r)
    <3>1. balance' = [balance EXCEPT ![r.from] = @ + v] /\ payouts' = payouts
      BY <1>1, <2>5 DEF ClaimDeveloperRewards
    <3>2. Grown(balance, balance', Addresses, r.from, v)
      BY <2>1, <2>2, <3>1, FiniteAddresses DEF AInv, AccountTypes, Grown
    <3>3. SumFunction(balance') = SumFunction(balance) + v
      BY <3>2, SumGrown
    <3>4. SumFunction(reward') + SumFunction(balance') + Paid(payouts) = earned
      BY <2>2, <2>3, <2>4, <3>3 DEF Whole
    <3>5. QED
      BY <2>4, <3>1, <3>4 DEF RInv, Whole, Paid
  <2>6. CASE ~SameShard(r)
    <3> DEFINE m == [id |-> id, to |-> r.from, val |-> v]
    <3>1. payouts' = payouts \cup {m} /\ balance' = balance
      BY <1>1, <2>6 DEF ClaimDeveloperRewards
    <3>2. m \notin payouts /\ m.val = v
      BY <2>6
    <3> HIDE DEF m, v
    <3>3. \A x \in payouts \cup {m} : x.val \in Int
      BY <2>2, <2>4, <3>2
    <3>4. Paid(payouts) \in Int /\ Paid(payouts \cup {m}) = Paid(payouts) + v
      BY <2>4, <3>2, <3>3, PaidAdd
    <3>5. SumFunction(reward') + SumFunction(balance) + Paid(payouts') = earned
      BY <2>2, <2>3, <2>4, <3>1, <3>4 DEF Whole
    <3>6. IsFiniteSet(payouts')
      BY <2>4, <3>1, FS_AddElement
    <3>7. QED
      BY <2>4, <3>1, <3>5, <3>6 DEF RInv, Whole, Paid
  <2>7. QED
    BY <2>5, <2>6
<1>2. CASE UNCHANGED <<reward, balance, payouts>>
  BY <1>2 DEF RInv, Whole, Paid
<1>3. QED
  BY <1>1, <1>2 DEF Function, ChangeOwnerAddress, SetUserName

LEMMA StepRInv == AInv /\ RInv /\ [Next]_vars => RInv'
<1> SUFFICES ASSUME AInv, RInv, [Next]_vars PROVE RInv'
  OBVIOUS
<1>0. /\ SumFunction(reward) \in Int /\ SumFunction(balance) \in Int /\ Paid(payouts) \in Int
      /\ IsFiniteSet(payouts) /\ earned \in Nat /\ Whole
      /\ \A p \in payouts : p.val \in Int /\ p.val \in Nat /\ p.to \in Addresses
  BY SumsAreNumbers DEF RInv
<1>1. ASSUME NEW r \in Requests, CallInShard(r) PROVE RInv'
  BY <1>1, FunctionMovesRewards DEF CallInShard
<1>2. ASSUME NEW m \in calls, Execute(m) PROVE RInv'
  <2>1. m.call \in Requests /\ m.id \in CallIds /\ \A p \in payouts : p.id # m.id
    BY DEF AInv, AccountTypes, UniqueIds
  <2>2. QED
    BY <1>2, <2>1, FunctionMovesRewards DEF Execute
<1>3. ASSUME NEW p \in payouts, ReceivePayout(p) PROVE RInv'
  <2>1. /\ balance' = [balance EXCEPT ![p.to] = @ + p.val]
        /\ payouts' = payouts \ {p} /\ reward' = reward /\ earned' = earned
    BY <1>3 DEF ReceivePayout
  <2>2. Grown(balance, balance', Addresses, p.to, p.val)
    BY <1>0, <2>1, FiniteAddresses DEF AInv, AccountTypes, Grown
  <2>3. SumFunction(balance') = SumFunction(balance) + p.val
    BY <2>2, SumGrown
  <2>4. Paid(payouts \ {p}) \in Int /\ Paid(payouts) = Paid(payouts \ {p}) + p.val
    BY <1>0, PaidRemove
  <2>5. SumFunction(reward) + SumFunction(balance') + Paid(payouts') = earned
    BY <1>0, <2>1, <2>3, <2>4 DEF Whole
  <2>6. IsFiniteSet(payouts')
    BY <1>0, <2>1, FS_RemoveElement
  <2>7. QED
    BY <1>0, <2>1, <2>5, <2>6 DEF RInv, Whole, Paid
<1>4. ASSUME NEW c \in Contracts, Earn(c) PROVE RInv'
  <2>1. /\ reward' = [reward EXCEPT ![c] = @ + 1] /\ earned' = earned + 1
        /\ UNCHANGED <<balance, payouts>>
    BY <1>4 DEF Earn
  <2>2. 1 \in Int
    OBVIOUS
  <2>3. Grown(reward, reward', Contracts, c, 1)
    BY <2>1, <2>2, AccountAssumption DEF AInv, AccountTypes, Grown
  <2>4. SumFunction(reward') = SumFunction(reward) + 1
    BY <2>3, SumGrown
  <2>5. SumFunction(reward') + SumFunction(balance) + Paid(payouts) = earned + 1
    BY <1>0, <2>4 DEF Whole
  <2>6. earned' \in Nat
    BY <1>0, <2>1
  <2>7. QED
    BY <1>0, <2>1, <2>5, <2>6 DEF RInv, Whole, Paid
<1>5. CASE UNCHANGED <<reward, balance, payouts, earned>>
  BY <1>5 DEF RInv, Whole, Paid
<1>6. QED
  BY <1>1, <1>2, <1>3, <1>4, <1>5 DEF Next, vars, CallOtherShard, Fail, SaveKeyValue

LEMMA SpecRInv == Spec => []RInv
  BY SpecAInv, InitRInv, StepRInv, PTL DEF Spec

\* Rewards are paid once and none is lost, for any number of contracts, owners and claims
\* on their way.
THEOREM RewardsPaidOnce == Spec => []RewardsConserved
<1>1. RInv => RewardsConserved
  BY DEF RInv, Whole, Paid, RewardsConserved
<1>2. QED
  BY <1>1, SpecRInv, PTL

-----------------------------------------------------------------------------
(* What one pair does                                                      *)

Progress == [stored : [Keys -> Values], used : Nat, ok : BOOLEAN]
Pairs == Keys \X Values

\* A storage that started as old has grown by what was used, and a call that has not
\* failed was provided with it.
Covered(s, old, provided) ==
  /\ StorePerByte * (Bytes(s.stored) - Bytes(old)) <= s.used
  /\ s.ok => StorePerByte * (Bytes(s.stored) - Bytes(old)) <= provided

LEMMA GrowthIsPaid ==
  ASSUME NEW price \in Nat, NEW x \in Int, NEW d \in Int, NEW g \in Nat, d <= g,
         NEW used \in Nat, price * x <= used
  PROVE  price * (x + d) <= used + g * price
<1>1. price * (x + d) = price * x + price * d /\ price * x \in Int /\ price * d \in Int
  OBVIOUS
<1>2. price * d <= g * price /\ g * price \in Int
  <2>1. g - d \in Nat
    OBVIOUS
  <2>2. price * (g - d) \in Nat
    BY <2>1
  <2>3. price * (g - d) = g * price - price * d
    OBVIOUS
  <2>4. QED
    BY <2>2, <2>3
<1>3. QED
  BY <1>1, <1>2

LEMMA MaxOfTwo ==
  ASSUME NEW d \in Int
  PROVE  Max({0, d}) \in Nat /\ d <= Max({0, d})
<1>1. \E x \in {0, d} : \A y \in {0, d} : x >= y
  <2>1. CASE d >= 0
    BY <2>1
  <2>2. CASE ~(d >= 0)
    BY <2>2
  <2>3. QED
    BY <2>1, <2>2
<1>2. Max({0, d}) \in {0, d} /\ \A y \in {0, d} : Max({0, d}) >= y
  BY <1>1 DEF Max
<1>3. QED
  BY <1>2

LEMMA BytesNumber ==
  ASSUME NEW stored \in [Keys -> Values]
  PROVE  Bytes(stored) \in Int
<1> DEFINE f == [k \in Keys |-> Length[stored[k]]]
<1>1. DOMAIN f = Keys /\ IsFiniteSet(Keys) /\ \A k \in Keys : f[k] \in Int
  BY AccountAssumption
<1>2. Bytes(stored) = SumFunctionOnSet(f, Keys)
  BY <1>1, Zenon DEF Bytes, SumFunction
<1> HIDE DEF f
<1>3. QED
  BY <1>1, <1>2, SumType

LEMMA BytesChange ==
  ASSUME NEW stored \in [Keys -> Values], NEW key \in Keys, NEW value \in Values,
         NEW new, new = [stored EXCEPT ![key] = value]
  PROVE  Bytes(new) = Bytes(stored) + (Length[value] - Length[stored[key]])
<1> DEFINE f == [k \in Keys |-> Length[stored[k]]]
           g == [k \in Keys |-> Length[new[k]]]
<1>1. /\ DOMAIN f = Keys /\ DOMAIN g = Keys /\ IsFiniteSet(Keys)
      /\ \A k \in Keys : f[k] \in Int /\ g[k] \in Int
      /\ \A k \in Keys \ {key} : g[k] = f[k]
      /\ f[key] = Length[stored[key]] /\ g[key] = Length[value]
      /\ f[key] \in Int /\ g[key] \in Int
  BY AccountAssumption
<1>2. Bytes(stored) = SumFunctionOnSet(f, Keys) /\ Bytes(new) = SumFunctionOnSet(g, Keys)
  BY <1>1, Zenon DEF Bytes, SumFunction
<1>3. Bytes(stored) \in Int
  BY BytesNumber
<1> HIDE DEF f, g
<1>4. SumFunctionOnSet(g, Keys) = SumFunctionOnSet(f, Keys) - f[key] + g[key]
  <2>1. \A k \in Keys : f[k] \in Int
    BY <1>1
  <2>2. \A k \in Keys : g[k] \in Int
    BY <1>1
  <2>3. IsFiniteSet(Keys) /\ \A k \in Keys \ {key} : g[k] = f[k]
    BY <1>1
  <2>4. QED
    BY <2>1, <2>2, <2>3, SumChange
<1>5. QED
  BY <1>1, <1>2, <1>3, <1>4

\* The three ways of SavePair.
LEMMA SavePairWays ==
  ASSUME NEW s \in Progress, NEW pair \in Pairs, NEW provided \in Nat,
         NEW q, q = SavePair(s, pair, provided)
  PROVE  /\ q \in Progress
         /\ \E more \in Nat, g \in Nat :
              \/ q.stored = s.stored /\ q.used = s.used + more /\ (q.ok => s.ok)
              \/ /\ q.stored = [s.stored EXCEPT ![pair[1]] = pair[2]]
                 /\ Length[pair[2]] - Length[s.stored[pair[1]]] <= g
                 /\ q.used = s.used + more + g * StorePerByte
                 /\ q.ok => provided >= q.used
<1> DEFINE key == pair[1]
           value == pair[2]
           more == (Length[key] + Length[value]) * PersistPerByte
           d == Length[value] - Length[s.stored[key]]
           g == Max({0, d})
           total == s.used + more + g * StorePerByte
<1>1. /\ key \in Keys /\ value \in Values
      /\ s.stored \in [Keys -> Values] /\ s.used \in Nat /\ s.ok \in BOOLEAN
  BY DEF Pairs, Progress
<1>2. /\ Length[key] \in Nat /\ Length[value] \in Nat /\ Length[s.stored[key]] \in Nat
      /\ PersistPerByte \in Nat /\ StorePerByte \in Nat
  BY <1>1, AccountAssumption
<1>3. more \in Nat /\ d \in Int
  BY <1>2
<1>4. g \in Nat /\ d <= g
  BY <1>3, MaxOfTwo
<1>5. total \in Nat /\ s.used + more \in Nat
  <2> HIDE DEF more, g
  <2>1. g * StorePerByte \in Nat
    BY <1>2, <1>4
  <2>2. QED
    BY <1>1, <1>3, <2>1
<1>6. q = IF ~s.ok \/ key \in Protected THEN [s EXCEPT !.ok = FALSE]
          ELSE IF s.stored[key] = value THEN [s EXCEPT !.used = s.used + more]
          ELSE [stored |-> [s.stored EXCEPT ![key] = value], used |-> total, ok |-> provided >= total]
  BY DEF SavePair
<1> HIDE DEF key, value, more, d, g, total
<1>7. CASE ~s.ok \/ key \in Protected
  <2>1. q \in Progress /\ q.stored = s.stored /\ q.used = s.used /\ ~q.ok
    BY <1>1, <1>6, <1>7 DEF Progress
  <2>2. q.used = s.used + 0 /\ 0 \in Nat
    BY <1>1, <2>1
  <2>3. QED
    BY <2>1, <2>2
<1>8. CASE ~(~s.ok \/ key \in Protected) /\ s.stored[key] = value
  <2>1. q \in Progress /\ q.stored = s.stored /\ q.used = s.used + more /\ q.ok = s.ok
    BY <1>1, <1>5, <1>6, <1>8 DEF Progress
  <2>2. QED
    BY <1>3, <2>1
<1>9. CASE ~(~s.ok \/ key \in Protected) /\ s.stored[key] # value
  <2>1. q = [stored |-> [s.stored EXCEPT ![key] = value], used |-> total, ok |-> provided >= total]
    BY <1>6, <1>9
  <2>2. q \in Progress
    BY <1>1, <1>5, <2>1 DEF Progress
  <2>3. /\ q.stored = [s.stored EXCEPT ![key] = value] /\ q.used = total
        /\ q.ok => provided >= q.used
    <3>1. PICK ok : ok = (provided >= total)
      OBVIOUS
    <3>2. q = [stored |-> [s.stored EXCEPT ![key] = value], used |-> total, ok |-> ok]
      BY <2>1, <3>1, Zenon
    <3>3. q.stored = [s.stored EXCEPT ![key] = value] /\ q.used = total /\ q.ok = ok
      BY <3>2
    <3>4. QED
      BY <3>1, <3>3
  <2>4. QED
    BY <1>3, <1>4, <2>2, <2>3 DEF key, value, total, d
<1>10. QED
  BY <1>7, <1>8, <1>9

LEMMA SavePairCovers ==
  ASSUME NEW s \in Progress, NEW pair \in Pairs, NEW provided \in Nat,
         NEW old \in [Keys -> Values], Covered(s, old, provided),
         NEW q, q = SavePair(s, pair, provided)
  PROVE  q \in Progress /\ Covered(q, old, provided)
<1>1. PICK more \in Nat, g \in Nat :
        \/ q.stored = s.stored /\ q.used = s.used + more /\ (q.ok => s.ok)
        \/ /\ q.stored = [s.stored EXCEPT ![pair[1]] = pair[2]]
           /\ Length[pair[2]] - Length[s.stored[pair[1]]] <= g
           /\ q.used = s.used + more + g * StorePerByte
           /\ q.ok => provided >= q.used
  BY SavePairWays
<1>2. q \in Progress
  BY SavePairWays
<1>3. /\ s.stored \in [Keys -> Values] /\ s.used \in Nat /\ q.used \in Nat
      /\ pair[1] \in Keys /\ pair[2] \in Values /\ StorePerByte \in Nat
  BY <1>2, AccountAssumption DEF Progress, Pairs
<1> DEFINE x == Bytes(s.stored) - Bytes(old)
           y == Bytes(q.stored) - Bytes(old)
<1>4. x \in Int /\ Bytes(s.stored) \in Int /\ Bytes(old) \in Int
  BY <1>3, BytesNumber
<1>5. StorePerByte * x <= s.used /\ (s.ok => StorePerByte * x <= provided) /\ StorePerByte * x \in Int
  BY <1>3, <1>4 DEF Covered
<1>6. CASE q.stored = s.stored /\ q.used = s.used + more /\ (q.ok => s.ok)
  <2>1. y = x
    BY <1>6
  <2> HIDE DEF x, y
  <2>2. StorePerByte * y <= q.used /\ (q.ok => StorePerByte * y <= provided)
    BY <1>3, <1>5, <1>6, <2>1
  <2>3. QED
    BY <1>2, <2>2 DEF y, Covered
<1>7. CASE /\ q.stored = [s.stored EXCEPT ![pair[1]] = pair[2]]
           /\ Length[pair[2]] - Length[s.stored[pair[1]]] <= g
           /\ q.used = s.used + more + g * StorePerByte
           /\ q.ok => provided >= q.used
  <2> DEFINE d == Length[pair[2]] - Length[s.stored[pair[1]]]
             used == s.used + more
  <2>1. d \in Int /\ d <= g
    <3>1. s.stored[pair[1]] \in Values
      BY <1>3
    <3>2. Length[pair[2]] \in Nat /\ Length[s.stored[pair[1]]] \in Nat
      BY <1>3, <3>1, AccountAssumption
    <3>3. QED
      BY <1>7, <3>2
  <2>2. y = x + d
    <3>1. Bytes(q.stored) = Bytes(s.stored) + d
      BY <1>3, <1>7, BytesChange
    <3> HIDE DEF d
    <3>2. QED
      BY <1>4, <2>1, <3>1
  <2>3. used \in Nat /\ s.used <= used
    BY <1>3
  <2>4. q.used = used + g * StorePerByte
    BY <1>7
  <2> HIDE DEF x, y, d, used
  <2>5. StorePerByte * x <= used
    BY <1>3, <1>5, <2>3
  <2>6. StorePerByte * (x + d) <= used + g * StorePerByte
    BY <1>3, <1>4, <2>1, <2>3, <2>5, GrowthIsPaid DEF x
  <2>7. StorePerByte * y <= q.used /\ StorePerByte * y \in Int
    <3>1. y \in Int
      BY <1>4, <2>1, <2>2
    <3>2. QED
      BY <1>3, <2>2, <2>4, <2>6, <3>1
  <2>8. q.ok => StorePerByte * y <= provided
    BY <1>3, <1>7, <2>7
  <2>9. QED
    BY <1>2, <2>7, <2>8 DEF y, Covered
<1>8. QED
  BY <1>1, <1>6, <1>7

-----------------------------------------------------------------------------
(* What a call saves                                                       *)

StorageTypes == storage \in [Users -> [Keys -> Values]]

Before(v) == [stored |-> storage[v.user], used |-> Cost["SaveKeyValue"], ok |-> TRUE]

LEMMA SaveFields ==
  ASSUME NEW v \in Saves
  PROVE  /\ v.user \in Users /\ v.gas \in 0..(Word - 1) /\ v.gas \in Nat
         /\ \E n \in Nat : DOMAIN v.pairs = 1..n /\ v.pairs \in [1..n -> Pairs]
<1>1. v.user \in Users /\ v.pairs \in Seq(Pairs) /\ v.gas \in 0..(Word - 1)
  BY AccountAssumption DEF Pairs
<1>2. \E n \in Nat : v.pairs \in [1..n -> Pairs]
  BY <1>1
<1>3. QED
  BY <1>1, <1>2, AccountAssumption

\* The results after the pairs of a call, one after the other.
LEMMA SavedRuns ==
  ASSUME StorageTypes, NEW v \in Saves, NEW n \in Nat,
         DOMAIN v.pairs = 1..n, v.pairs \in [1..n -> Pairs]
  PROVE  \E h : /\ h[0] = Before(v) /\ h[n] = SavedPairs(v)
                /\ \A k \in 0..n : h[k] \in Progress
                /\ \A k \in 0..(n - 1) : h[k + 1] = SavePair(h[k], v.pairs[k + 1], v.gas)
<1> DEFINE F == [p \in Progress \X Pairs |-> SavePair(p[1], p[2], v.gas)]
           U == SUBSET (1..n)
           start == Before(v)
           Eq(iter) == iter = [s \in SUBSET (DOMAIN v.pairs) |->
                                 IF s = {} THEN start
                                 ELSE SavePair(iter[s \ {Max(s)}], v.pairs[Max(s)], v.gas)]
           c == CHOOSE iter : Eq(iter)
<1>0. start \in Progress /\ v.gas \in Nat
  BY SaveFields, AccountAssumption DEF StorageTypes, Progress, Before
<1>1. /\ F \in [Progress \X Pairs -> Progress]
      /\ \A s \in Progress, pair \in Pairs : F[<<s, pair>>] = SavePair(s, pair, v.gas)
  BY <1>0, SavePairWays
<1>5. SavedPairs(v) = c[1..n]
  BY Zenon DEF SavedPairs, FoldLeft, MapThenFoldSet, Before
<1> HIDE DEF F, start
<1>2. PICK g \in [U -> Progress] : FoldsTo(g, F, start, v.pairs, U)
  BY <1>0, <1>1, FoldExists
<1>3. Eq(g)
  <2>1. ASSUME NEW s \in U, s # {}
        PROVE  F[<<g[s \ {Max(s)}], v.pairs[Max(s)]>>] = SavePair(g[s \ {Max(s)}], v.pairs[Max(s)], v.gas)
    <3>1. Max(s) \in s
      BY <2>1, MaxIsMember
    <3>2. s \ {Max(s)} \in U /\ v.pairs[Max(s)] \in Pairs
      BY <3>1
    <3>3. QED
      BY <1>1, <3>2
  <2>2. g = [s \in U |-> IF s = {} THEN start ELSE F[<<g[s \ {Max(s)}], v.pairs[Max(s)]>>]]
    BY <1>2 DEF FoldsTo
  <2>3. QED
    BY <2>1, <2>2
<1>4. Eq(c)
  BY <1>3, Zenon
<1> HIDE DEF c
<1>6. c[{}] = start
  BY <1>4
<1>7. \A k \in 0..(n - 1) : c[1..k] \in Progress => c[1..(k + 1)] = F[<<c[1..k], v.pairs[k + 1]>>]
  <2> TAKE k \in 0..(n - 1)
  <2> HAVE c[1..k] \in Progress
  <2> DEFINE s == 1..(k + 1)
  <2>1. s \in U /\ v.pairs[k + 1] \in Pairs
    OBVIOUS
  <2>2. Max(s) = k + 1 /\ s \ {k + 1} = 1..k /\ s # {}
    <3>1. k \in Nat
      OBVIOUS
    <3>2. QED
      BY <3>1, PrefixMax
  <2> HIDE DEF s
  <2>3. c[s] = SavePair(c[s \ {Max(s)}], v.pairs[Max(s)], v.gas)
    BY <1>4, <2>1, <2>2
  <2>4. c[s] = F[<<c[1..k], v.pairs[k + 1]>>]
    BY <1>1, <2>1, <2>2, <2>3
  <2>5. QED
    BY <2>4 DEF s
<1> HIDE DEF Eq, U
<1>8. PICK h : Passes(h, F, start, n, v.pairs, Progress) /\ h[n] = c[1..n]
  <2>1. FoldsOver(c, F, start, n, v.pairs, Progress, Pairs)
    BY <1>0, <1>1, <1>6, <1>7 DEF FoldsOver
  <2>2. QED
    BY <2>1, FoldPasses
<1>9. \A k \in 0..(n - 1) : h[k + 1] = SavePair(h[k], v.pairs[k + 1], v.gas)
  <2> TAKE k \in 0..(n - 1)
  <2>1. h[k] \in Progress /\ v.pairs[k + 1] \in Pairs /\ h[k + 1] = F[<<h[k], v.pairs[k + 1]>>]
    BY <1>8 DEF Passes
  <2>2. QED
    BY <1>1, <2>1
<1>10. QED
  BY <1>5, <1>8, <1>9 DEF Passes, start

LEMMA SavedCovered ==
  ASSUME StorageTypes, NEW v \in Saves
  PROVE  SavedPairs(v) \in Progress /\ Covered(SavedPairs(v), storage[v.user], v.gas)
<1>0. v.user \in Users /\ v.gas \in Nat /\ storage[v.user] \in [Keys -> Values]
  BY SaveFields DEF StorageTypes
<1>1. PICK n \in Nat : DOMAIN v.pairs = 1..n /\ v.pairs \in [1..n -> Pairs]
  BY SaveFields
<1>2. PICK h : /\ h[0] = Before(v) /\ h[n] = SavedPairs(v)
               /\ \A k \in 0..n : h[k] \in Progress
               /\ \A k \in 0..(n - 1) : h[k + 1] = SavePair(h[k], v.pairs[k + 1], v.gas)
  BY <1>1, SavedRuns
<1> DEFINE old == storage[v.user]
           N == {k \in Nat : k <= n => Covered(h[k], old, v.gas)}
<1>3. 0 \in N
  <2> DEFINE x == Bytes(old)
  <2>1. x \in Int
    BY <1>0, BytesNumber
  <2>2. h[0].stored = old /\ h[0].used = Cost["SaveKeyValue"]
    BY <1>2 DEF Before
  <2>3. Cost["SaveKeyValue"] \in Nat /\ StorePerByte \in Nat
    BY AccountAssumption
  <2> HIDE DEF x
  <2>4. StorePerByte * (x - x) = 0
    BY <2>1, <2>3
  <2> HIDE DEF old
  <2>5. Covered(h[0], old, v.gas)
    BY <1>0, <2>2, <2>3, <2>4 DEF Covered, x
  <2>6. QED
    BY <2>5
<1>4. ASSUME NEW k \in Nat, k \in N PROVE k + 1 \in N
  <2> SUFFICES ASSUME k + 1 <= n PROVE Covered(h[k + 1], old, v.gas)
    OBVIOUS
  <2>1. k \in 0..n /\ k \in 0..(n - 1) /\ k + 1 \in 1..n
    OBVIOUS
  <2>2. /\ h[k] \in Progress /\ v.pairs[k + 1] \in Pairs
        /\ h[k + 1] = SavePair(h[k], v.pairs[k + 1], v.gas)
    BY <1>1, <1>2, <2>1
  <2>3. Covered(h[k], old, v.gas)
    BY <1>4
  <2>4. old \in [Keys -> Values]
    BY <1>0
  <2> HIDE DEF old
  <2>5. QED
    BY <1>0, <2>2, <2>3, <2>4, SavePairCovers
<1>5. \A k \in Nat : k \in N
  <2> HIDE DEF N
  <2>1. QED
    BY <1>3, <1>4, SetInduction
<1>6. n \in 0..n
  OBVIOUS
<1>7. QED
  BY <1>2, <1>5, <1>6

-----------------------------------------------------------------------------
(* Types                                                                   *)

LastTypes ==
  last \in [fn : DOMAIN Cost \cup {"none"}, provided : Nat, used : Nat, returned : 0..Word-1]

TInv == StorageTypes /\ LastTypes

LEMMA NoCallTypes == last' = NoCall => LastTypes'
  BY AccountAssumption DEF LastTypes, NoCall

LEMMA AccountLast ==
  ASSUME NEW r \in Requests, r.gas >= Cost[r.fn], NEW remaining, Account(r, remaining),
         \/ remaining = GasRemaining(r, SameShard(r))
         \/ remaining = 0
         \/ r.fn = "SetUserName" /\ remaining = r.gas - Cost[r.fn]
  PROVE  LastTypes'
<1>1. r.gas \in Nat /\ Cost[r.fn] \in Nat /\ r.fn \in DOMAIN Cost /\ r.gas <= Word - 1 /\ Word \in Nat
  <2>1. r \in Calls
    BY AccountAssumption
  <2>2. r.gas \in 0..(Word - 1) /\ r.fn \in {"ChangeOwnerAddress", "ClaimDeveloperRewards", "SetUserName"}
    BY <2>1 DEF Calls
  <2>3. QED
    BY <2>2, AccountAssumption
<1>2. GivenBack(r) + remaining \in 0..(r.gas - Cost[r.fn])
  BY <1>1 DEF GivenBack, GasRemaining
<1>3. GivenBack(r) + remaining \in 0..(Word - 1)
  BY <1>1, <1>2
<1> HIDE DEF GivenBack
<1>4. PICK back : back = GivenBack(r) + remaining
  OBVIOUS
<1>5. last' = [fn |-> r.fn, provided |-> r.gas, used |-> Cost[r.fn], returned |-> back]
  BY <1>4, Zenon DEF Account
<1>6. QED
  BY <1>1, <1>3, <1>4, <1>5 DEF LastTypes

LEMMA FunctionLast ==
  ASSUME NEW r \in Requests, NEW id \in CallIds, Function(r, id)
  PROVE  LastTypes'
<1>1. CASE ChangeOwnerAddress(r)
  BY <1>1, AccountLast DEF ChangeOwnerAddress
<1>2. CASE ClaimDeveloperRewards(r, id)
  <2>1. r.gas >= Cost[r.fn] /\ Account(r, IF r.async THEN 0 ELSE GasRemaining(r, SameShard(r)))
    BY <1>2 DEF ClaimDeveloperRewards
  <2>2. CASE r.async
    BY <2>1, <2>2, AccountLast
  <2>3. CASE ~r.async
    BY <2>1, <2>3, AccountLast
  <2>4. QED
    BY <2>2, <2>3
<1>3. CASE SetUserName(r)
  BY <1>3, AccountLast DEF SetUserName
<1>4. QED
  BY <1>1, <1>2, <1>3 DEF Function

LEMMA InitTInv == Init => TInv
  BY AccountAssumption DEF Init, TInv, StorageTypes, LastTypes, NoCall

LEMMA SaveTypes ==
  ASSUME TInv, NEW v \in Saves, SaveKeyValue(v)
  PROVE  TInv'
<1>1. PICK s : s = SavedPairs(v)
  OBVIOUS
<1>2. s \in Progress
  BY <1>1, SavedCovered DEF TInv
<1>3. /\ storage' = [storage EXCEPT ![v.user] = s.stored]
      /\ last' = [fn |-> "SaveKeyValue", provided |-> v.gas, used |-> s.used,
                  returned |-> (v.gas - s.used) % Word]
  BY <1>1 DEF SaveKeyValue
<1>4. v.user \in Users /\ v.gas \in Nat /\ s.stored \in [Keys -> Values] /\ s.used \in Nat
  BY <1>2, SaveFields DEF Progress
<1>5. (v.gas - s.used) % Word \in 0..(Word - 1)
  BY <1>4, AccountAssumption
<1>6. "SaveKeyValue" \in DOMAIN Cost
  BY AccountAssumption
<1>7. StorageTypes'
  BY <1>3, <1>4 DEF TInv, StorageTypes
<1>8. LastTypes'
  BY <1>3, <1>4, <1>5, <1>6 DEF LastTypes
<1>9. QED
  BY <1>7, <1>8 DEF TInv

LEMMA StepTInv == AInv /\ TInv /\ [Next]_vars => TInv'
<1> SUFFICES ASSUME AInv, TInv, [Next]_vars PROVE TInv'
  OBVIOUS
<1>1. ASSUME NEW r \in Requests, CallInShard(r) PROVE TInv'
  BY <1>1, FunctionLast DEF CallInShard, TInv, StorageTypes
<1>2. ASSUME NEW m \in calls, Execute(m) PROVE TInv'
  <2>1. m.call \in Requests /\ m.id \in CallIds
    BY DEF AInv, AccountTypes
  <2>2. QED
    BY <1>2, <2>1, FunctionLast DEF Execute, TInv, StorageTypes
<1>3. ASSUME NEW v \in Saves, SaveKeyValue(v) PROVE TInv'
  BY <1>3, SaveTypes
<1>4. CASE last' = NoCall /\ storage' = storage
  BY <1>4, NoCallTypes DEF TInv, StorageTypes
<1>5. CASE UNCHANGED vars
  BY <1>5 DEF vars, TInv, StorageTypes, LastTypes
<1>6. QED
  BY <1>1, <1>2, <1>3, <1>4, <1>5 DEF Next, CallOtherShard, Fail, ReceivePayout, Earn

LEMMA SpecTInv == Spec => []TInv
  BY SpecAInv, InitTInv, StepTInv, PTL DEF Spec

\* Every variable keeps its type, the storage of the users and the gas of a call, in 64
\* bits, included.
THEOREM TypeCorrect == Spec => []TypeOK
<1>1. AInv /\ RInv /\ TInv => TypeOK
  BY DEF AInv, AccountTypes, RInv, TInv, StorageTypes, LastTypes, TypeOK
<1>2. QED
  BY <1>1, SpecAInv, SpecRInv, SpecTInv, PTL

-----------------------------------------------------------------------------
(* The growth of the storage                                               *)

GrowthStep ==
  \A u \in Users : StorePerByte * (Bytes(storage'[u]) - Bytes(storage[u])) <= last'.provided

LEMMA NoGrowth ==
  ASSUME TInv, TInv', storage' = storage
  PROVE  GrowthStep
<1> SUFFICES ASSUME NEW u \in Users
             PROVE  StorePerByte * (Bytes(storage[u]) - Bytes(storage[u])) <= last'.provided
  BY DEF GrowthStep
<1> DEFINE x == Bytes(storage[u])
<1>1. x \in Int /\ StorePerByte \in Nat /\ last'.provided \in Nat
  BY BytesNumber, AccountAssumption DEF TInv, StorageTypes, LastTypes
<1> HIDE DEF x
<1>2. StorePerByte * (x - x) = 0
  BY <1>1
<1>3. StorePerByte * (x - x) <= last'.provided
  BY <1>1, <1>2
<1>4. QED
  BY <1>3 DEF x

LEMMA SavePaysGrowth ==
  ASSUME TInv, TInv', NEW v \in Saves, SaveKeyValue(v)
  PROVE  GrowthStep
<1>1. PICK s : s = SavedPairs(v)
  OBVIOUS
<1>2. /\ s.ok /\ storage' = [storage EXCEPT ![v.user] = s.stored] /\ last'.provided = v.gas
  BY <1>1 DEF SaveKeyValue
<1>3. s \in Progress /\ Covered(s, storage[v.user], v.gas)
  BY <1>1, SavedCovered DEF TInv
<1>4. StorePerByte * (Bytes(s.stored) - Bytes(storage[v.user])) <= v.gas
  BY <1>2, <1>3 DEF Covered
<1> SUFFICES ASSUME NEW u \in Users
             PROVE  StorePerByte * (Bytes(storage'[u]) - Bytes(storage[u])) <= last'.provided
  BY DEF GrowthStep
<1>5. CASE u = v.user
  <2>1. storage'[u] = s.stored
    BY <1>2, <1>5 DEF TInv, StorageTypes
  <2>2. QED
    BY <1>2, <1>4, <1>5, <2>1
<1>6. CASE u # v.user
  <2> DEFINE x == Bytes(storage[u])
  <2>1. storage'[u] = storage[u]
    BY <1>2, <1>6 DEF TInv, StorageTypes
  <2>2. x \in Int /\ StorePerByte \in Nat /\ last'.provided \in Nat
    BY BytesNumber, AccountAssumption DEF TInv, StorageTypes, LastTypes
  <2>3. Bytes(storage'[u]) = x
    BY <2>1
  <2> HIDE DEF x
  <2>4. StorePerByte * (x - x) = 0
    BY <2>2
  <2>5. StorePerByte * (x - x) <= last'.provided
    BY <2>2, <2>4
  <2>6. QED
    BY <2>3, <2>5 DEF x
<1>7. QED
  BY <1>5, <1>6

LEMMA StepPaysGrowth == AInv /\ TInv /\ TInv' /\ [Next]_vars => GrowthStep
<1> SUFFICES ASSUME AInv, TInv, TInv', [Next]_vars PROVE GrowthStep
  OBVIOUS
<1>1. ASSUME NEW v \in Saves, SaveKeyValue(v) PROVE GrowthStep
  BY <1>1, SavePaysGrowth
<1>2. CASE storage' = storage
  BY <1>2, NoGrowth
<1>3. QED
  BY <1>1, <1>2
     DEF Next, vars, CallInShard, CallOtherShard, Execute, Fail, ReceivePayout, Earn

\* A call that names a key any number of times, lengthens and shortens its value, never
\* lets the storage grow by more than the gas provided covers (SaveKeyValue).
THEOREM GrowthIsCovered == Spec => GrowthPaid
<1>1. Spec => [][GrowthStep]_vars
  BY SpecAInv, SpecTInv, StepPaysGrowth, PTL DEF Spec
<1>2. QED
  BY <1>1 DEF GrowthPaid, GrowthStep

=============================================================================
