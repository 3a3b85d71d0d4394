------------------------ MODULE FungibleLedgerProofs ------------------------
(***************************************************************************)
(* Theorems about FungibleLedger, for any accounts, shards, amounts, epoch *)
(* flags and any number of transfers in flight.                            *)
(***************************************************************************)
EXTENDS FungibleLedger, FoldLemmas

LEMMA AccountsAreAddresses == Accounts \subseteq Addresses
  BY DEF Addresses

LEMMA TransferFields ==
  ASSUME NEW t \in Transfers
  PROVE  /\ t.from \in Addresses /\ t.to \in Addresses
         /\ t.val \in Amounts /\ t.val \in Nat
         /\ t.id \in TransferIds /\ t.ret \in BOOLEAN
  BY ParameterAssumption DEF Transfers

LEMMA RequestsAreTransfers ==
  ASSUME NEW t \in Requests
  PROVE  t \in Transfers /\ t.from \in Accounts /\ t.ret = FALSE
  BY ParameterAssumption DEF Requests, Transfers, Addresses

LEMMA IssuesAreTransfers == Issues \subseteq Transfers
  BY ParameterAssumption DEF Issues, Transfers, Addresses

LEMMA ReturnedIsTransfer ==
  ASSUME NEW t \in Transfers, NEW f \in {"none", "named"}
  PROVE  /\ Returned(t, f) \in Transfers
         /\ Returned(t, f).id = t.id /\ Returned(t, f).val = t.val
         /\ Returned(t, f).ret = TRUE
         /\ Returned(t, f).from = t.to /\ Returned(t, f).to = t.from
  BY DEF Returned, Transfers

LEMMA NestedUpdate ==
  ASSUME NEW A, NEW R, NEW f \in [A -> [R -> Nat]], NEW a \in A, NEW r \in R, NEW n \in Nat
  PROVE  [f EXCEPT ![a][r] = n] \in [A -> [R -> Nat]]
  OBVIOUS

\* What the states have in common that the proofs rely on.
IInv == TypeOK /\ UniqueTransfers

LEMMA InitIInv == Init => IInv
<1> SUFFICES ASSUME Init PROVE IInv
  OBVIOUS
<1>1. TypeOK
  BY DEF Init, TypeOK, Roles, Settings
<1>2. UniqueTransfers
  BY DEF Init, UniqueTransfers
<1> QED
  BY <1>1, <1>2 DEF IInv

LEMMA StepIInv == IInv /\ [Next]_vars => IInv'
<1> SUFFICES ASSUME IInv, [Next]_vars PROVE IInv'
  OBVIOUS
<1> USE DEF IInv
<1>t. TypeOK /\ UniqueTransfers
  OBVIOUS
<1>1. ASSUME NEW t \in Requests, TransferInShard(t) PROVE IInv'
  <2>1. t.from \in Addresses /\ t.to \in Addresses /\ t.val \in Nat
    BY RequestsAreTransfers, TransferFields
  <2>2. balance' \in [Addresses -> Nat]
    BY <1>t, <1>1, <2>1 DEF TypeOK, TransferInShard, CanDebit
  <2>3. QED
    BY <1>t, <1>1, <2>2 DEF TransferInShard, TypeOK, UniqueTransfers
<1>2. ASSUME NEW t \in Requests, SendToOtherShard(t) PROVE IInv'
  <2>1. t \in Transfers /\ t.from \in Addresses /\ t.val \in Nat
    BY RequestsAreTransfers, TransferFields
  <2>2. balance' \in [Addresses -> Nat]
    BY <1>t, <1>2, <2>1 DEF TypeOK, SendToOtherShard, CanDebit
  <2>3. inFlight' = inFlight \cup {t} /\ Unused(t.id)
    BY <1>2 DEF SendToOtherShard
  <2>4. UniqueTransfers'
    BY <1>t, <2>3 DEF UniqueTransfers, Unused
  <2>5. QED
    BY <1>t, <1>2, <2>1, <2>2, <2>3, <2>4 DEF SendToOtherShard, TypeOK
<1>3. ASSUME NEW t \in Issues, Issue(t) PROVE IInv'
  <2>1. t \in Transfers /\ t.val \in Nat
    BY IssuesAreTransfers, TransferFields
  <2>2. inFlight' = inFlight \cup {t} /\ Unused(t.id)
    BY <1>3 DEF Issue
  <2>3. UniqueTransfers'
    BY <1>t, <2>2 DEF UniqueTransfers, Unused
  <2>4. QED
    BY <1>t, <1>3, <2>1, <2>2, <2>3 DEF Issue, TypeOK
<1>4. ASSUME NEW t \in inFlight, Deliver(t) PROVE IInv'
  <2>1. t \in Transfers /\ t.to \in Addresses /\ t.val \in Nat
    BY <1>t, TransferFields DEF TypeOK
  <2>2. balance' \in [Addresses -> Nat]
    BY <1>t, <1>4, <2>1 DEF TypeOK, Deliver
  <2>3. QED
    BY <1>t, <1>4, <2>2 DEF Deliver, TypeOK, UniqueTransfers
<1>5. ASSUME NEW t \in inFlight, NEW f \in {"none", "named"}, SendBack(t, f) PROVE IInv'
  <2>1. t \in Transfers
    BY <1>t DEF TypeOK
  <2>2. Returned(t, f) \in Transfers /\ Returned(t, f).id = t.id
    BY <2>1, ReturnedIsTransfer
  <2>3. inFlight' = (inFlight \ {t}) \cup {Returned(t, f)}
    BY <1>5 DEF SendBack
  <2>4. UniqueTransfers'
    BY <1>t, <2>2, <2>3 DEF UniqueTransfers
  <2>5. QED
    BY <1>t, <1>5, <2>2, <2>3, <2>4 DEF SendBack, TypeOK
<1>6. ASSUME NEW a \in Accounts, NEW v \in Amounts,
             LocalMint(a, v) \/ LocalBurn(a, v) \/ Burn(a, v)
      PROVE  IInv'
  <2>1. a \in Addresses /\ v \in Nat
    BY AccountsAreAddresses, ParameterAssumption
  <2>2. LocalMint(a, v) => balance' \in [Addresses -> Nat] /\ supply' \in Int
    BY <1>t, <2>1 DEF LocalMint, TypeOK
  <2>3. TakeFrom(a, v) /\ CanDebit(a, v) => balance' \in [Addresses -> Nat] /\ supply' \in Int
    BY <1>t, <2>1 DEF TakeFrom, CanDebit, TypeOK
  <2>4. balance' \in [Addresses -> Nat] /\ supply' \in Int
    BY <1>6, <2>2, <2>3 DEF LocalBurn, Burn
  <2>5. UNCHANGED <<frozen, granted, settings, listed, inFlight>>
    BY <1>6 DEF LocalMint, LocalBurn, Burn, TakeFrom
  <2>6. QED
    BY <1>t, <2>4, <2>5 DEF TypeOK, UniqueTransfers
<1>7. ASSUME NEW a \in Freezable, Wipe(a) PROVE IInv'
  <2>1. a \in Accounts /\ a \in Addresses
    BY AccountsAreAddresses, ParameterAssumption
  <2>2. QED
    BY <1>t, <1>7, <2>1 DEF Wipe, TypeOK, UniqueTransfers
<1>8. ASSUME NEW a \in Freezable, NEW freeze \in BOOLEAN, ToggleFreeze(a, freeze) PROVE IInv'
  BY <1>t, <1>8, ParameterAssumption DEF ToggleFreeze, TypeOK, UniqueTransfers
<1>9. ASSUME NEW t \in Toggles, NEW set \in BOOLEAN, ToggleSetting(t[1], t[2], set)
      PROVE  IInv'
  <2>0. t[1] \in Shards /\ t[2] \in Settings
    BY ParameterAssumption
  <2>1. settings' \in [Shards -> SUBSET Settings]
    BY <1>t, <1>9, <2>0 DEF ToggleSetting, TypeOK
  <2>2. QED
    BY <1>t, <1>9, <2>1 DEF ToggleSetting, TypeOK, UniqueTransfers
<1>10. ASSUME NEW g \in Grantable, SetRole(g[1], g[2]) \/ UnSetRole(g[1], g[2]) PROVE IInv'
  <2>1. g[1] \in Accounts /\ g[2] \in Roles
    BY ParameterAssumption
  <2> DEFINE n == granted[g[1]][g[2]]
  <2>a. granted \in [Accounts -> [Roles -> Nat]] /\ n \in Nat
    BY <1>t, <2>1 DEF TypeOK
  <2>b. PICK k \in Nat : granted' = [granted EXCEPT ![g[1]][g[2]] = k]
    <3>1. CASE SetRole(g[1], g[2])
      <4>1. granted' = [granted EXCEPT ![g[1]][g[2]] = n + 1] /\ n + 1 \in Nat
        BY <3>1, <2>a DEF SetRole
      <4>2. QED
        BY <4>1
    <3>2. CASE UnSetRole(g[1], g[2])
      <4>1. granted' = [granted EXCEPT ![g[1]][g[2]] = IF n > 0 THEN n - 1 ELSE n]
        BY <3>2 DEF UnSetRole
      <4>2. (IF n > 0 THEN n - 1 ELSE n) \in Nat
        BY <2>a
      <4>3. QED
        BY <4>1, <4>2
    <3>3. QED
      BY <1>10, <3>1, <3>2
  <2>2. granted' \in [Accounts -> [Roles -> Nat]]
    BY <2>1, <2>a, <2>b, NestedUpdate
  <2>3. QED
    BY <1>t, <1>10, <2>2 DEF SetRole, UnSetRole, TypeOK, UniqueTransfers
<1>11. ASSUME NEW l \in Listable,
              SetTransferAddress(l[1], l[2]) \/ UnSetTransferAddress(l[1], l[2])
       PROVE  IInv'
  <2>0. l[1] \in Shards /\ l[2] \in Accounts
    BY ParameterAssumption
  <2>1. listed' \in [Shards -> SUBSET Accounts]
    BY <1>t, <1>11, <2>0 DEF SetTransferAddress, UnSetTransferAddress, TypeOK
  <2>2. QED
    BY <1>t, <1>11, <2>1 DEF SetTransferAddress, UnSetTransferAddress, TypeOK, UniqueTransfers
<1>12. CASE UNCHANGED vars
  BY <1>t, <1>12 DEF vars, TypeOK, UniqueTransfers
<1> HIDE DEF IInv
<1> QED
  BY <1>1, <1>2, <1>3, <1>4, <1>5, <1>6, <1>7, <1>8, <1>9, <1>10, <1>11, <1>12
  DEF Next, Settle

\* Every balance is a natural number in every state - no call overdraws an account -
\* and no transfer is ever in flight twice.
THEOREM TypeCorrect == Spec => [](TypeOK /\ UniqueTransfers)
<1>1. IInv <=> TypeOK /\ UniqueTransfers
  BY DEF IInv
<1>2. QED
  BY <1>1, InitIInv, StepIInv, PTL DEF Spec

-----------------------------------------------------------------------------
(* Refunds                                                                 *)

LEMMA OnlyDCTSCOnMeta ==
  ASSUME NEW a \in Addresses, HomeOf(a) = Meta
  PROVE  a = DCTSC
  BY AddressAssumption DEF HomeOf, Addresses

\* Once FixAsyncCallbackCheck is enabled a returned transfer is never refused,
\* in any state the ledger can reach.
THEOREM RefundsAlwaysAccepted ==
  ASSUME "FixAsyncCallbackCheck" \in Flags
  PROVE  Spec => []RefundsAccepted
<1>1. TypeOK => RefundsAccepted
  <2> SUFFICES ASSUME TypeOK, NEW m \in inFlight, m.ret,
                      m.to = DCTSC => "TransferToMeta" \in Flags
               PROVE  Accepts(m)
    BY DEF RefundsAccepted
  <2>1. m.to \in Addresses
    BY TransferFields DEF TypeOK
  <2>2. HomeOf(m.to) = Meta => "TransferToMeta" \in Flags
    BY <2>1, OnlyDCTSCOnMeta
  <2>3. ~MustVerifyPayable(m)
    BY DEF MustVerifyPayable
  <2>4. ~Blocked(m.to, m.ret)
    BY DEF Blocked
  <2> QED
    BY <2>2, <2>3, <2>4 DEF Accepts
<1>2. QED
  BY <1>1, TypeCorrect, PTL

-----------------------------------------------------------------------------
(* Frozen and paused accounts                                              *)

\* The tokens of a stopped account are touched by nobody but a wipe and its own
\* transfers coming back: the action property, for every step from a typed state.
THEOREM StoppedAccountsKeepFunds == Spec => StoppedFundsStay
<1> DEFINE Stopped(a) == frozen[a] \/ "paused" \in settings[ShardOf[a]]
           Wiped(a) == frozen[a] /\ ~frozen'[a] /\ balance'[a] = 0
           Refunded(a) == \E m \in inFlight \ inFlight' :
                            m.ret /\ m.to = a /\ balance'[a] = balance[a] + m.val
           Stays(a) == Stopped(a) /\ balance'[a] # balance[a] => Wiped(a) \/ Refunded(a)
<1>1. ASSUME TypeOK, [Next]_vars, NEW a \in Accounts PROVE Stays(a)
  <2>t. balance \in [Addresses -> Nat] /\ a \in Addresses /\ a # DCTSC
    BY <1>1, AccountsAreAddresses, AddressAssumption DEF TypeOK
  <2>b. \A v : CanDebit(a, v) => ~Stopped(a)
    BY <2>t DEF CanDebit, Blocked
  <2>1. ASSUME NEW t \in Requests, TransferInShard(t) PROVE Stays(a)
    <3>1. t.ret = FALSE
      BY RequestsAreTransfers
    <3>2. t.from = a \/ t.to = a => ~Stopped(a)
      BY <2>1, <2>t, <2>b, <3>1 DEF TransferInShard, Accepts, Blocked
    <3>3. t.from # a /\ t.to # a => balance'[a] = balance[a]
      BY <2>1, <2>t DEF TransferInShard
    <3>4. QED
      BY <3>2, <3>3
  <2>2. ASSUME NEW t \in Requests, SendToOtherShard(t) PROVE Stays(a)
    BY <2>2, <2>t, <2>b DEF SendToOtherShard
  <2>3. ASSUME NEW t \in inFlight, Deliver(t) PROVE Stays(a)
    <3>1. t.to # a => balance'[a] = balance[a]
      BY <2>3, <2>t DEF Deliver
    <3>2. CASE t.to = a /\ ~t.ret
      BY <2>3, <2>t, <3>2 DEF Deliver, Accepts, Blocked
    <3>3. CASE t.to = a /\ t.ret
      <4>1. balance'[a] = balance[a] + t.val /\ t \in inFlight \ inFlight'
        BY <2>3, <2>t, <3>3 DEF Deliver
      <4>2. QED
        BY <4>1, <3>3
    <3>4. QED
      BY <3>1, <3>2, <3>3
  <2>4. ASSUME NEW b \in Accounts, NEW v \in Amounts,
               LocalMint(b, v) \/ LocalBurn(b, v) \/ Burn(b, v)
        PROVE  Stays(a)
    <3>1. b = a => ~Stopped(a)
      BY <2>4, <2>t, <2>b DEF LocalMint, LocalBurn, Burn, Blocked
    <3>2. b # a => balance'[a] = balance[a]
      BY <2>4, <2>t DEF LocalMint, LocalBurn, Burn, TakeFrom
    <3>3. QED
      BY <3>1, <3>2
  <2>5. ASSUME NEW b \in Freezable, Wipe(b) PROVE Stays(a)
    <3>1. b \in Addresses /\ b \in Accounts /\ frozen \in [Accounts -> BOOLEAN]
      BY <1>1, AccountsAreAddresses, ParameterAssumption DEF TypeOK
    <3>2. b # a => balance'[a] = balance[a]
      BY <2>5, <2>t, <3>1 DEF Wipe
    <3>3. b = a => Wiped(a)
      BY <2>5, <2>t, <3>1 DEF Wipe
    <3>4. QED
      BY <3>2, <3>3
  <2>6. CASE UNCHANGED balance
    BY <2>6
  <2>7. ASSUME NEW t \in Issues, Issue(t) PROVE UNCHANGED balance
    BY <2>7 DEF Issue
  <2>8. ASSUME NEW t \in inFlight, NEW f \in {"none", "named"}, SendBack(t, f)
        PROVE  UNCHANGED balance
    BY <2>8 DEF SendBack
  <2>9. ASSUME NEW b \in Freezable, NEW freeze \in BOOLEAN, ToggleFreeze(b, freeze)
        PROVE  UNCHANGED balance
    BY <2>9 DEF ToggleFreeze
  <2>10. ASSUME NEW t \in Toggles, NEW set \in BOOLEAN, ToggleSetting(t[1], t[2], set)
         PROVE  UNCHANGED balance
    BY <2>10 DEF ToggleSetting
  <2>11. ASSUME NEW g \in Grantable, SetRole(g[1], g[2]) \/ UnSetRole(g[1], g[2])
         PROVE  UNCHANGED balance
    BY <2>11 DEF SetRole, UnSetRole
  <2>12. ASSUME NEW l \in Listable,
              SetTransferAddress(l[1], l[2]) \/ UnSetTransferAddress(l[1], l[2])
         PROVE  UNCHANGED balance
    BY <2>12 DEF SetTransferAddress, UnSetTransferAddress
  <2>13. CASE UNCHANGED vars
    BY <2>13 DEF vars
  <2> HIDE DEF Stays
  <2> QED
    BY <1>1, <2>1, <2>2, <2>3, <2>4, <2>5, <2>6, <2>7, <2>8, <2>9, <2>10, <2>11, <2>12, <2>13
    DEF Next, Settle
<1>2. TypeOK /\ [Next]_vars => [StoppedFundsStep]_vars
  BY <1>1 DEF StoppedFundsStep
<1>3. QED
  BY <1>2, TypeCorrect, PTL DEF Spec, StoppedFundsStay

-----------------------------------------------------------------------------
(* The ledger implements TokenEscrow                                       *)

Pending(S) == {OriginOf(m) : m \in S}

LEMMA OriginIsTransfer ==
  ASSUME NEW m \in Transfers
  PROVE  /\ OriginOf(m) \in Escrow!Transfers
         /\ OriginOf(m).id = m.id /\ OriginOf(m).val = m.val
         /\ m.ret => OriginOf(m).from = m.to
         /\ ~m.ret => OriginOf(m).from = m.from /\ OriginOf(m).to = m.to
  BY TransferFields DEF OriginOf, Escrow!Transfers, Transfers

LEMMA OriginOfReturned ==
  ASSUME NEW t \in Transfers, ~t.ret, NEW f \in {"none", "named"}
  PROVE  OriginOf(Returned(t, f)) = OriginOf(t)
<1>1. Returned(t, f).ret = TRUE /\ Returned(t, f).id = t.id /\ Returned(t, f).val = t.val
      /\ Returned(t, f).from = t.to /\ Returned(t, f).to = t.from
  BY ReturnedIsTransfer
<1>2. QED
  BY <1>1 DEF OriginOf

LEMMA InitEscrow == Init => Escrow!Init
  BY DEF Init, Escrow!Init

LEMMA SendingReserves ==
  ASSUME TypeOK, NEW t \in Transfers, ~t.ret, Unused(t.id), inFlight' = inFlight \cup {t}
  PROVE  /\ OriginOf(t) \in Escrow!Transfers
         /\ Escrow!Fresh(OriginOf(t))
         /\ Pending(inFlight') = Pending(inFlight) \cup {OriginOf(t)}
<1>1. \A m \in inFlight : OriginOf(m).id = m.id
  BY OriginIsTransfer DEF TypeOK
<1>2. Escrow!Fresh(OriginOf(t))
  BY <1>1, OriginIsTransfer DEF Escrow!Fresh, Unused
<1>3. QED
  BY <1>2, OriginIsTransfer DEF Pending

LEMMA DeliverySettles ==
  ASSUME TypeOK, UniqueTransfers, NEW t \in inFlight, inFlight' = inFlight \ {t}
  PROVE  Pending(inFlight') = Pending(inFlight) \ {OriginOf(t)}
<1>1. \A m \in inFlight : OriginOf(m) = OriginOf(t) => m = t
  BY OriginIsTransfer DEF TypeOK, UniqueTransfers
<1>2. QED
  BY <1>1 DEF Pending

LEMMA ReturnStutters ==
  ASSUME TypeOK, UniqueTransfers, NEW t \in inFlight, ~t.ret,
         NEW f \in {"none", "named"}, inFlight' = (inFlight \ {t}) \cup {Returned(t, f)}
  PROVE  Pending(inFlight') = Pending(inFlight)
<1>1. OriginOf(Returned(t, f)) = OriginOf(t)
  BY OriginOfReturned DEF TypeOK
<1>2. QED
  BY <1>1 DEF Pending

LEMMA StepEscrow == IInv /\ [Next]_vars => [Escrow!Next]_(Escrow!vars)
<1> SUFFICES ASSUME IInv, [Next]_vars PROVE [Escrow!Next]_(Escrow!vars)
  OBVIOUS
<1>t. TypeOK /\ UniqueTransfers
  BY DEF IInv
<1>p. /\ {OriginOf(m) : m \in inFlight} = Pending(inFlight)
      /\ {OriginOf(m) : m \in inFlight'} = Pending(inFlight')
  BY DEF Pending
<1>1. ASSUME NEW t \in Requests, TransferInShard(t) PROVE Escrow!Next
  <2>1. t.from \in Addresses /\ t.to \in Addresses /\ t.val \in Amounts
    BY RequestsAreTransfers, TransferFields
  <2>2. Escrow!Move(t.from, t.to, t.val)
    BY <1>1, <1>p DEF TransferInShard, CanDebit, Escrow!Move
  <2>3. QED
    BY <2>1, <2>2 DEF Escrow!Next
<1>2. ASSUME NEW t \in Requests, SendToOtherShard(t) PROVE Escrow!Next
  <2>1. t \in Transfers /\ ~t.ret
    BY RequestsAreTransfers
  <2>2. /\ OriginOf(t) \in Escrow!Transfers /\ Escrow!Fresh(OriginOf(t))
        /\ Pending(inFlight') = Pending(inFlight) \cup {OriginOf(t)}
    BY <1>t, <1>2, <2>1, SendingReserves DEF SendToOtherShard
  <2>3. OriginOf(t).from = t.from /\ OriginOf(t).val = t.val
    BY <2>1, OriginIsTransfer
  <2>4. Escrow!Reserve(OriginOf(t))
    BY <1>2, <1>p, <2>2, <2>3 DEF SendToOtherShard, CanDebit, Escrow!Reserve
  <2>5. QED
    BY <2>2, <2>4 DEF Escrow!Next
<1>3. ASSUME NEW t \in Issues, Issue(t) PROVE Escrow!Next
  <2>1. t \in Transfers /\ ~t.ret
    BY IssuesAreTransfers DEF Issues
  <2>2. /\ OriginOf(t) \in Escrow!Transfers /\ Escrow!Fresh(OriginOf(t))
        /\ Pending(inFlight') = Pending(inFlight) \cup {OriginOf(t)}
    BY <1>t, <1>3, <2>1, SendingReserves DEF Issue
  <2>3. Escrow!Promise(OriginOf(t))
    BY <1>3, <1>p, <2>1, <2>2, OriginIsTransfer DEF Issue, Escrow!Promise
  <2>4. QED
    BY <2>2, <2>3 DEF Escrow!Next
<1>4. ASSUME NEW t \in inFlight, Deliver(t) PROVE Escrow!Next
  <2>1. t \in Transfers
    BY <1>t DEF TypeOK
  <2>2. Pending(inFlight') = Pending(inFlight) \ {OriginOf(t)}
    BY <1>t, <1>4, DeliverySettles DEF Deliver
  <2>3. OriginOf(t) \in Pending(inFlight)
    BY DEF Pending
  <2>4. CASE t.ret
    <3>1. Escrow!Cancel(OriginOf(t))
      BY <1>4, <1>p, <2>1, <2>2, <2>4, OriginIsTransfer DEF Deliver, Escrow!Cancel
    <3>2. QED
      BY <1>p, <2>3, <3>1 DEF Escrow!Next
  <2>5. CASE ~t.ret
    <3>1. Escrow!Commit(OriginOf(t))
      BY <1>4, <1>p, <2>1, <2>2, <2>5, OriginIsTransfer DEF Deliver, Escrow!Commit
    <3>2. QED
      BY <1>p, <2>3, <3>1 DEF Escrow!Next
  <2>6. QED
    BY <2>4, <2>5
<1>5. ASSUME NEW t \in inFlight, NEW f \in {"none", "named"}, SendBack(t, f)
      PROVE  UNCHANGED Escrow!vars
  <2>1. Pending(inFlight') = Pending(inFlight)
    BY <1>t, <1>5, ReturnStutters DEF SendBack
  <2>2. QED
    BY <1>5, <1>p, <2>1 DEF SendBack, Escrow!vars
<1>6. ASSUME NEW a \in Accounts, NEW v \in Amounts,
             LocalMint(a, v) \/ LocalBurn(a, v) \/ Burn(a, v)
      PROVE  Escrow!Next
  <2>1. a \in Addresses /\ v \in Nat
    BY AccountsAreAddresses, ParameterAssumption
  <2>2. CASE LocalMint(a, v)
    <3>1. Escrow!Create(a, v)
      BY <2>2, <1>p DEF LocalMint, Escrow!Create
    <3>2. QED
      BY <2>1, <3>1 DEF Escrow!Next
  <2>3. CASE LocalBurn(a, v) \/ Burn(a, v)
    <3>1. Escrow!Destroy(a, v) /\ v <= balance[a]
      BY <1>t, <2>1, <2>3, <1>p DEF LocalBurn, Burn, TakeFrom, CanDebit, Escrow!Destroy, TypeOK
    <3>2. v \in 0..balance[a]
      BY <1>t, <2>1, <3>1 DEF TypeOK
    <3>3. QED
      BY <2>1, <3>1, <3>2 DEF Escrow!Next
  <2>4. QED
    BY <1>6, <2>2, <2>3
<1>7. ASSUME NEW a \in Freezable, Wipe(a) PROVE Escrow!Next
  <2>1. a \in Addresses /\ balance[a] \in Nat
    BY <1>t, AccountsAreAddresses, ParameterAssumption DEF TypeOK
  <2>2. Escrow!Destroy(a, balance[a])
    <3>0. balance[a] - balance[a] = 0
      BY <2>1
    <3>1. balance' = [balance EXCEPT ![a] = balance[a] - balance[a]]
      BY <1>7, <3>0, Zenon DEF Wipe
    <3>2. UNCHANGED inFlight /\ supply' = supply - balance[a] /\ balance[a] >= balance[a]
      BY <1>7, <2>1 DEF Wipe
    <3>3. QED
      BY <1>p, <3>1, <3>2 DEF Escrow!Destroy
  <2>3. balance[a] \in 0..balance[a]
    BY <2>1
  <2>4. QED
    BY <2>1, <2>2, <2>3 DEF Escrow!Next
<1>8. CASE UNCHANGED <<balance, inFlight, supply>>
  BY <1>8, <1>p DEF Escrow!vars
<1>9. ASSUME NEW a \in Freezable, NEW freeze \in BOOLEAN, ToggleFreeze(a, freeze)
      PROVE  UNCHANGED <<balance, inFlight, supply>>
  BY <1>9 DEF ToggleFreeze
<1>10. ASSUME NEW t \in Toggles, NEW set \in BOOLEAN, ToggleSetting(t[1], t[2], set)
       PROVE  UNCHANGED <<balance, inFlight, supply>>
  BY <1>10 DEF ToggleSetting
<1>11. ASSUME NEW g \in Grantable, SetRole(g[1], g[2]) \/ UnSetRole(g[1], g[2])
       PROVE  UNCHANGED <<balance, inFlight, supply>>
  BY <1>11 DEF SetRole, UnSetRole
<1>12. ASSUME NEW l \in Listable,
              SetTransferAddress(l[1], l[2]) \/ UnSetTransferAddress(l[1], l[2])
       PROVE  UNCHANGED <<balance, inFlight, supply>>
  BY <1>12 DEF SetTransferAddress, UnSetTransferAddress
<1>13. CASE UNCHANGED vars
  BY <1>13, <1>8 DEF vars
<1> QED
  BY <1>1, <1>2, <1>3, <1>4, <1>5, <1>6, <1>7, <1>8, <1>9, <1>10, <1>11, <1>12, <1>13
  DEF Next, Settle

\* Every behaviour of the ledger is one of TokenEscrow: a transfer between shards is
\* settled at most once, to its destination or back to its sender, for the amount
\* that was taken from the sender.
THEOREM LedgerImplementsEscrow == Spec => ImplementsEscrow
<1>1. QED
  BY InitIInv, StepIInv, InitEscrow, StepEscrow, PTL DEF Spec, ImplementsEscrow, Escrow!Spec

-----------------------------------------------------------------------------
(* Conservation                                                            *)

Held(f) == SumFunctionOnSet(f, Addresses)
Moving(S) == SumFunctionOnSet([m \in S |-> m.val], S)

\* The sums are of finitely many numbers.
CInv == Conservation /\ IsFiniteSet(inFlight)

LEMMA ConservationSums ==
  ASSUME TypeOK
  PROVE  Conservation <=> Held(balance) + Moving(inFlight) = supply
<1>1. DOMAIN balance = Addresses /\ DOMAIN [m \in inFlight |-> m.val] = inFlight
  BY DEF TypeOK
<1>2. QED
  BY <1>1 DEF Conservation, SumFunction, Held, Moving

LEMMA FiniteAddresses == IsFiniteSet(Addresses)
  BY AddressAssumption, FS_AddElement DEF Addresses

\* The balance of one address changes by w.
LEMMA HeldChanges ==
  ASSUME NEW f \in [Addresses -> Int], NEW g \in [Addresses -> Int],
         NEW a \in Addresses, NEW w \in Int,
         g[a] = f[a] + w, \A x \in Addresses \ {a} : g[x] = f[x]
  PROVE  Held(g) = Held(f) + w
<1>1. /\ \A x \in Addresses : f[x] \in Int
      /\ \A x \in Addresses : g[x] \in Int
  OBVIOUS
<1>2. Held(g) = Held(f) - f[a] + g[a]
  BY <1>1, FiniteAddresses, SumChange DEF Held
<1>3. Held(f) \in Int
  BY <1>1, FiniteAddresses, SumType DEF Held
<1>4. QED
  BY <1>1, <1>2, <1>3

LEMMA MovingJoins ==
  ASSUME NEW S \in SUBSET Transfers, IsFiniteSet(S), NEW t \in Transfers, t \notin S
  PROVE  /\ Moving(S \cup {t}) = Moving(S) + t.val /\ Moving(S) \in Int
         /\ IsFiniteSet(S \cup {t})
<1> DEFINE T == S \cup {t}
           f == [m \in S |-> m.val]
           g == [m \in T |-> m.val]
<1>1. /\ \A x \in S : f[x] = g[x]
      /\ \A x \in S : f[x] \in Int
      /\ \A x \in T : g[x] \in Int
      /\ g[t] = t.val
  BY TransferFields
<1> HIDE DEF f, g
<1>2. SumFunctionOnSet(f, S) = SumFunctionOnSet(g, S)
  BY <1>1, SumAgrees
<1>3. SumFunctionOnSet(g, S \cup {t}) = SumFunctionOnSet(g, S) + g[t]
  BY <1>1, SumAdd
<1>4. SumFunctionOnSet(f, S) \in Int
  BY <1>1, SumType
<1>5. QED
  BY <1>1, <1>2, <1>3, <1>4, FS_AddElement DEF Moving, f, g

LEMMA MovingLeaves ==
  ASSUME NEW S \in SUBSET Transfers, IsFiniteSet(S), NEW t \in S
  PROVE  /\ Moving(S \ {t}) = Moving(S) - t.val /\ Moving(S \ {t}) \in Int
         /\ Moving(S) \in Int /\ IsFiniteSet(S \ {t})
<1>1. IsFiniteSet(S \ {t}) /\ (S \ {t}) \cup {t} = S /\ S \ {t} \in SUBSET Transfers
  BY FS_RemoveElement
<1>2. Moving(S) = Moving(S \ {t}) + t.val /\ Moving(S \ {t}) \in Int
  BY <1>1, MovingJoins
<1>3. t.val \in Nat
  BY TransferFields
<1>4. QED
  BY <1>1, <1>2, <1>3

LEMMA InitCInv == Init => CInv
<1> SUFFICES ASSUME Init PROVE CInv
  OBVIOUS
<1>1. TypeOK
  BY InitIInv DEF IInv
<1>2. Held(balance) = 0
  BY FiniteAddresses, SumZero DEF Init, Held
<1>3. Moving({}) = 0
  BY SumEmpty DEF Moving
<1>4. QED
  BY <1>1, <1>2, <1>3, ConservationSums, FS_EmptySet DEF Init, CInv

LEMMA StepCInv == IInv /\ CInv /\ [Next]_vars => CInv'
<1> SUFFICES ASSUME IInv, CInv, [Next]_vars PROVE CInv'
  OBVIOUS
<1>t. TypeOK /\ TypeOK' /\ UniqueTransfers
  BY StepIInv DEF IInv
<1>i. /\ balance \in [Addresses -> Int] /\ supply \in Int
      /\ inFlight \in SUBSET Transfers /\ IsFiniteSet(inFlight)
      /\ Held(balance) + Moving(inFlight) = supply
  BY <1>t, ConservationSums DEF TypeOK, CInv
<1>h. Held(balance) \in Int /\ Moving(inFlight) \in Int
  <2>1. Held(balance) \in Int
    BY <1>i, FiniteAddresses, SumType DEF Held
  <2>2. \A m \in inFlight : [x \in inFlight |-> x.val][m] \in Int
    BY <1>i, TransferFields
  <2>3. QED
    BY <1>i, <2>1, <2>2, SumType DEF Moving
<1>g. IsFiniteSet(inFlight') /\ Held(balance') + Moving(inFlight') = supply' => CInv'
  <2>1. DOMAIN balance' = Addresses /\ DOMAIN [m \in inFlight' |-> m.val] = inFlight'
    BY <1>t DEF TypeOK
  <2>2. Conservation' <=> Held(balance') + Moving(inFlight') = supply'
    BY <2>1 DEF Conservation, SumFunction, Held, Moving
  <2>3. QED
    BY <2>2 DEF CInv
<1>b. balance' \in [Addresses -> Int]
  BY <1>t DEF TypeOK
<1>1. ASSUME NEW t \in Requests, TransferInShard(t) PROVE CInv'
  <2> DEFINE b == [balance EXCEPT ![t.from] = @ - t.val]
  <2>1. t.from \in Addresses /\ t.to \in Addresses /\ t.val \in Nat
    BY RequestsAreTransfers, TransferFields
  <2>2. /\ b \in [Addresses -> Int]
        /\ b[t.from] = balance[t.from] + (-t.val)
        /\ \A x \in Addresses \ {t.from} : b[x] = balance[x]
    BY <1>i, <2>1
  <2>3. balance' = [b EXCEPT ![t.to] = @ + t.val]
    BY <1>1 DEF TransferInShard
  <2> HIDE DEF b
  <2>4. /\ balance'[t.to] = b[t.to] + t.val
        /\ \A x \in Addresses \ {t.to} : balance'[x] = b[x]
    BY <2>1, <2>2, <2>3
  <2>5. -t.val \in Int /\ t.val \in Int
    BY <2>1
  <2>6. Held(b) = Held(balance) + (-t.val)
    BY <1>i, <2>1, <2>2, <2>5, HeldChanges
  <2>7. Held(balance') = Held(b) + t.val
    BY <1>b, <2>1, <2>2, <2>4, <2>5, HeldChanges
  <2>8. UNCHANGED <<inFlight, supply>>
    BY <1>1 DEF TransferInShard
  <2>9. QED
    BY <1>i, <1>h, <1>g, <2>5, <2>6, <2>7, <2>8
<1>2. ASSUME NEW t \in Requests, SendToOtherShard(t) PROVE CInv'
  <2>1. t \in Transfers /\ t.from \in Addresses /\ t.val \in Nat /\ t \notin inFlight
    BY <1>2, RequestsAreTransfers, TransferFields DEF SendToOtherShard, Unused
  <2>2. /\ -t.val \in Int /\ balance'[t.from] = balance[t.from] + (-t.val)
        /\ \A x \in Addresses \ {t.from} : balance'[x] = balance[x]
    BY <1>i, <1>2, <2>1 DEF SendToOtherShard
  <2>3. Held(balance') = Held(balance) + (-t.val)
    BY <1>i, <1>b, <2>1, <2>2, HeldChanges
  <2>4. inFlight' = inFlight \cup {t} /\ supply' = supply
    BY <1>2 DEF SendToOtherShard
  <2>5. Moving(inFlight') = Moving(inFlight) + t.val /\ IsFiniteSet(inFlight')
    BY <1>i, <2>1, <2>4, MovingJoins
  <2>6. QED
    BY <1>i, <1>h, <1>g, <2>1, <2>3, <2>4, <2>5
<1>3. ASSUME NEW t \in Issues, Issue(t) PROVE CInv'
  <2>1. t \in Transfers /\ t.val \in Nat /\ t \notin inFlight
    BY <1>3, IssuesAreTransfers, TransferFields DEF Issue, Unused
  <2>2. inFlight' = inFlight \cup {t} /\ supply' = supply + t.val /\ balance' = balance
    BY <1>3 DEF Issue
  <2>3. Moving(inFlight') = Moving(inFlight) + t.val /\ IsFiniteSet(inFlight')
    BY <1>i, <2>1, <2>2, MovingJoins
  <2>4. QED
    BY <1>i, <1>h, <1>g, <2>1, <2>2, <2>3
<1>4. ASSUME NEW t \in inFlight, Deliver(t) PROVE CInv'
  <2>1. t.to \in Addresses /\ t.val \in Nat
    BY <1>i, TransferFields
  <2>2. /\ t.val \in Int /\ balance'[t.to] = balance[t.to] + t.val
        /\ \A x \in Addresses \ {t.to} : balance'[x] = balance[x]
    BY <1>i, <1>4, <2>1 DEF Deliver
  <2>3. Held(balance') = Held(balance) + t.val
    BY <1>i, <1>b, <2>1, <2>2, HeldChanges
  <2>4. inFlight' = inFlight \ {t} /\ supply' = supply
    BY <1>4 DEF Deliver
  <2>5. Moving(inFlight') = Moving(inFlight) - t.val /\ IsFiniteSet(inFlight')
    BY <1>i, <2>4, MovingLeaves
  <2>6. QED
    BY <1>i, <1>h, <1>g, <2>1, <2>3, <2>4, <2>5
<1>5. ASSUME NEW t \in inFlight, NEW f \in {"none", "named"}, SendBack(t, f) PROVE CInv'
  <2> DEFINE r == Returned(t, f)
  <2>1. t \in Transfers /\ t.val \in Nat /\ ~t.ret
    BY <1>i, <1>5, TransferFields DEF SendBack
  <2>2. r \in Transfers /\ r.val = t.val /\ r.id = t.id /\ r.ret = TRUE
    BY <2>1, ReturnedIsTransfer
  <2>3. inFlight' = (inFlight \ {t}) \cup {r} /\ UNCHANGED <<balance, supply>>
    BY <1>5 DEF SendBack
  <2> HIDE DEF r
  <2>4. r \notin inFlight \ {t}
    BY <1>t, <2>2 DEF UniqueTransfers
  <2>5. /\ Moving(inFlight \ {t}) = Moving(inFlight) - t.val
        /\ Moving(inFlight \ {t}) \in Int /\ IsFiniteSet(inFlight \ {t})
    BY <1>i, MovingLeaves
  <2>6. /\ Moving((inFlight \ {t}) \cup {r}) = Moving(inFlight \ {t}) + r.val
        /\ IsFiniteSet((inFlight \ {t}) \cup {r})
    BY <1>i, <2>2, <2>4, <2>5, MovingJoins
  <2>7. QED
    BY <1>i, <1>h, <1>g, <2>1, <2>2, <2>3, <2>5, <2>6
<1>6. ASSUME NEW a \in Accounts, NEW v \in Amounts,
             LocalMint(a, v) \/ LocalBurn(a, v) \/ Burn(a, v)
      PROVE  CInv'
  <2>1. a \in Addresses /\ v \in Nat
    BY AccountsAreAddresses, ParameterAssumption
  <2>2. PICK w \in {v, -v} : balance'[a] = balance[a] + w /\ supply' = supply + w
    <3>1. CASE LocalMint(a, v)
      BY <1>i, <2>1, <3>1 DEF LocalMint
    <3>2. CASE TakeFrom(a, v)
      <4>1. balance'[a] = balance[a] + (-v) /\ supply' = supply + (-v)
        BY <1>i, <2>1, <3>2 DEF TakeFrom
      <4>2. QED
        BY <4>1
    <3>3. QED
      BY <1>6, <3>1, <3>2 DEF LocalBurn, Burn
  <2>3. inFlight' = inFlight /\ \A x \in Addresses \ {a} : balance'[x] = balance[x]
    BY <1>i, <1>6, <2>1 DEF LocalMint, LocalBurn, Burn, TakeFrom
  <2>4. w \in Int
    BY <2>1
  <2>5. Held(balance') = Held(balance) + w
    BY <1>i, <1>b, <2>1, <2>2, <2>3, <2>4, HeldChanges
  <2>6. QED
    BY <1>i, <1>h, <1>g, <2>2, <2>3, <2>4, <2>5
<1>7. ASSUME NEW a \in Freezable, Wipe(a) PROVE CInv'
  <2>1. a \in Addresses /\ balance[a] \in Int
    BY <1>i, AccountsAreAddresses, ParameterAssumption
  <2>2. /\ -balance[a] \in Int /\ balance'[a] = balance[a] + (-balance[a])
        /\ \A x \in Addresses \ {a} : balance'[x] = balance[x]
    BY <1>i, <1>7, <2>1 DEF Wipe
  <2>3. Held(balance') = Held(balance) + (-balance[a])
    BY <1>i, <1>b, <2>1, <2>2, HeldChanges
  <2>4. inFlight' = inFlight /\ supply' = supply - balance[a]
    BY <1>7 DEF Wipe
  <2>5. QED
    BY <1>i, <1>h, <1>g, <2>1, <2>3, <2>4
<1>8. CASE UNCHANGED <<balance, inFlight, supply>>
  BY <1>8, <1>i, <1>g
<1>9. ASSUME NEW a \in Freezable, NEW freeze \in BOOLEAN, ToggleFreeze(a, freeze)
      PROVE  UNCHANGED <<balance, inFlight, supply>>
  BY <1>9 DEF ToggleFreeze
<1>10. ASSUME NEW t \in Toggles, NEW set \in BOOLEAN, ToggleSetting(t[1], t[2], set)
       PROVE  UNCHANGED <<balance, inFlight, supply>>
  BY <1>10 DEF ToggleSetting
<1>11. ASSUME NEW g \in Grantable, SetRole(g[1], g[2]) \/ UnSetRole(g[1], g[2])
       PROVE  UNCHANGED <<balance, inFlight, supply>>
  BY <1>11 DEF SetRole, UnSetRole
<1>12. ASSUME NEW l \in Listable,
              SetTransferAddress(l[1], l[2]) \/ UnSetTransferAddress(l[1], l[2])
       PROVE  UNCHANGED <<balance, inFlight, supply>>
  BY <1>12 DEF SetTransferAddress, UnSetTransferAddress
<1>13. CASE UNCHANGED vars
  BY <1>13, <1>8 DEF vars
<1> QED
  BY <1>1, <1>2, <1>3, <1>4, <1>5, <1>6, <1>7, <1>8, <1>9, <1>10, <1>11, <1>12, <1>13
  DEF Next, Settle

\* Balances and transfers on their way always add up to the supply of DCTSC's books,
\* over any number of accounts and shards and through every failed and returned call.
THEOREM TokensConserved == Spec => []Conservation
<1>1. CInv => Conservation
  BY DEF CInv
<1>2. Spec => []IInv
  BY InitIInv, StepIInv, PTL DEF Spec
<1>3. QED
  BY <1>1, <1>2, InitCInv, StepCInv, PTL DEF Spec

-----------------------------------------------------------------------------
(* Limited transfers                                                       *)

MayTransferFor(a, b) ==
  b \in listed[ShardOf[a]] \/ (b # DCTSC /\ HasRole(b, "transfer"))

\* What checkIfTransferCanHappenWithLimitedTransfer lets through has a party that
\* may transfer limited tokens.
LEMMA AllowedByAParty ==
  ASSUME NEW a \in Accounts, NEW to \in Addresses,
         "limited" \in settings[ShardOf[a]], TransferAllowed(a, to)
  PROVE  MayTransferFor(a, a) \/ MayTransferFor(a, to)
<1>1. a # DCTSC
  BY AddressAssumption
<1>2. CASE {a, to} \cap listed[ShardOf[a]] # {}
  BY <1>2 DEF MayTransferFor
<1>3. CASE HasRole(a, "transfer")
  BY <1>1, <1>3 DEF MayTransferFor
<1>4. CASE to # DCTSC /\ HasRole(to, "transfer")
  BY <1>4 DEF MayTransferFor
<1>5. QED
  BY <1>2, <1>3, <1>4 DEF TransferAllowed

\* While transfers are limited on an account's shard no tokens leave it, burns and
\* wipes apart, unless it or who it sends them to may transfer limited tokens
\* (checkIfTransferCanHappenWithLimitedTransfer, run before every debit).
THEOREM LimitedTransfersHaveRole == Spec => LimitedTransferNeedsRole
<1> DEFINE Limited(a) ==
             "limited" \in settings[ShardOf[a]] /\ balance'[a] < balance[a] /\ supply' = supply
           Receives(a, b) ==
             b = a \/ balance'[b] > balance[b] \/ \E m \in inFlight' \ inFlight : m.to = b
           Goal(a) ==
             Limited(a) => \E b \in Addresses :
                             /\ b = a \/ balance'[b] > balance[b]
                                 \/ \E m \in inFlight' \ inFlight : m.to = b
                             /\ b \in listed[ShardOf[a]] \/ (b # DCTSC /\ HasRole(b, "transfer"))
<1>1. ASSUME TypeOK, [Next]_vars, NEW a \in Accounts PROVE Goal(a)
  <2>t. /\ balance \in [Addresses -> Nat] /\ supply \in Int /\ a \in Addresses
        /\ balance[a] \in Nat /\ Amounts \subseteq Nat \ {0}
    BY <1>1, AccountsAreAddresses, ParameterAssumption DEF TypeOK
  <2>b. ASSUME NEW b \in Addresses, Receives(a, b), MayTransferFor(a, b) PROVE Goal(a)
    BY <2>b DEF MayTransferFor
  <2>s. ASSUME NEW b \in Accounts, b # a, NEW f, balance' = [balance EXCEPT ![b] = f]
        PROVE  ~Limited(a)
    BY <2>s, <2>t
  <2>1. ASSUME NEW t \in Requests, TransferInShard(t), Limited(a) PROVE Goal(a)
    <3>1. /\ t.from \in Addresses /\ t.to \in Addresses /\ t.val \in Nat /\ t.val > 0
      <4>1. t \in Transfers
        BY RequestsAreTransfers
      <4>2. t.from \in Addresses /\ t.to \in Addresses /\ t.val \in Amounts
        BY <4>1, TransferFields
      <4>3. t.val \in Nat \ {0}
        BY <4>2, <2>t
      <4>4. QED
        BY <4>2, <4>3
    <3>2. balance' = [[balance EXCEPT ![t.from] = @ - t.val] EXCEPT ![t.to] = @ + t.val]
      BY <2>1 DEF TransferInShard
    <3>3. t.from = a /\ t.to # a
      BY <2>1, <2>t, <3>1, <3>2
    <3>4. balance'[t.to] > balance[t.to]
      BY <2>t, <3>1, <3>2, <3>3
    <3>5. MayTransferFor(a, a) \/ MayTransferFor(a, t.to)
      BY <2>1, <3>1, <3>3, AllowedByAParty DEF TransferInShard
    <3>6. QED
      BY <2>b, <2>t, <3>1, <3>4, <3>5
  <2>2. ASSUME NEW t \in Requests, SendToOtherShard(t), Limited(a) PROVE Goal(a)
    <3>1. /\ t.from \in Addresses /\ t.to \in Addresses /\ t.val \in Nat /\ t.val > 0
      <4>1. t \in Transfers
        BY RequestsAreTransfers
      <4>2. t.from \in Addresses /\ t.to \in Addresses /\ t.val \in Amounts
        BY <4>1, TransferFields
      <4>3. t.val \in Nat \ {0}
        BY <4>2, <2>t
      <4>4. QED
        BY <4>2, <4>3
    <3>2. balance' = [balance EXCEPT ![t.from] = @ - t.val]
      BY <2>2 DEF SendToOtherShard
    <3>3. t.from = a
      BY <2>2, <2>t, <3>1, <3>2
    <3>4. t \in inFlight' \ inFlight
      BY <2>2 DEF SendToOtherShard, Unused
    <3>5. MayTransferFor(a, a) \/ MayTransferFor(a, t.to)
      BY <2>2, <3>1, <3>3, AllowedByAParty DEF SendToOtherShard
    <3>6. QED
      BY <2>b, <2>t, <3>1, <3>4, <3>5
  <2>3. ASSUME NEW t \in inFlight, Deliver(t) PROVE ~Limited(a)
    <3>1. t.to \in Addresses /\ t.val \in Nat
      BY <1>1, <2>t, TransferFields DEF TypeOK
    <3>2. balance' = [balance EXCEPT ![t.to] = @ + t.val]
      BY <2>3 DEF Deliver
    <3>3. QED
      BY <2>t, <3>1, <3>2
  <2>4. ASSUME NEW b \in Accounts, NEW v \in Amounts,
               LocalMint(b, v) \/ LocalBurn(b, v) \/ Burn(b, v)
        PROVE  ~Limited(a)
    <3>1. supply' = supply + v \/ supply' = supply - v
      BY <2>4 DEF LocalMint, LocalBurn, Burn, TakeFrom
    <3>2. QED
      BY <2>t, <3>1
  <2>5. ASSUME NEW b \in Freezable, Wipe(b) PROVE ~Limited(a)
    <3>1. b \in Addresses /\ b \in Accounts /\ balance[b] \in Nat
      BY <2>t, AccountsAreAddresses, ParameterAssumption
    <3>2. balance' = [balance EXCEPT ![b] = 0] /\ supply' = supply - balance[b]
      BY <2>5 DEF Wipe
    <3>3. b # a => ~Limited(a)
      BY <3>1, <3>2, <2>s
    <3>4. b = a => ~Limited(a)
      BY <2>t, <3>1, <3>2
    <3>5. QED
      BY <3>3, <3>4
  <2>6. CASE UNCHANGED balance
    BY <2>6, <2>t
  <2>7. ASSUME NEW t \in Issues, Issue(t) PROVE UNCHANGED balance
    BY <2>7 DEF Issue
  <2>8. ASSUME NEW t \in inFlight, NEW f \in {"none", "named"}, SendBack(t, f)
        PROVE  UNCHANGED balance
    BY <2>8 DEF SendBack
  <2>9. ASSUME NEW b \in Freezable, NEW freeze \in BOOLEAN, ToggleFreeze(b, freeze)
        PROVE  UNCHANGED balance
    BY <2>9 DEF ToggleFreeze
  <2>10. ASSUME NEW t \in Toggles, NEW set \in BOOLEAN, ToggleSetting(t[1], t[2], set)
         PROVE  UNCHANGED balance
    BY <2>10 DEF ToggleSetting
  <2>11. ASSUME NEW g \in Grantable, SetRole(g[1], g[2]) \/ UnSetRole(g[1], g[2])
         PROVE  UNCHANGED balance
    BY <2>11 DEF SetRole, UnSetRole
  <2>12. ASSUME NEW l \in Listable,
              SetTransferAddress(l[1], l[2]) \/ UnSetTransferAddress(l[1], l[2])
         PROVE  UNCHANGED balance
    BY <2>12 DEF SetTransferAddress, UnSetTransferAddress
  <2>13. UNCHANGED vars => UNCHANGED balance
    BY DEF vars
  <2> HIDE DEF Goal, Limited
  <2>14. ~Limited(a) => Goal(a)
    BY DEF Goal
  <2>15. UNCHANGED balance => Goal(a)
    BY <2>6
  <2> QED
    BY <1>1, <2>1, <2>2, <2>3, <2>4, <2>5, <2>7, <2>8, <2>9, <2>10, <2>11, <2>12, <2>13,
       <2>14, <2>15
    DEF Next, Settle
<1>2. TypeOK /\ [Next]_vars => [LimitedTransferStep]_vars
  BY <1>1 DEF LimitedTransferStep
<1>3. QED
  BY <1>2, TypeCorrect, PTL DEF Spec, LimitedTransferNeedsRole

=============================================================================
